# OgerJS in TLA+

OgerJS is a TypeScript web framework: an application is built from routes, hooks
and plugins, compiled once into one function per route, and served by Bun or Node.
This directory holds TLA+ specifications of the parts that keep state or depend
on order, model-checked with TLC on small instances, and theorems about them
proved with TLAPS for every instance. All paths below are relative to the repository.

## The system

| Part | State it keeps | Operations | What is hard about it |
|---|---|---|---|
| Compiled route (`packages/core/src/compiler/pipeline.ts`, `compilePipeline`) | per request: `ctx`, the result so far, where run() is suspended | the steps of `run()`: parse, transform, derive, validation, beforeHandle, handler, afterHandle, mapResponse, onError, onAfterResponse | every step is synchronous or suspended; exceptions are caught by nested `try` or by reject arms; observers run detached |
| beforeHandle fast path (same file, `compileBeforeHandleServeHandler`) | per route: one context slot, the flag `returnsResponseDirectly` | bind, hooks, handler | requests interleave on the slot |
| Other fast paths (same file, `compiler/routes.ts`) | per route: what was probed at compile time | choice of the form, handler | a predicate that overlooks a hook or schema drops it |
| Idempotency plugin (`packages/idempotency`) | in-flight table of the module, record store, three fields of `app.store` | a beforeHandle and a mapResponse hook | two hooks communicate through state that all requests share |
| Router and dispatch (`packages/router`, `compiler/routes.ts`) | static tables, trie, result cache (2000), URL caches (10000) | add, find, fetch | cached answers that could be stale; shared parameter objects |
| Application builder (`packages/core/src/oger.ts`, `plugin.ts`, `macro.ts`, ...) | routes, hooks, macros, plugins seen, `_compiled`, body limit | get/post/..., on, use, group, guard, listen, reload | arrays and hooks objects shared by reference; some calls invalidate the compiled form and some do not |
| Node bridge (`oger.ts`, `response.ts`) | bytes so far, the head sent, topics and their sockets | data, end, error, close events, upgrade, stop | must settle and answer once, and must settle |
| Plugins of HTTP (`cookie`, `csrf`, `cors`, `helmet`, `etag`, `compress`, `body-limit`, `request-id`, `basic-auth`, `bearer`, `jwt`, `api-key`) | none; `ctx.set`, `ctx.cookie` of a request; what the browser keeps | hooks and macros | what each does to the reply meets what the others do |
| Rate limiting (`packages/rate-limit`) | one bucket per key; score and tightening per key | consume, recordSuspicion, prune | window boundaries, overlapping requests |
| DI container (`packages/core/src/di.ts`) | entries, overrides, tokens being resolved | register, resolve, createRequestScope | scopes, cycles, factories that throw |
| Schemas and environment (`packages/core/src/schema`, `env.ts`) | none | `t`, compileSchema, loadEnv | recursion over kinds; inherited keys; coercion |
| WebSocket router, SSE, streams, events | topic sets, closed flags, pending entries | publish, send, drain | mostly the runtime's |
| Logging, static files, uploads, OpenAPI, compatibility layers, project generator, test kit | none between requests, or none at all | conversions | formatting and parsing |

How they interact: the builder collects hooks and routes; `compile()` chooses for each
route a form (constant response, fast path, generated `run()`); the dispatch finds the
route by method and path and calls the compiled function; it calls user hooks, among
them those plugins registered. `OgerContext.store` is `app.store`: one object for all
requests. JavaScript runs one thing at a time, so requests interleave only where a
hook, a handler or a store is awaited. A crash loses everything: nothing is persisted
by the framework itself, so there is no recovery to model.

What should be right about each part:

- compiled route: guards precede the handler, one reply, errors go to the error path
  and only there, later results override earlier ones, responses are mapped before they
  are sent, observers come after the reply and all of them run;
- fast paths: the same lifecycle, requests that share a slot do not see each other, and no
  form leaves out what its route has;
- idempotency: work is done once per record, replays carry what that work produced,
  who waits is answered;
- router and dispatch: caches never change an answer; builder: what is served is what was
  registered, behind every guard it was registered in;
- Node bridge: one settlement, one answer, no socket left over; plugins: a refusal stays one,
  and what a browser is given is accepted back; rate limiting: the number of requests let
  through in any interval; DI: a resolve succeeds exactly when it can, and one singleton per container;
  schemas: what comes through has its type and is what went in.

## Modules

| Module | What it is |
|---|---|
| `RequestLifecycle` | Abstract: a request is guarded, refused or handled, replied to once, and observed at most once, never after an error. |
| `Pipeline` | `run()` of `compilePipeline`, for a set of routes given by the number of hooks in each step. Implements `RequestLifecycle`. |
| `FastPath` | `compileBeforeHandleServeHandler`: several requests, one slot. Implements `RequestLifecycle` for each request. |
| `OnceOnly` | Abstract: what an idempotency key promises. |
| `Idempotency` | The two hooks of the plugin on several interleaved requests, with any keys or none. Implements `OnceOnly` for each key, for as long as it is kept apart from the others. |
| `Router` | Operators: the router's static tables and trie, and what `find` answers without its cache. |
| `Dispatch` | Registrations and requests of one application: the closure of `compileMonolithicFetch` with its tables and five caches, and the table made for Bun. |
| `RateLimit` | The fixed and the adaptive limiter on a clock. |
| `AppBuilder` | The builder's calls on a stack of nested applications; compile, listen, stop, reload. |
| `Forms` | Operators: which form `compileRoutes` gives a route, and what the form does. |
| `Application` | `AppBuilder` composed with `Forms`, and the properties of both. |
| `NodeServer` | The Node fallback of `listen`: bodies, replies, upgrades, topics, `stop`. |
| `Exchange`, `Plugins` | Operators: `parseBody`, `ctx.set`, `toResponse`, `applySetHeaders`; the hooks and macros of twelve plugins. |
| `PluginStack` | One route behind a list of plugins, and a browser with cookies and a cache. |
| `Schema` | Operators: the builder `t`, `compileSchema`, the adapters. |
| `Validation` | A value on its way through `compileSchema` or `loadEnv`. |
| `Container` | The dependency injection container and its forks. |
| `MC*` | Instances for TLC. |
| `Pipeline_proofs`, `Idempotency_proofs`, `Dispatch_proofs`, `RateLimit_proofs`, `Application_proofs`, `NodeServer_proofs`, `PluginStack_proofs` | Theorems. |
| `CoreParts_proofs` | Theorems about `FastPath`, `Validation` and `Container`. |

### Pipeline

`compilePipeline` generates source text; the module models the function that text
defines. `activeSteps` of the code is the order of steps; a route is the number of
hooks (or, for steps without hooks, of sub-steps: a body to read, validators) it has in
each. One action is one hook call with its outcome, sync or async: a suspended call is
resumed by a later action of the same step, with the reject arm instead of the catch
clause. Values are abstracted to what the code tells apart: undefined, an object (merged
into ctx by a beforeHandle hook), another value, a `Response`, and a value that
`JSON.stringify` throws on. `ctx.set` being touched is kept because it decides whether a
`Response` may be returned directly. Observers have their own suspension point because
`run()` does not await them.

### FastPath

`running` is the request on the JavaScript thread: from `Receive` to the first await
nobody else may act. `minimalCtx` is chosen at compile time from the text of the hooks,
hence nondeterministic and constant here. `seen` records the request each hook and the
handler was called with: history, not program state. The gates for constant handlers
(lines 1068-1136) are a form of `Forms` and left out here: they are synchronous and never reach the slot twice in
one request. Fields that a hook merges into the slot are left out too: nobody who shares
the slot names them.

### Idempotency

`sharedKey`, `skipStore` and `resolver` are `ctx.store._idempotencyKey`,
`_idempotencySkipStore` and `_idempotencyResolve`, fields of `app.store`. Each await of the code
ends an action: `Lookup` up to `await store.get`, then `Replay`, `Join` or `Claim`; `Capture` up to
the text of the response, `Save` up to `await store.set`, then `Saved`; `SaveFails` is the
finally clause alone. With `MemoryStore`, which is one of the initial states, the continuations of awaited calls run in the
order of the calls (microtasks, `queue`), otherwise in any order. A body or a promise is named by the request
that made it. `Expire` makes a record stale, and the code does not remove it but ignores it,
which is the same. Process restarts are not modelled (the memory store and the table vanish
together). A key is kept apart (`KeptApart`) while every response that was taken up for it, or for a promise of
its requests, or by one of them, is of one of them for itself: what the hooks read in `app.store` was right so far. `Once` is
what the requests of one key did, as seen by `OnceOnly`; which key is a constant.

### Router and Dispatch

A path is the sequence of its segments, with two flags for what normalization removes: the
trailing slash, and the missing leading one of a path that was cut at a wrong offset. The static tables of
`routes.ts` keep the slash and the router does not, so a request may be answered by either for different
routes. The trie is a function from the sequences of edges that lead to its nodes, and `match` a recursive
function on its nodes, as the code's method is: the index into the path is the depth of the node. The edges to a node's parameter and
wildcard child are named by strings with a slash, which no part or segment has (`SegmentAssumption`). A handler is the number of its route.

`compiled` is what `app._compiled` keeps between requests: the offset of the path in the first URL (`prefixLength`, kept for good), the
cache of full URLs for static routes and that for dynamic ones (GET and POST each), and the router's result
cache, whose misses are entries too. Its tables are functions of the routes and not state. A request is one
action, since dispatch is synchronous, chosen by the table that answers: `FetchFull`, `FetchDynamic`,
`FetchStatic`, `FetchFound`, `NotFound`. A request of the Node server brings its path along (`onNode`). A URL knows where its
path begins (`origin`): host names may have different lengths, and a path is then cut where the first one's was (`Cuts`). `Register`
stands for get, post and the rest between requests, and `Compile` for an explicit call of it or of
`listen`. A route's form is what decides how `compileRoutes` enters it in `bunRoutes`; Bun's own
matching of that table is the runtime's and not modelled. Left out: query strings (part of a URL as a key), and
the search by regular expressions that is used only without a router.

### AppBuilder, Forms, Application

The callbacks of `group()` and `guard()` run inside the call, so the state is a `stack` of applications, the one
being built last; a builder call acts on the top, the end of a callback (`CloseGroup`, `CloseGuard`) hands
its routes to the one below. What JavaScript shares by reference is in two heaps: `lists`, the arrays of hooks (a
group pushes on its parent's, a guard on the very array it was given), and `objs`, the `hooks` objects of routes, which
`mergeRoutes` copies the routes around, so that the routes of a plugin instance used twice have one object. `shared`
is that object's place for each instance. `Served` is the snapshot `compile()` takes; `compiled`, `registry` and
`server` hold one, or what was derived from it. `under` and `own`, and of an application `around`, are history: the guards and hooks a reader of the
registration expects.

`Forms` is the chain of conditions in `compileRoutes`, in its order (`Candidates`), over a route described by
what the conditions look at: method, schema keys, kinds of hooks, decorators, and the handler as the
source-text tests see it (its parameter, its arity, the pattern its text matches, and what a trial call of it returned
at compile time). The texts of the hooks count too (`hookText`): they decide whether a kept answer stands behind a gate, and which. A form is what it does:
what it hands over, fields of a context or the Request itself; the hooks it runs, and which of their answers it heeds (all,
only Responses returned at once, or any refusal by one and the same denial); what it validates; whether it checks the body limit; and where the answer comes from: the
handler, what its trial call gave (`kept`), what the registration gave, or, for a body taken for that of a transfer, a fixed acceptance. `Application`
asks of every route that any sequence of builder calls leads to, with every handler text, whether its form leaves
anything out.

### RateLimit

Both beforeHandle hooks are synchronous, so a request is one action; the afterHandle hook of the adaptive form is
another, after whatever came meanwhile. A key is what `defaultKey` makes of peer address and
forwarded address. Scores are multiples of a unit so that halving is exact. `admitted` is history: how many requests of a key had passed when each tick
began, so that what passed in an interval is a difference.

### NodeServer

A connection is where its callback has come to (`at`), its incoming message (`stream`, `received`), the promise of
`readLimitedNodeBody` (`body`), and what was written (`head`, `ends`). The events of the stream, the peer that leaves and
the application that answers, or throws, are the environment, and come in any order node:http allows. A body is counted in chunks. A
reply is the kind of body it has: at hand, piped, collected first, or none. WebSocket frames carry nothing here: what is
kept is who subscribes to what. A socket's callbacks may call `subscribe` at any time after the upgrade, after its close too; `late` is the history of the
topics it asked for then.

### Exchange, Plugins, PluginStack

A context is a record with `ctx.set`, the cookies read, and the value so far; a hook is an operator from contexts to
contexts, and `PluginStack` runs the hooks of the installed plugins, in order, in each of the steps of `Pipeline` (`Run`): `Admit` is everything up to the
handler, `Handle` the handler and everything behind it. A cookie's wire value is the value under the layers that
protect it; cryptography is perfect. The page has a version, is an object or not, and an ETag is the body it was made of, with the encoding; a refusal is a body too.
A request has a Content-Type that `parseBody` reads, another, or none. The browser (`Asking`) echoes the token of its cookie, asks with the tag of whatever body it has, page or refusal, and sends overlapping requests; replies
arrive in any order (`Receive`). An application is a `stack`: plugins in order, their options, with or without an
`onError` hook, on Bun or on Node (whose substitute for `Response` has no static `json`, so that a hook that calls it throws).

### Schema, Validation

A value is tagged with what JavaScript calls it; objects inherit `constructor`, which stands for all inherited
names. An object's list of what is required is the one given, or else its keys that are not optional. Schemas are nested at most `Depth` deep, and so are values. `compileSchema` is recursive over the schema like the code: `Validators` is a
function of the depth, whose value at n answers for the schemas that are at most n deep and asks n - 1 for those inside. What a Standard Schema makes of a value is not looked into; it is a
value without parts. `Validation` has one action for a value of a
request and one for `loadEnv`, whose environment is derived from a configuration by every way of writing it: the name in
either case, any text that `coerceEnvValue` reads as the value (an array's items are trimmed), or the default, with something else in the places that come after it.

### Container

A factory is the list of tokens it asks its container for; an instance is numbered, reusing numbers nobody holds. `resolve` is one
action with nested calls: `resolved` is a function of how many calls the stack still has room for, and its value at n asks n - 1 for the calls
a factory makes (`Asked`), in order and up to the first that throws. The state of a call is the entries, `resolving`, and what it returned or threw. A
transient factory that meets itself uses up the stack (`overflow`; the code's RangeError), since nothing guards it. What a resolve needs is the least
set that is closed under asking (`Closure`), over the entries before the call. `last` and `held` are history.

## Runs

| Run | Checks | Result |
|---|---|---|
| `pipeline` | type invariant; guards before handler; an error and an observation exclude each other; every exception reaches the error path; the last result wins; responses are mapped; observers after the reply, and to the end; refinement of `RequestLifecycle` | holds |
| `pipeline_mapped` | mapResponse hooks stand behind every handler | violated by the Response of an async handler |
| `fast_path` | handler behind its hooks; own request until an await; refinement of `RequestLifecycle` | holds |
| `idempotency` | with any store: waiters await their own key; replies were stored; a key that is kept apart is worked on by one request at a time, nobody who waits for it is forgotten, and joiners of a request that saves are answered. With the memory store also refinement of `OnceOnly`, step by step, whatever the other requests do | holds |
| `idempotency_replies` | a replayed body belongs to the key | violated by a request without a key |
| `dispatch` | host names of two lengths: caches coherent, and transparent but for the offset that is kept; at that offset, the best of the registered routes answers, with its parameters; Bun's table and the static tables agree | holds |
| `rate_limit` | in any interval of a window's length at most twice the limit passes; a key is tightened exactly while its score is at the threshold | holds |
| `builder` | routes keep the guards around them; what is served is what was built; no form leaves out a hook, a derive function or a validator, or alters an answer in front of a handler | holds |
| `node_server` | whole bodies within the limit; one answer; no socket left in a topic but one that asked after its close; every callback returns | holds |
| `plugin_stack` | refusals stick, or are the 304 of that very refusal; tokens, cookies and cached pages come back right; bodies that are read are bounded | holds |
| `validation` | validated values have their static type; nothing is changed on the way | holds |
| `container` | a resolve returns exactly when what it needs is there and acyclic, and keeps a singleton | holds |

Bounds, and why they are enough. `Pipeline` is one request: requests share nothing in `run()`
itself. Six routes have between them every step, two hooks where their order matters,
and each combination of afterHandle, mapResponse, onError and onAfterResponse hooks that
selects another generated form; every outcome of every hook is tried. `FastPath` has two
requests, the least that can meet in the slot and in the flag, and two hooks, so that a hook follows
an awaited one. `Idempotency` has four requests: two with one key, so that one works and the other joins it, or comes after it and finds its record, or finds it expired; one with
another key and one without, which meet them in `app.store`; and a store that answers in any order, or in that of the calls as the memory store does. `Dispatch` has three registrations of six
routes: three patterns are the least at which backtracking, a wildcard and a static table meet, and two routes of one path in both orders
are among them; each cache has room for one entry (10000 and 2000 in the code), so that four
URLs meet empty, full and hit caches, one of them the same path with a slash, one a path under a longer host name too, which the offset that is kept cuts wrong (or right, and the others wrong), and one route is written with a slash at its end. PATCH stands for the methods without a field and
a cache of their own. `RateLimit` has a window of two ticks on a clock of four, so that each window has an inside and a
boundary and meets the next; the limit is two, a burst three; pruning starts at two keys, of which there are two. `AppBuilder`
has five calls (the ends of callbacks not counted) and two levels: enough for a plugin used under two nested
guards and a change after the first compile; its plugins are an instance, a plugin function and a module, and its guards one of each way to
give hooks. `NodeServer` has two connections, of any kinds, bodies of up to three chunks at a limit of two, and
one topic. `PluginStack` has two requests, one change of the page, and 34 applications, each with the plugins that meet in one
header, status or cookie; an input no installed plugin looks at has one value. `Validation` nests every kind one level into every other, with
objects of up to three properties, and with every list of what is required over two of them and one inherited name; `Depth` is four, more than any schema or value of the instance has; the adapters and `loadEnv` have instances of their own. `Container` has two tokens, which
allow a cycle and a self-loop, one fork and three registrations or overrides with resolves in between; its stack holds four calls, one for every token of
each container, so that only what needs itself overflows it, as with the thousands of calls that JavaScript's holds. State
spaces are between four thousand and six million states. The requests of `plugin_stack` are symmetric: nothing tells one from
another but its name.

Deadlock is checked for `Pipeline` and `FastPath` (a finished instance stutters in `Finished`), `Dispatch`, `RateLimit` and
`Container`. It is not where the system may stop: requests of `Idempotency` may wait for ever (below), a builder has made its
calls, a server is stopped, a browser has its replies, a value is validated once.

Fairness is weak fairness of the work a request does once received: the event loop runs
every ready continuation, and what user hooks, handlers and stores return settles; under `NodeServer` also that
node:http delivers the end or the failure of a message it began. Nothing is assumed of a stream that is piped out: an event stream may go on for ever, and
the callback returns right after `pipe()`. The
code or the runtime guarantees the first and the last; the second is an assumption about user code, since a hook that never
settles does hang its request: the framework has no timeout.

Every property is also checked against a plausible mistake in the code: definitions marked
"Slip" are the mutated forms, used by no action, and TLC finds the property violated with them.

## What is proved

With TLAPS, for every value of the constants (any set of routes, requests and keys, any number of
hooks), from the assumptions each module states on its constants:

- `Pipeline_proofs`: `TypeCorrect`; `HandlerIsGuarded` (the handler is called only behind guards that
  all ran, none of which threw or answered; the invariant counts the calls of each step against the
  step run() is at, because "all ran" is not inductive without where run() stands);
  `ErrorsAreNotObserved`; `ObserversFollowReply`.
  `ExceptionsAreAnswered`, `LatestResultIsSent` and `ResultsAreMapped`, by `ReplyInv`, which says
  for each place run() can stand at who produced the value at hand, what was thrown and how many mapResponse hooks were
  called: the three are about the reply, which is decided steps after what they speak of.
  `ImplementsLifecycleSteps`: run() refines `RequestLifecycle` step by step (its safety part), each action of `Pipeline` mapped to one
  of the lifecycle or to none.
- `CoreParts_proofs`, of `FastPath`: `TypeCorrect`; `SlotIsSafeUntilAwait`, by `SlotInv`: a request that was not
  suspended yet has the thread, so that nobody can have rebound the slot; `HandlerIsGuarded`, by
  `GuardInv`: the hooks before the current one were called, with a context in use; `FollowsLifecycle`, the safety part
  of the refinement of `RequestLifecycle` by each request.
- `Idempotency_proofs`: `TypeCorrect`; `WaitersKey` and `RepliesStored`, for any requests, keyed or not; `ApartServed` (any store) and
  `ApartServedOnce` (the memory store; the refinement of `OnceOnly` step by step), for each key while it is kept apart, with any other keys and keyless
  requests in between. Nothing is assumed of the requests: that responses were not mixed up so far is in the two properties, because
  `idempotency_replies` shows the claim to fail behind such a response. `OwnerInv` ties the entry of a key in the in-flight table to the one request at work; `RecordInv` says
  whose body a fresh record is and that nobody works beside it; `QueueInv` and `OrderInv` say of the memory store that a lookup which found
  nothing continues before the request that saves. A key kept apart now was so before (`ApartBefore`), and the steps of others leave the rest of a key's
  state alone (`OthersStep`), which is what carries the three past the requests that overwrite `app.store`.
- `Dispatch_proofs`: `CachesStayCoherent` and `CachesNeverShow`, for any routes, URLs, host names and bounds: what a cache holds, and what is answered, is what the tables
  give for the path as it was cut, at the URL's own offset or at the one kept from the first (`Cuts`); `CachesStayBounded`.
  `BestRouteIsTaken` and `ParamsAreSpelled` are about the requests whose path is at the offset that is kept, the others being cut at the wrong place (the second
  also only while patterns agree on the names of parameters); and `TablesAgree`. `TrieOf` is what `Add` preserves: the nodes are those on the ways of the
  routes, a handler belongs to a route that ends at its node, and every such route finds the slot of its method
  taken. At each node, what `match` answers is then the best of the routes that are below it, serve the method and
  fit the rest of the path (`BestAt`): the candidates at a node split into those behind the literal, those behind the parameter and those that end with
  a wildcard (`CandidatesSplit`), and none of a later kind is more specific than one of an earlier (`HigherRankIsNotBetter`), which is why it is right to take
  the first that answers, and to go back when none does.
- `RateLimit_proofs`: `TightenedFollowsScore`, for any clock, window, threshold and load, by `TightInv`, which adds the types of the
  states: that halving a score never passes the threshold upwards is arithmetic on naturals. `WindowsHold`, by `LimitInv`, which says of each key
  where its bucket's window begins, how much passed since, and that no interval of a window's length that ends where it begins passed more than the
  limit; a key without a bucket, new or pruned, has the same of now.
- `Application_proofs`: `GuardsKeepRoutes`, `ServedStaysCurrent` and `FormsLeaveOutNothing`, for any plugins, guards, macros, handler texts and
  nesting, from `BuilderStaysSound`. Its invariant says of every application of the stack, not only of the outermost, that its references
  into the heaps are valid and that of the guards each of its routes is under, the first are those around it now, and the route's hooks object has the
  hooks of the others (they have returned) before its own (`Kept`). That makes the end of a guard's callback one step of an induction from the
  inside out: the guard that returns is the last of those still around, and its hook goes before all the rest. It survives sharing because what
  a step may do to the heaps is little: arrays of hooks grow at their end (so the array a guard was given still begins with its hook),
  hooks objects at their front, even when several routes of one guard have the same (`GuardedWraps`). `ServedStaysCurrent` adds that
  every step that adds a route or changes the hooks of one either drops the compile or is inside a callback, whose outermost end does. `FormsLeaveOutNothing`
  is by cases over the thirteen conditions (`NothingLeftOut`), each with what its predicate excludes. It is about hooks, derive functions and validators of every
  form, and of the forms that call the handler also about the hooks' answers, the body limit, and, but for the four gaps of `KnownGap`, the handler's argument; the form for
  a recognised transfer runs neither validator nor handler (`TakenForTransfer`), and an answer kept from a trial call is about neither answers nor limit.
- `NodeServer_proofs`: `Types`; `WholeBodies` and `OwnedSockets`, by `IInv`, which ties the place a callback stands at to the state of its stream,
  promise, socket and reply, and the topics of a closed socket to those it asked for after the close; `EndedOnce`, an action property, from the same.
- `PluginStack_proofs`: `StackTypeOK`, `RefusalsAreKept`, `BodiesStayBounded`, `TokensAreAccepted`, `PagesDoArrive` and `CookiesAreReadBack`, for any
  list of the plugins in which none occurs twice, any options, browser and number of requests. What the hooks of a step leave is one lemma
  (`RunKeeps`): a set of contexts for each place between two hooks, each hook taking a context of one into the next. The sets are where
  the work is: before the handler a context is open, and every guard so far let the request through, or refused, or broken
  (`GuardDecides`, `GuardedContext`); behind it, the cookies of the reply are protected exactly once the cookie plugin's hook has run, and what
  the reply is made of, a refusal or version v of the page, stays that whatever etag and compress do, in either order (`RefusalFormsClosed`,
  `PageFormsClosed`). The invariant carries this around the browser: a reply protects its cookies and its validator names its
  body (`ReplyFits`), hence so do the jar and the copy (`JarOK`, `CacheOK`), hence what is asked with (`Honest`), which the guards and etag rely on. The
  copy may be a refusal's: then a later refusal with that body is a 304, which `RefusalsAreKept` allows for that very body only. `PagesDoArrive` says
  of Node exactly which pages are lost, and `BodiesStayBounded` that a body which nobody measures is not read.

- `CoreParts_proofs`, of `Validation`: `ValidatedHasItsTypeHolds` and `ValuesComeThroughHolds`, for any names, texts, basic schemas and depth, and any
  configurations. `EveryLevelFine` goes up the depths: at each, what a validator lets through has the schema's type, would be let through again, and reads like the
  input at every key and index, and is of the same kind (`Fine`), case by case over the kinds of schemas (`UnionFine`, `ArrayFine`, `RecordFine`, `ObjectFine`). In a union,
  the variant that accepts the result need not be the one that accepted the input. The type is that of the schema without the properties an explicit list leaves out. The last two stop at what a Standard Schema
  transforms and where a File is copied, the last also where a strict object meets an own property called like an inherited one (see below). `ReadBack` is about the environment: whichever text and
  place each property was written in, `envToObject` and the defaults give it back. The invariant, `ValidatesWhatIsMeant`, joins the two: what is validated is what was meant.
- `CoreParts_proofs`, of `Container`: `ResolvesAsRegisteredHolds`, for any tokens, forks and factories, and any stack that holds one call for every token of each container.
  `EveryCallRight` goes up the room on the stack: a call that stands below others keeps to the graph of what was registered before the outermost one began. What it may count on is that only
  singletons which are good (nothing missing below, no cycle) were put in the place of their factories (`Near`), that whatever is being resolved needs what is asked for now (`Under`), and
  that the calls above are of as many different nodes, unless something needs itself (`Room`). Then "circular" and "overflow" are thrown only with a cycle,
  "missing" only with a gap, and who returns is good (`GoodParent`: so is whoever has only good below it). The `finally` clause is what makes `resolving` the same
  behind a call as before it, when the call threw too. Between calls, `ContainerInv` says that `resolving` is empty and that a singleton that was given is the entry of its container.

`RouterOf`, `BunRoutes`, `match`, `Guarded` (of `AppBuilder`), `Run`, `ValuesOf`, `SchemasOf`, `Validators`, `InferSchema`, `Same`, `Asked` and `resolved` are recursive functions. That each is defined at all, and what it
computes, is proved from the well-foundedness of the naturals: a least number of routes, or a least height above the end of the
path, at which the claim failed would contradict one step of the code (`LeastNatural`, `BuiltExists`, `MatchExists`, `TableExists`, `GuardingExists`, `RunningExists`); for
depths and calls, in the form of an induction over sets of naturals (`UpToAll`, `ValidatorsExists`, `ResolvedExists`).

Only model-checked: liveness (observers finish, joiners are answered, callbacks return) and with it the fairness part of the refinements of
`RequestLifecycle`, because no backend reasons about fairness. Every safety property and action property of a passing run is a theorem.

## Known divergences

What the models show the code to do against its documentation. Two are kept as runs that end in a violation, `pipeline_mapped` and `idempotency_replies`; for
the others the model has the behaviour, and the properties say where they stop, or it is told here only.

Requests:

- The Response of an async handler goes round mapResponse hooks and observers while `ctx.set` is untouched and the route has no afterHandle hooks
  (`pipeline.ts:1693`; `docs/ROUTING.md:236-243`, `docs/CORE.md:276-277`; run `pipeline_mapped`).
- onAfterResponse hooks do not run after an error (`pipeline.ts:1680`; `docs/CORE.md:284`: "always runs").
- After an await on the beforeHandle fast path the slot may hold another request, and the handler gets that one
  (`pipeline.ts:1058`; `docs/CORE.md:207`: "Created per-request"). A handler whose first answer was a `Response` has its later plain
  values returned unconverted (line 187).
- With host names of two lengths, paths are cut at the offset of the first, and the routes of the others not found (`routes.ts:599`; `docs/ROUTING.md:38`; `OwnOffset`). Patterns that share a
  node share the name of its parameter (`router.ts:126`; `docs/ROUTING.md:39`). A constant GET is dropped from Bun's
  table when another method of its path is merged (`routes.ts:1034`; `oger.ts:424`). The dynamic cache hands one parameter object to all requests of a URL
  (`routes.ts:590`), which a handler may write to; the model's handlers do not.
- On Node `Response.json` is missing (`response.ts:225`; `docs/COMPATIBILITY.md:3`): the refusals of plugins become a 500, and so do the object pages behind
  etag or compress (`etag/src/index.ts:22`, `compress/src/index.ts:9`; `LostOnNode` in `PluginStack`).
- On a route with a schema, a request without a Content-Type has no body for `parseBody`, which returns before it looks at the length (`context.ts:166`), while the other check is
  left to it (`pipeline.ts:1452`): the handler is reached, without a body.
- A WebSocket that subscribes after its close stays in the topic (`oger.ts:683-693`).

Builder and forms:

- The child of a guard has no macros, so a flagged route inside a guard runs without its checks (`oger.ts:300`; `docs/AUTH.md:215`).
- Hooks and decorators added after the first request are not served until another call drops `_compiled` (`oger.ts:337`); `listen` takes its body limit
  after the routes were compiled with the old one (`oger.ts:435`).
- Scoped hooks of plugins all reach the parent (`plugin.ts:53`; `docs/PLUGINS.md:127`).
- Some forms hand the handler less than its text asks for (`KnownGap`; `docs/CORE.md:211`): that for a body schema only the body (`pipeline.ts:850`), that for beforeHandle hooks
  no path parameters (line 1063); a handler with `{ params }` anywhere in its text is taken for one that asks for nothing else (lines 242-247);
  and a bare `request` parameter is given the context by every form with hooks, a schema or path parameters (lines 1158, 1194, 1305, 1328).
- A body schema with the four properties of a transfer is served without its validator and its handler (lines 811-847; `docs/ROUTING.md:238`;
  `TakenForTransfer`).
- A handler without parameters, or whose trial call gave a constant, may be answered from the value found at compile time, behind a gate made from
  the hooks' text: one gate heeds only a Response returned at once (lines 756-777), the other gives every refusal the same denial (lines 644-748) and does not check the
  body limit (lines 1116-1117).

Plugins:

- A request without a key stores its response under the key another request left in `app.store`, and a
  retry of that key is answered with it (`packages/idempotency/src/index.ts:124`; run `idempotency_replies`).
- A request that joins another in flight sets the flag that keeps the other from resolving the promise; other joiners
  may wait for ever (line 104; the comment at line 39 says that concurrent requests wait for the first).
- Cookies on the reply of an onError hook go out unprotected (`pipeline.ts:1762`; `docs/AUTH.md:115`). With signed or encrypted cookies the csrf hook never
  accepts the echoed token (`packages/csrf/src/index.ts:75`; `docs/SECURITY.md:172`). A status set by the handler overwrites a 304 (`context.ts:360`).
- etag tags refusals too, and answers one whose tag the client sends with a 304; the 401 of jwt, bearer and api-key does not prevent it, since these do not set the status in
  `ctx.set` (`etag/src/index.ts:65-82`).

Values and the container:

- `t.Object` with an explicit `required` list leaves out keys whose static type is not optional (`schema/compile.ts:126`, `schema/types.ts:64`), as
  in the example of `docs/VALIDATION.md:58`.
- The bounds of `t.Integer` and the items of `t.Tuple` are not checked (`schema/compile.ts:56`, `228`; `docs/VALIDATION.md:21`, `67`). `docs/VALIDATION.md` says that
  `additionalProperties` is not enforced, though it is, and names a `t.Custom` that does not exist.
- A File that an object or record schema accepts comes out as a plain object (lines 173, 208).
- A strict object drops an own property called like an inherited one; a required one called so is found missing nowhere (line 139).
- `loadEnv` coerces by the field's own kind, so an optional integer is never accepted from the environment (`env.ts:64`), and trims the items of an array (line 74).
- A fork copies the factory of a singleton not yet resolved, and makes its own instance; request-scoped factories are looked up in the parent and
  not cached (`di.ts:98`, `88`; `docs/DI_MODULES.md:55-57`).

## Plan

What would add to what is checked and proved: a model of `mapResponse` on the replies of onError hooks (cookies set before the
error go out unprotected, `pipeline.ts:1762`); of the parameter object that the dynamic cache hands to every request of a URL, which a handler may
write to (`routes.ts:590`); and of macros in the children of guards (`oger.ts:300`). The three are hazards without a property, told above. Then a property that a
fork and its parent have one singleton, and forks of forks in `Container`,
and the WebSocket router and the event bus where they keep state of their own.

## Not modelled

The text of responses, header values and OpenAPI documents; preflight requests; static files, uploads, markup; logging, audit and health (output only); event
bus, SSE, streams and the WebSocket router (their states are the runtime's, or none); compatibility adapters,
project generator, test kit and scripts; Bun and Node themselves. The generated source text
is modelled by what it does when run, not by how it is assembled. Of the builder: `state()`, the order of boot hooks, graceful
shutdown, controllers' decorators. Of the container: forks of forks. Of the plugins: cryptography, compressors, and helpers that applications call themselves.
