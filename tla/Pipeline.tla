------------------------------ MODULE Pipeline ------------------------------
(***************************************************************************)
(* One invocation of the `run` function that compilePipeline               *)
(* (packages/core/src/compiler/pipeline.ts) generates for a route that is  *)
(* not simple.  Every invocation allocates its own OgerContext, so one     *)
(* request is the whole state; what requests share (app.store) belongs to  *)
(* the plugin modules.                                                     *)
(*                                                                         *)
(* A hook is called once; it either returns at once ("sync") or returns a  *)
(* promise that is settled later ("async").  The code generator nests the  *)
(* remaining steps inside a try block (sync) or a .then callback (async),  *)
(* and the two differ in who sees a later exception: that difference is    *)
(* the `mode` parameter below.                                             *)
(*                                                                         *)
(* JavaScript runs to completion: the main chain and the chain of          *)
(* onAfterResponse hooks, which is not awaited, interleave only where one  *)
(* of them waits for a promise.                                            *)
(***************************************************************************)
EXTENDS Naturals

CONSTANT
    Routes   \* the compiled routes considered: hooks (or sub-steps) per step

-----------------------------------------------------------------------------
(* Steps of a route, in the order of activeSteps. *)

\* Steps in which every value a hook returns is dropped or merged into ctx.
ContextSteps == {"derive", "onRequest", "parse", "transform"}

GuardSteps == ContextSteps \cup {"bodyLimit", "body", "validators", "beforeHandle"}

ResultSteps == {"handler", "afterHandle", "mapResponse"}

Steps == GuardSteps \cup ResultSteps \cup {"onError", "onAfterResponse"}

Rank ==
    [derive |-> 1, onRequest |-> 2, parse |-> 3, bodyLimit |-> 4, body |-> 5,
     transform |-> 6, validators |-> 7, beforeHandle |-> 8, handler |-> 9,
     afterHandle |-> 10, mapResponse |-> 11, onError |-> 12, onAfterResponse |-> 13]

\* A body schema is one of the validators and replaces the Content-Length
\* check; a route has exactly one handler.
IsRoute(route) ==
    /\ route \in [Steps -> Nat]
    /\ route["handler"] = 1
    /\ route["bodyLimit"] + route["body"] <= 1
    /\ route["body"] <= route["validators"]

ASSUME RoutesAssumption == \A route \in Routes : IsRoute(route)

-----------------------------------------------------------------------------
(* Values.  "bad" is a value JSON.stringify throws on (a BigInt).           *)

Values == {"undefined", "object", "scalar", "response", "bad"}
Outcomes == Values \cup {"throw"}
Modes == {"sync", "async"}

Places == Steps \cup {"none", "toResponse"}
Origin == [step : Places, hook : Nat]
Nowhere == [step |-> "none", hook |-> 0]

Result == [kind : Values, by : Origin]
Replies == {"none", "value", "problem", "invalid", "rejected"}
Reply == [kind : Replies, by : Origin]

VARIABLES
    route,    \* the compiled route: sub-steps per step
    pc,       \* the step the main chain is in
    hook,     \* which hook of that step is next, or is waited for
    wait,     \* the promise of that hook is pending
    calls,    \* how many hooks of each step were called
    bodyBy,   \* who set ctx.body
    set,      \* was ctx.set touched (ctx._set allocated)?
    result,   \* the value being finalized, and who produced it
    denied,   \* a beforeHandle hook answered in the handler's place
    error,    \* what handleError was given
    reply,    \* what run() returned, or its promise settled with
    watch,    \* the chain of onAfterResponse hooks
    watchHook,
    writers,  \* history: the hooks that returned a result, handler included
    thrown    \* history: the first hook that threw

main == <<pc, hook, wait, bodyBy, set, result, denied, error, reply>>
history == <<calls, writers, thrown>>
observers == <<watch, watchHook>>
vars == <<route, main, history, observers>>

TypeOK ==
    /\ route \in Routes
    /\ pc \in (Steps \ {"onAfterResponse"}) \cup {"settled"}
    /\ hook \in Nat
    /\ wait \in BOOLEAN
    /\ calls \in [Steps -> Nat]
    /\ bodyBy \in {"nobody", "hook", "request"}
    /\ set \in BOOLEAN
    /\ result \in Result
    /\ denied \in BOOLEAN
    /\ error \in Origin
    /\ reply \in Reply
    /\ watch \in {"off", "due", "run", "wait", "done"}
    /\ watchHook \in Nat
    /\ writers \subseteq Origin
    /\ thrown \in Origin

-----------------------------------------------------------------------------
(* Control flow. *)

Here == [step |-> pc, hook |-> hook]
NoReply == [kind |-> "none", by |-> Nowhere]

\* t is the first step of route r whose rank is above k: activeSteps has no
\* entry for a step without hooks.
FirstStepAbove(r, k, t) ==
    /\ k < Rank[t]
    /\ Rank[t] <= Rank["handler"]
    /\ r[t] > 0
    /\ \A u \in GuardSteps : k < Rank[u] /\ Rank[u] < Rank[t] => r[u] = 0

Init ==
    /\ route \in Routes
    /\ pc \in GuardSteps \cup {"handler"}
    /\ FirstStepAbove(route, 0, pc)
    /\ hook = 1
    /\ wait = FALSE
    /\ calls = [s \in Steps |-> 0]
    /\ bodyBy = "nobody"
    /\ set = FALSE
    /\ result = [kind |-> "undefined", by |-> Nowhere]
    /\ denied = FALSE
    /\ error = Nowhere
    /\ reply = NoReply
    /\ watch = "off"
    /\ watchHook = 0
    /\ writers = {}
    /\ thrown = Nowhere

Goto(s, n) ==
    /\ pc' = s
    /\ hook' = n

Settle(kind, by) ==
    /\ Goto("settled", 0)
    /\ reply' = [kind |-> kind, by |-> by]

\* Slip: an off-by-one leaves a step before its last hook.
ProceedEarly ==
    IF hook + 1 < route[pc]
    THEN Goto(pc, hook + 1)
    ELSE \E t \in GuardSteps \cup {"handler"} :
            FirstStepAbove(route, Rank[pc], t) /\ Goto(t, 1)

\* buildDerive(i + 1), ..., buildSteps(stepIndex + 1)
Proceed ==
    IF hook < route[pc]
    THEN Goto(pc, hook + 1)
    ELSE \E t \in GuardSteps \cup {"handler"} :
            FirstStepAbove(route, Rank[pc], t) /\ Goto(t, 1)

\* Slip: a .then without its reject arm, so nobody handles the exception.
LeaveUnhandled(by) == error' = by /\ Settle("rejected", by)

\* handleError(ctx, err): the error hooks, or the problem response at once.
HandleError(by) ==
    /\ error' = by
    /\ IF route["onError"] > 0
       THEN Goto("onError", 1) /\ UNCHANGED reply
       ELSE Settle("problem", by)

\* runAfterResponse(ctx)
StartObservers ==
    IF route["onAfterResponse"] > 0
    THEN watch' = "run" /\ watchHook' = 1
    ELSE UNCHANGED observers

-----------------------------------------------------------------------------
(* Calling a hook. *)

MainMayRun == watch # "run"

\* The call itself.  User code may touch ctx.set, whatever it returns.
Invoke ==
    /\ ~wait
    /\ calls' = [calls EXCEPT ![pc] = @ + 1]
    /\ set' \in IF pc \in {"bodyLimit", "body", "validators"} THEN {set} ELSE {set, TRUE}

\* The hook of step s is done with outcome o, at once or after a wait.
Finishes(s, mode, o) ==
    /\ pc = s
    /\ MainMayRun
    /\ IF mode = "sync" THEN Invoke ELSE wait /\ UNCHANGED <<calls, set>>
    /\ wait' = FALSE
    /\ thrown' = IF o = "throw" /\ thrown = Nowhere THEN Here ELSE thrown
    /\ UNCHANGED route

\* The hook returned a promise.  finalize() is then suspended, and a caller
\* that still owes the observers a call makes it.
Suspend(s) ==
    /\ pc = s
    /\ MainMayRun
    /\ Invoke
    /\ wait' = TRUE
    /\ IF watch = "due" THEN StartObservers ELSE UNCHANGED observers
    /\ UNCHANGED <<route, pc, hook, bodyBy, result, denied, error, reply, writers, thrown>>

-----------------------------------------------------------------------------
(* toResponse, finalizeSync, finalize. *)

\* finalizeSync threw: a try block encloses it only where the code before it
\* returned at once; in a .then callback the promise of run() rejects.
SerializationFails(mode) ==
    LET by == [step |-> "toResponse", hook |-> 0]
    IN IF mode = "sync"
       THEN HandleError(by)
       ELSE Settle("rejected", by) /\ UNCHANGED error

\* Slip: onAfterResponse is run when finalization starts.
FinalizeObserved(value, mode, deny) ==
    /\ result' = value
    /\ denied' = deny
    /\ IF route["mapResponse"] > 0
       THEN Goto("mapResponse", 1) /\ StartObservers /\ UNCHANGED <<error, reply>>
       ELSE IF value.kind = "bad"
            THEN SerializationFails(mode) /\ UNCHANGED observers
            ELSE Settle("value", value.by) /\ StartObservers /\ UNCHANGED error

\* finalizeSync(ctx, value, allMap), and the runAfterResponse that follows it:
\* at once on a plain value; after the promise of finalize on the normal path;
\* as soon as finalize is suspended or done (`deny`) on a short-circuit.
Finalize(value, mode, deny) ==
    /\ result' = value
    /\ denied' = deny
    /\ IF route["mapResponse"] > 0
       THEN /\ Goto("mapResponse", 1)
            /\ watch' = IF deny /\ route["onAfterResponse"] > 0 THEN "due" ELSE watch
            /\ UNCHANGED <<watchHook, error, reply>>
       ELSE IF value.kind = "bad"
            THEN SerializationFails(mode) /\ UNCHANGED observers
            ELSE Settle("value", value.by) /\ StartObservers /\ UNCHANGED error

\* Slips: an override is ignored; an undefined override clears the result.
KeepFirst(old, new) == old
ClearOnUndefined(old, new) == IF new.kind = "undefined" THEN NoReply ELSE new

\* A later non-undefined result replaces an earlier one.
Override(old, new) == IF new.kind = "undefined" THEN old ELSE new

Produced(o) == [kind |-> o, by |-> Here]

Records(o) == writers' = IF o \in {"undefined", "throw"} THEN writers ELSE writers \cup {Here}

-----------------------------------------------------------------------------
(* The guard steps. *)

\* derive, onRequest, parse, transform.  Only a parse hook is taken to set
\* ctx.body here; a value returned by onRequest, parse or transform is dropped.
ContextHook(s, mode, o) ==
    /\ s \in ContextSteps
    /\ Finishes(s, mode, o)
    /\ bodyBy' \in IF s = "parse" THEN {bodyBy, "hook"} ELSE {bodyBy}
    /\ IF o = "throw"
       THEN HandleError(Here)
       ELSE Proceed /\ UNCHANGED <<error, reply>>
    /\ UNCHANGED <<result, denied, writers, observers>>

\* assertMutatingBodyLimit(req, options.bodyLimit)
BodyLimit(o) ==
    /\ o \in {"undefined", "throw"}
    /\ Finishes("bodyLimit", "sync", o)
    /\ IF o = "throw"
       THEN HandleError(Here)
       ELSE Proceed /\ UNCHANGED <<error, reply>>
    /\ UNCHANGED <<bodyBy, result, denied, writers, observers>>

\* A hook already set ctx.body: the request's body is not read.
SkipBody ==
    /\ pc = "body"
    /\ ~wait
    /\ bodyBy = "hook"
    /\ Proceed
    /\ UNCHANGED <<route, wait, bodyBy, set, result, denied, error, reply, history, observers>>

\* parseBody is async: the call suspends, then stores its value or throws.
ReadBody == bodyBy = "nobody" /\ Suspend("body")

BodyRead(o) ==
    /\ o \in {"undefined", "throw"}
    /\ Finishes("body", "async", o)
    /\ IF o = "throw"
       THEN HandleError(Here) /\ UNCHANGED bodyBy
       ELSE Proceed /\ bodyBy' = "request" /\ UNCHANGED <<error, reply>>
    /\ UNCHANGED <<result, denied, writers, observers>>

\* Slip: a failed schema is thrown, and still observed.
ThrowInvalid(verdict) ==
    /\ Finishes("validators", "sync", verdict)
    /\ IF verdict = "valid"
       THEN Proceed /\ UNCHANGED <<error, reply, observers>>
       ELSE HandleError(Here) /\ StartObservers
    /\ UNCHANGED <<bodyBy, result, denied, writers>>

\* One validator: a failed schema answers 422 itself, past the error hooks.
Validate(verdict) ==
    /\ Finishes("validators", "sync", verdict)
    /\ \/ /\ verdict = "throw"
          /\ HandleError(Here)
          /\ UNCHANGED observers
       \/ /\ verdict = "invalid"
          /\ Settle("invalid", Here)
          /\ StartObservers
          /\ UNCHANGED error
       \/ /\ verdict = "valid"
          /\ Proceed
          /\ UNCHANGED <<error, reply, observers>>
    /\ UNCHANGED <<bodyBy, result, denied, writers>>

\* beforeHandle: an object is merged into ctx, any other value but undefined
\* answers in the handler's place (handleBeforeResult).
BeforeHandle(mode, o) ==
    /\ Finishes("beforeHandle", mode, o)
    /\ \/ /\ o = "throw"
          /\ HandleError(Here)
          /\ UNCHANGED <<result, denied, observers>>
       \/ /\ o \in {"undefined", "object"}
          /\ Proceed
          /\ UNCHANGED <<result, denied, error, reply, observers>>
       \/ /\ o \in {"scalar", "response", "bad"}
          /\ Finalize(Produced(o), mode, TRUE)
    /\ Records(IF o = "object" THEN "undefined" ELSE o)
    /\ UNCHANGED bodyBy

-----------------------------------------------------------------------------
(* The handler and what follows it. *)

\* Slip: ctx.set is forgotten.
ReturnsDirectlyDespiteSet(mode, o) ==
    mode = "async" /\ o = "response" /\ route["afterHandle"] = 0

\* After an async handler that returned a Response: no mapResponse hook and
\* no onAfterResponse hook is called.
ReturnsDirectly(mode, o) ==
    /\ mode = "async"
    /\ o = "response"
    /\ ~set
    /\ route["afterHandle"] = 0

Handle(mode, o) ==
    /\ Finishes("handler", mode, o)
    /\ Records(o)
    /\ \/ /\ o = "throw"
          /\ HandleError(Here)
          /\ UNCHANGED <<result, denied, observers>>
       \/ /\ o \in Values
          /\ ReturnsDirectly(mode, o)
          /\ result' = Produced(o)
          /\ Settle("value", Here)
          /\ UNCHANGED <<denied, error, observers>>
       \/ /\ o \in Values
          /\ route["afterHandle"] > 0
          /\ result' = Produced(o)
          /\ Goto("afterHandle", 1)
          /\ UNCHANGED <<denied, error, reply, observers>>
       \/ /\ o \in Values
          /\ ~ReturnsDirectly(mode, o)
          /\ route["afterHandle"] = 0
          /\ Finalize(Produced(o), mode, FALSE)
    /\ UNCHANGED bodyBy

AfterHandle(mode, o) ==
    /\ Finishes("afterHandle", mode, o)
    /\ Records(o)
    /\ IF o = "throw"
       THEN HandleError(Here) /\ UNCHANGED <<result, denied, observers>>
       ELSE LET next == Override(result, Produced(o))
            IN IF hook < route["afterHandle"]
               THEN /\ result' = next
                    /\ Goto("afterHandle", hook + 1)
                    /\ UNCHANGED <<denied, error, reply, observers>>
               ELSE Finalize(next, mode, FALSE)
    /\ UNCHANGED bodyBy

\* Slip: observers run after a rejected finalize too.
ObserveAnyway(ok) == IF watch \in {"due", "off"} THEN StartObservers ELSE UNCHANGED observers

\* What finalize leaves to the observers once it is done: they were owed a
\* call by a short-circuit, or follow a value that was mapped.
ObserveMapped(ok) ==
    IF watch = "due" \/ (watch = "off" /\ ok)
    THEN StartObservers
    ELSE UNCHANGED observers

\* finalize is an async function without a catch: a mapResponse hook that
\* throws, or a mapped value that cannot be serialized, rejects run().
MapResponse(mode, o) ==
    /\ Finishes("mapResponse", mode, o)
    /\ Records(o)
    /\ IF o = "throw"
       THEN Settle("rejected", Here) /\ ObserveMapped(FALSE) /\ UNCHANGED result
       ELSE LET next == Override(result, Produced(o))
            IN /\ result' = next
               /\ IF hook < route["mapResponse"]
                  THEN Goto("mapResponse", hook + 1) /\ UNCHANGED <<reply, observers>>
                  ELSE IF next.kind = "bad"
                       THEN /\ Settle("rejected", [step |-> "toResponse", hook |-> 0])
                            /\ ObserveMapped(FALSE)
                       ELSE Settle("value", next.by) /\ ObserveMapped(TRUE)
    /\ UNCHANGED <<bodyBy, denied, error>>

-----------------------------------------------------------------------------
(* Errors and observers. *)

\* runErrorHooks: the first hook that returns something answers; when it
\* throws, or its value cannot be serialized, that new error is answered,
\* unless the failure is in a .then callback.
OnError(mode, o) ==
    /\ Finishes("onError", mode, o)
    /\ \/ o = "throw" /\ Settle("problem", Here)
       \/ o = "bad" /\ Settle(IF mode = "sync" THEN "problem" ELSE "rejected", Here)
       \/ o \in {"object", "scalar", "response"} /\ Settle("value", Here)
       \/ /\ o = "undefined"
          /\ hook < route["onError"]
          /\ Goto("onError", hook + 1)
          /\ UNCHANGED reply
       \/ /\ o = "undefined"
          /\ hook >= route["onError"]
          /\ Settle("problem", error)
    /\ UNCHANGED <<bodyBy, result, denied, error, writers, observers>>

\* Slip: a throwing onAfterResponse hook ends the chain.
NextObserverUnlessThrown ==
    \/ watchHook < route["onAfterResponse"] /\ watch' = "run" /\ watchHook' = watchHook + 1
    \/ watch' = "done" /\ UNCHANGED watchHook

\* One onAfterResponse hook returns, throws (the error is logged), or is
\* waited for.
NextObserver ==
    IF watchHook < route["onAfterResponse"]
    THEN watch' = "run" /\ watchHook' = watchHook + 1
    ELSE watch' = "done" /\ UNCHANGED watchHook

Observe ==
    /\ watch = "run"
    /\ calls' = [calls EXCEPT !["onAfterResponse"] = @ + 1]
    /\ NextObserver \/ (watch' = "wait" /\ UNCHANGED watchHook)
    /\ UNCHANGED <<route, main, writers, thrown>>

\* Only while the main chain is not in the middle of a synchronous stretch.
ObserverResumes ==
    /\ watch = "wait"
    /\ wait \/ pc = "settled"
    /\ NextObserver
    /\ UNCHANGED <<route, main, history>>

-----------------------------------------------------------------------------

MainStep ==
    \/ \E s \in Steps \ {"bodyLimit", "body", "validators", "onAfterResponse"} : Suspend(s)
    \/ \E s \in ContextSteps, m \in Modes, o \in Outcomes : ContextHook(s, m, o)
    \/ \E o \in Outcomes : BodyLimit(o)
    \/ SkipBody
    \/ ReadBody
    \/ \E o \in Outcomes : BodyRead(o)
    \/ \E v \in {"valid", "invalid", "throw"} : Validate(v)
    \/ \E m \in Modes, o \in Outcomes : BeforeHandle(m, o)
    \/ \E m \in Modes, o \in Outcomes : Handle(m, o)
    \/ \E m \in Modes, o \in Outcomes : AfterHandle(m, o)
    \/ \E m \in Modes, o \in Outcomes : MapResponse(m, o)
    \/ \E m \in Modes, o \in Outcomes : OnError(m, o)

\* Nothing is left to do for this request.
Finished ==
    /\ pc = "settled"
    /\ watch \in {"off", "done"}
    /\ UNCHANGED vars

Work == MainStep \/ Observe \/ ObserverResumes

Next == Work \/ Finished

\* Fairness: the event loop runs what is ready, and the promises hooks return
\* are settled; a hook whose promise never settles hangs its request.
Spec == Init /\ [][Next]_vars /\ WF_vars(Work)

-----------------------------------------------------------------------------
(* Properties. *)

RunInFull(s) == calls[s] = route[s] \/ (s = "body" /\ bodyBy = "hook")

\* The handler is reached only when every derive, onRequest, parse, transform
\* and beforeHandle hook, the body reader and every validator ran to its end,
\* none of them threw and none answered in the handler's place: no chain of
\* sync and async hooks slips past an authentication guard.
GuardsBeforeHandler ==
    calls["handler"] > 0 =>
        /\ \A s \in GuardSteps : RunInFull(s)
        /\ thrown.step \notin GuardSteps
        /\ ~denied

\* What is given to the error path (handleError) is never observed by an
\* onAfterResponse hook, whichever of the nested try blocks and promise
\* callbacks caught the exception: the two ways out of run() exclude each other.
ErrorXorObserved == error # Nowhere => watch = "off"

\* An exception of a guard, of the handler or of an afterHandle hook decides
\* the reply: no value the pipeline had at hand is sent instead, and run()
\* does not reject unless an onError hook's own value cannot be serialized.
ThrowsAreAnswered ==
    thrown.step \in GuardSteps \cup {"handler", "afterHandle"} /\ pc = "settled" =>
        /\ error = thrown
        /\ \/ reply.kind = "problem" /\ reply.by.step \in {thrown.step, "onError"}
           \/ reply.kind = "value" /\ reply.by.step = "onError"
           \/ reply.kind = "rejected" /\ reply.by.step = "onError"

\* The reply of the main chain is the result of the last hook that returned
\* one, across handler, afterHandle and mapResponse: no override is lost.
LastResultWins ==
    reply.kind = "value" /\ reply.by.step # "onError" =>
        \A w \in writers :
            \/ Rank[w.step] < Rank[reply.by.step]
            \/ w.step = reply.by.step /\ w.hook <= reply.by.hook

\* A value is sent only after every mapResponse hook was called on it, but for one
\* kind of reply: the Response of an async handler, on a route without afterHandle
\* hooks and with ctx.set untouched, is returned as it is (pipeline.ts:1693).  Nothing
\* else goes round the hooks: not a value, not the Response of a guard or of an
\* afterHandle hook, not one with a status, header or cookie set.
MappedBeforeSent ==
    reply.kind = "value" /\ reply.by.step # "onError" =>
        \/ calls["mapResponse"] = route["mapResponse"]
        \/ /\ result = [kind |-> "response", by |-> [step |-> "handler", hook |-> 1]]
           /\ route["afterHandle"] = 0
           /\ ~set

\* docs/CORE.md:276-277 and docs/ROUTING.md:236-243 put the mapResponse hooks behind
\* every handler.  The code does not: see the exception in MappedBeforeSent.
AlwaysMapped ==
    reply.kind = "value" /\ reply.by.step # "onError" => calls["mapResponse"] = route["mapResponse"]

\* onAfterResponse hooks start only once the reply is decided; only a
\* short-circuit starts them while its mapResponse hooks still wait, and then
\* never before the first of these was called.
ObservedAfterReply ==
    watch \in {"run", "wait", "done"} =>
        \/ reply # NoReply
        \/ denied /\ calls["mapResponse"] > 0

\* Sync and async onAfterResponse hooks are all called, in their order, even
\* when earlier ones throw, however the chain interleaves with the reply.
ObserversFinish == (watch = "run") ~> (watch = "done" /\ calls["onAfterResponse"] = route["onAfterResponse"])

\* Every stage of the lifecycle, as RequestLifecycle promises it.
LifeStage ==
    CASE pc = "settled" -> "settled"
      [] pc = "onError" -> "failing"
      [] pc \in GuardSteps -> "guarding"
      [] OTHER -> IF denied THEN "refusing" ELSE "handling"

LifeReply ==
    CASE reply.kind = "none" -> "none"
      [] reply.kind = "invalid" -> "refused"
      [] reply.kind = "value" /\ reply.by.step # "onError" ->
            IF denied THEN "refused" ELSE "answered"
      [] OTHER -> "failed"

Lifecycle == INSTANCE RequestLifecycle WITH
    stage <- LifeStage,
    reply <- LifeReply,
    watched <- watch \in {"run", "wait", "done"}

\* run() implements the lifecycle: one reply, refused, answered or failed, in
\* the order the guards, the handler and the error path allow.
ImplementsLifecycle == Lifecycle!Spec
=============================================================================
