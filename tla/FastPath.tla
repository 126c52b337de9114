------------------------------ MODULE FastPath ------------------------------
(***************************************************************************)
(* The serve handler of a route whose only hooks are beforeHandle hooks:   *)
(* compileBeforeHandleServeHandler and what it calls, in                   *)
(* packages/core/src/compiler/pipeline.ts.                                 *)
(*                                                                         *)
(* Unlike the generated run() of Pipeline it keeps state between requests: *)
(* a context slot that all requests bind in turn, when no hook names more  *)
(* than the request (minimalCtx), and the flag that remembers what an      *)
(* async handler returned first.  Requests interleave wherever a hook or   *)
(* the handler is awaited, and before the handler that follows an awaited  *)
(* hook.                                                                   *)
(***************************************************************************)
EXTENDS Naturals

CONSTANTS
    Requests,
    Hooks,        \* the number of beforeHandle hooks
    Mutating,     \* is the method one whose Content-Length is checked?
    Subject,      \* the request whose lifecycle is compared: any of them
    None

ASSUME ConstantsAssumption ==
    /\ Hooks \in Nat \ {0}
    /\ Mutating \in BOOLEAN
    /\ Subject \in Requests
    /\ None \notin Requests

VARIABLES
    minimalCtx, \* does no hook name more than the request? then the slot is shared
    running,   \* the request that has the JavaScript thread
    phase,     \* where each request is
    index,     \* the beforeHandle hook it is at
    bound,     \* ctx.request of each context
    touched,   \* ctx._set of each context is allocated
    flag,      \* returnsResponseDirectly.current
    direct,    \* was the handler's own promise returned?
    reply,     \* how each request was answered
    seen,      \* history: the request each hook, and the handler, was called with
    waited     \* history: the requests with a hook that was awaited

context == <<minimalCtx, bound, touched>>
vars == <<context, running, phase, index, flag, direct, reply, seen, waited>>

Calls == 1..(Hooks + 1)   \* the last one is the handler's
Phases == {"idle", "hook", "hookWait", "handlerDue", "handlerWait", "done"}
Replies == {"none", "limit", "denied", "value", "problem", "raw", "rejected"}

\* "bad" is a value that JSON.stringify throws on.
Values == {"undefined", "object", "scalar", "response", "bad"}
Outcomes == Values \cup {"throw"}

\* A context is named by the request it was made for; None names the slot.
Contexts == Requests \cup {None}
ctx(r) == IF minimalCtx THEN None ELSE r

TypeOK ==
    /\ minimalCtx \in BOOLEAN
    /\ running \in Requests \cup {None}
    /\ phase \in [Requests -> Phases]
    /\ index \in [Requests -> 0..(Hooks + 1)]
    /\ bound \in [Contexts -> Requests \cup {None}]
    /\ touched \in [Contexts -> BOOLEAN]
    /\ flag \in {"unset", "yes", "no"}
    /\ direct \in [Requests -> BOOLEAN]
    /\ reply \in [Requests -> Replies]
    /\ seen \in [Requests -> [Calls -> Requests \cup {None}]]
    /\ waited \subseteq Requests
    /\ \A r \in Requests : phase[r] \in {"hook", "hookWait"} => index[r] \in 1..Hooks

Init ==
    /\ minimalCtx \in BOOLEAN
    /\ running = None
    /\ phase = [r \in Requests |-> "idle"]
    /\ index = [r \in Requests |-> 0]
    /\ bound = [c \in Contexts |-> None]
    /\ touched = [c \in Contexts |-> FALSE]
    /\ flag = "unset"
    /\ direct = [r \in Requests |-> FALSE]
    /\ reply = [r \in Requests |-> "none"]
    /\ seen = [r \in Requests |-> [c \in Calls |-> None]]
    /\ waited = {}

-----------------------------------------------------------------------------

Enter(r, p) == phase' = [phase EXCEPT ![r] = p]
Runs(r) == running' = r
Yields == running' = None

Settle(r, how) ==
    /\ Enter(r, "done")
    /\ reply' = [reply EXCEPT ![r] = how]
    /\ Yields

\* User code is called with the context of r.
Call(r, c) == seen' = [seen EXCEPT ![r][c] = bound[ctx(r)]]

\* It may touch ctx.set, which the shared slot does not have.
MayTouch(r) ==
    touched' \in IF minimalCtx THEN {touched} ELSE {touched, [touched EXCEPT ![r] = TRUE]}

\* Slip: the slot is bound once, as if the route had one request.
BindOnce(r) ==
    /\ bound' = [bound EXCEPT ![ctx(r)] = IF @ = None THEN r ELSE @]
    /\ touched' = [touched EXCEPT ![ctx(r)] = FALSE]
    /\ UNCHANGED minimalCtx

\* bindRequestContext, or a context of the request's own.
Bind(r) ==
    /\ bound' = [bound EXCEPT ![ctx(r)] = r]
    /\ touched' = [touched EXCEPT ![ctx(r)] = FALSE]
    /\ UNCHANGED minimalCtx

-----------------------------------------------------------------------------
(* The request arrives, and its beforeHandle hooks run. *)

TooLarge(r) ==
    /\ Mutating
    /\ running = None
    /\ phase[r] = "idle"
    /\ Settle(r, "limit")
    /\ UNCHANGED <<index, context, flag, direct, seen, waited>>

Receive(r) ==
    /\ running = None
    /\ phase[r] = "idle"
    /\ Bind(r)
    /\ Enter(r, "hook")
    /\ index' = [index EXCEPT ![r] = 1]
    /\ Runs(r)
    /\ UNCHANGED <<flag, direct, reply, seen, waited>>

\* Slip: the callback of an awaited hook skips the hook after it.
AdvanceTooFar(r) ==
    LET next == index[r] + (IF r \in waited THEN 2 ELSE 1)
    IN IF next <= Hooks
       THEN Enter(r, "hook") /\ index' = [index EXCEPT ![r] = next] /\ Runs(r)
       ELSE /\ Enter(r, "handlerDue")
            /\ index' = [index EXCEPT ![r] = Hooks + 1]
            /\ IF r \in waited THEN Yields ELSE Runs(r)

\* runBeforeHandlerChain goes on; finalizeBeforeChain calls the handler at once
\* if no hook was awaited, and in a callback of its own otherwise, which whatever
\* else was resolved meanwhile may precede.
Advance(r) ==
    LET next == index[r] + 1
    IN IF next <= Hooks
       THEN Enter(r, "hook") /\ index' = [index EXCEPT ![r] = next] /\ Runs(r)
       ELSE /\ Enter(r, "handlerDue")
            /\ index' = [index EXCEPT ![r] = next]
            /\ IF r \in waited THEN Yields ELSE Runs(r)

\* Slip: the answer of a hook is kept, and the handler runs all the same.
HookOutcomeIgnored(r, o) ==
    \/ /\ o \in {"throw", "bad"}
       /\ Settle(r, "problem")
       /\ UNCHANGED index
    \/ /\ o \notin {"throw", "bad"}
       /\ Advance(r)
       /\ reply' = [reply EXCEPT ![r] = IF o \in {"scalar", "response"} THEN "denied" ELSE @]

\* What becomes of a hook's outcome: handleBeforeResultFast, and the catch
\* clause or the reject arm around it.
HookOutcome(r, o) ==
    \/ /\ o \in {"throw", "bad"}
       /\ Settle(r, "problem")
       /\ UNCHANGED index
    \/ /\ o \in {"scalar", "response"}
       /\ Settle(r, "denied")
       /\ UNCHANGED index
    \/ /\ o \in {"object", "undefined"}
       /\ Advance(r)
       /\ UNCHANGED reply

Hook(r, o) ==
    /\ running = r
    /\ phase[r] = "hook"
    /\ Call(r, index[r])
    /\ MayTouch(r)
    /\ HookOutcome(r, o)
    /\ UNCHANGED <<minimalCtx, bound, flag, direct, waited>>

HookWaits(r) ==
    /\ running = r
    /\ phase[r] = "hook"
    /\ Call(r, index[r])
    /\ MayTouch(r)
    /\ Enter(r, "hookWait")
    /\ Yields
    /\ waited' = waited \cup {r}
    /\ UNCHANGED <<minimalCtx, index, bound, flag, direct, reply>>

HookSettles(r, o) ==
    /\ running = None
    /\ phase[r] = "hookWait"
    /\ HookOutcome(r, o)
    /\ UNCHANGED <<context, flag, direct, seen, waited>>

-----------------------------------------------------------------------------
(* The handler: runHandler and runRouteHandler. *)

MayHandle(r) ==
    /\ phase[r] = "handlerDue"
    /\ IF r \in waited THEN running = None ELSE running = r

Handle(r, o) ==
    /\ MayHandle(r)
    /\ Call(r, Hooks + 1)
    /\ MayTouch(r)
    /\ Settle(r, IF o \in {"throw", "bad"} THEN "problem" ELSE "value")
    /\ UNCHANGED <<minimalCtx, index, bound, flag, direct, waited>>

\* The promise of the handler is returned as it is.
Directly(r) == flag = "yes" /\ ~touched'[ctx(r)]

HandlerWaits(r) ==
    /\ MayHandle(r)
    /\ Call(r, Hooks + 1)
    /\ MayTouch(r)
    /\ direct' = [direct EXCEPT ![r] = Directly(r)]
    /\ Enter(r, "handlerWait")
    /\ Yields
    /\ UNCHANGED <<minimalCtx, index, bound, flag, reply, waited>>

DirectSettles(r, o) ==
    /\ running = None
    /\ phase[r] = "handlerWait"
    /\ direct[r]
    /\ Settle(r, CASE o = "throw" -> "rejected" [] o = "response" -> "value" [] OTHER -> "raw")
    /\ UNCHANGED <<index, context, flag, direct, seen, waited>>

HandlerSettles(r, o) ==
    /\ running = None
    /\ phase[r] = "handlerWait"
    /\ ~direct[r]
    /\ flag' = IF flag = "unset" /\ o # "throw"
               THEN IF o = "response" THEN "yes" ELSE "no"
               ELSE flag
    /\ Settle(r, CASE o = "throw" -> "problem" [] o = "bad" -> "rejected" [] OTHER -> "value")
    /\ UNCHANGED <<index, context, direct, seen, waited>>

-----------------------------------------------------------------------------

Progress(r) ==
    \/ HookWaits(r)
    \/ HandlerWaits(r)
    \/ \E o \in Outcomes :
          Hook(r, o) \/ HookSettles(r, o) \/ Handle(r, o) \/ DirectSettles(r, o)
          \/ HandlerSettles(r, o)

Finished ==
    /\ \A r \in Requests : phase[r] = "done"
    /\ UNCHANGED vars

Next == (\E r \in Requests : TooLarge(r) \/ Receive(r) \/ Progress(r)) \/ Finished

\* Fairness: requests are received, and what hooks and handlers return settles.
Spec ==
    /\ Init /\ [][Next]_vars
    /\ \A r \in Requests : WF_vars(Receive(r)) /\ WF_vars(Progress(r))

-----------------------------------------------------------------------------
(* Properties. *)

Handled(r) == phase[r] = "handlerWait" \/ reply[r] \in {"value", "raw", "rejected"}

\* However the hooks of several requests interleave on one context slot: the
\* handler of a request runs only behind every one of its hooks, and a request
\* that a hook refused never reaches it.
HandlerBehindHooks ==
    \A r \in Requests :
        /\ Handled(r) => \A c \in Calls : seen[r][c] # None
        /\ reply[r] \in {"limit", "denied"} => seen[r][Hooks + 1] = None

\* Until a hook of the request is awaited, hooks and handler are called with the
\* request they serve, though the slot is rebound by every request.
OwnRequestUntilAwait ==
    \A r \in Requests, c \in Calls :
        ~minimalCtx \/ r \notin waited => seen[r][c] \in {None, r}

Life == INSTANCE RequestLifecycle WITH
    stage <-
        CASE phase[Subject] = "done" -> "settled"
          [] phase[Subject] \in {"handlerDue", "handlerWait"} -> "handling"
          [] OTHER -> "guarding",
    reply <-
        CASE reply[Subject] = "none" -> "none"
          [] reply[Subject] \in {"limit", "denied"} -> "refused"
          [] reply[Subject] \in {"value", "raw"} -> "answered"
          [] OTHER -> "failed",
    watched <- FALSE

\* The fast path keeps the lifecycle of the full pipeline, for any one request,
\* whatever the others do: one reply, refused by a hook, answered by the handler,
\* or failed.
ImplementsLifecycle == Life!Spec
=============================================================================
