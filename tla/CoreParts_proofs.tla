-------------------------- MODULE CoreParts_proofs --------------------------
(***************************************************************************)
(* Theorems about three parts of packages/core: FastPath, for every set of *)
(* requests, any number of hooks, and both kinds of context; Validation,   *)
(* for all schemas and values up to any depth, and for every written       *)
(* configuration; and Container, for every set of tokens, forks and        *)
(* factories.                                                              *)
(***************************************************************************)
EXTENDS FastPath, Validation, Container, FiniteSetTheorems, SequenceTheorems, WellFoundedInduction, TLAPS

-----------------------------------------------------------------------------
(* FastPath. *)

LEMMA HandlerCall == Hooks + 1 \in Calls /\ Hooks + 1 \in Nat
    BY ConstantsAssumption DEF Calls

LEMMA SlotIsAContext == \A r \in Requests : ctx(r) \in Contexts
    BY DEF ctx, Contexts

\* What is known of a context that user code is called with.
LEMMA CallType ==
    ASSUME TypeOK, NEW r \in Requests, NEW c \in Calls, Call(r, c)
    PROVE  seen' \in [Requests -> [Calls -> Requests \cup {None}]]
  <1>1. bound[ctx(r)] \in Requests \cup {None}
    BY SlotIsAContext DEF TypeOK
  <1>2. QED
    BY <1>1 DEF Call, TypeOK

LEMMA TouchType ==
    ASSUME TypeOK, NEW r \in Requests, MayTouch(r)
    PROVE  touched' \in [Contexts -> BOOLEAN]
    BY DEF MayTouch, TypeOK, Contexts

-----------------------------------------------------------------------------
(* Type correctness. *)

LEMMA InitTypeOK == Init => TypeOK
    BY ConstantsAssumption DEF Init, TypeOK, Phases, Replies, Contexts

LEMMA OutcomeType ==
    ASSUME TypeOK, NEW r \in Requests, NEW o \in Outcomes, HookOutcome(r, o),
           phase[r] \in {"hook", "hookWait"}
    PROVE  /\ running' \in Requests \cup {None}
           /\ phase' \in [Requests -> Phases]
           /\ index' \in [Requests -> 0..(Hooks + 1)]
           /\ reply' \in [Requests -> Replies]
           /\ \A s \in Requests : phase'[s] \in {"hook", "hookWait"} => index'[s] \in 1..Hooks
  <1> USE ConstantsAssumption DEF TypeOK, Phases, Replies, Enter, Runs, Yields
  <1>1. CASE o \in {"throw", "bad"}
    BY <1>1 DEF HookOutcome, Settle
  <1>2. CASE o \in {"scalar", "response"}
    BY <1>2 DEF HookOutcome, Settle
  <1>3. CASE o \in {"object", "undefined"}
    <2>1. Advance(r) /\ UNCHANGED reply
      BY <1>3 DEF HookOutcome
    <2>2. index[r] \in 1..Hooks /\ Hooks \in Nat
      OBVIOUS
    <2>3. CASE index[r] + 1 <= Hooks
      <3>1. /\ phase' = [phase EXCEPT ![r] = "hook"]
            /\ index' = [index EXCEPT ![r] = index[r] + 1]
            /\ running' = r
        BY <2>1, <2>3 DEF Advance
      <3>2. index[r] + 1 \in 1..Hooks /\ index[r] + 1 \in 0..(Hooks + 1)
        BY <2>2, <2>3
      <3>3. QED
        BY <2>1, <3>1, <3>2
    <2>4. CASE ~(index[r] + 1 <= Hooks)
      <3>1. /\ phase' = [phase EXCEPT ![r] = "handlerDue"]
            /\ index' = [index EXCEPT ![r] = index[r] + 1]
            /\ running' \in {None, r}
        BY <2>1, <2>4 DEF Advance
      <3>2. index[r] + 1 \in 0..(Hooks + 1)
        BY <2>2, <2>4
      <3>3. QED
        BY <2>1, <3>1, <3>2
    <2>5. QED
      BY <2>3, <2>4
  <1>4. QED
    BY <1>1, <1>2, <1>3 DEF Outcomes, Values

LEMMA StepTypeOK ==
    ASSUME TypeOK, NEW r \in Requests, TooLarge(r) \/ Receive(r) \/ Progress(r)
    PROVE  TypeOK'
  <1> USE ConstantsAssumption
      DEF TypeOK, Phases, Replies, Contexts, Enter, Runs, Yields, Settle, context
  <1>1. CASE TooLarge(r)
    BY <1>1 DEF TooLarge
  <1>2. CASE Receive(r)
    <2>1. bound' \in [Contexts -> Requests \cup {None}] /\ touched' \in [Contexts -> BOOLEAN]
      BY <1>2, SlotIsAContext DEF Receive, Bind
    <2>2. QED
      BY <1>2, <2>1 DEF Receive, Bind
  <1>3. CASE HookWaits(r)
    <2>1. index[r] \in Calls
      BY <1>3 DEF HookWaits, Calls
    <2>2. QED
      BY <1>3, <2>1, CallType, TouchType DEF HookWaits
  <1>4. CASE HandlerWaits(r)
    <2>1. direct' \in [Requests -> BOOLEAN]
      BY <1>4 DEF HandlerWaits, Directly
    <2>2. QED
      BY <1>4, <2>1, HandlerCall, CallType, TouchType DEF HandlerWaits, MayHandle
  <1>5. ASSUME NEW o \in Outcomes, Hook(r, o) PROVE TypeOK'
    <2>1. index[r] \in Calls
      BY <1>5 DEF Hook, Calls
    <2>2. QED
      BY <1>5, <2>1, CallType, TouchType, OutcomeType DEF Hook
  <1>6. ASSUME NEW o \in Outcomes, HookSettles(r, o) PROVE TypeOK'
    BY <1>6, OutcomeType DEF HookSettles
  <1>7. ASSUME NEW o \in Outcomes, Handle(r, o) PROVE TypeOK'
    BY <1>7, HandlerCall, CallType, TouchType DEF Handle, MayHandle
  <1>8. ASSUME NEW o \in Outcomes, DirectSettles(r, o) PROVE TypeOK'
    BY <1>8 DEF DirectSettles
  <1>9. ASSUME NEW o \in Outcomes, HandlerSettles(r, o) PROVE TypeOK'
    BY <1>9 DEF HandlerSettles
  <1>10. QED
    BY <1>1, <1>2, <1>3, <1>4, <1>5, <1>6, <1>7, <1>8, <1>9 DEF Progress

LEMMA TypeInductive == TypeOK /\ [Next]_vars => TypeOK'
  <1> SUFFICES ASSUME TypeOK, [Next]_vars PROVE TypeOK'
    OBVIOUS
  <1>1. CASE \E r \in Requests : TooLarge(r) \/ Receive(r) \/ Progress(r)
    BY <1>1, StepTypeOK
  <1>2. CASE UNCHANGED vars
    BY <1>2 DEF vars, context, TypeOK
  <1>3. QED
    BY <1>1, <1>2 DEF Next, Finished

\* Every reachable state is well typed; in particular a request that is at a hook
\* is at one of the route's hooks, whatever was awaited before it.
THEOREM TypeCorrect == Spec => []TypeOK
    BY InitTypeOK, TypeInductive, PTL DEF Spec

-----------------------------------------------------------------------------
(* What a step does to the place of a request. *)

\* Every outcome of a hook leads to the next hook, to the handler, or to a reply.
LEMMA OutcomePlace ==
    ASSUME TypeOK, NEW r \in Requests, NEW o \in Outcomes, HookOutcome(r, o),
           phase[r] \in {"hook", "hookWait"}
    PROVE  \E p \in {"hook", "handlerDue", "done"}, n \in Nat :
              /\ phase' = [phase EXCEPT ![r] = p]
              /\ index' = [index EXCEPT ![r] = n]
              /\ p = "hook" => n = index[r] + 1 /\ running' = r
              /\ p = "handlerDue" =>
                    /\ n = index[r] + 1 /\ n = Hooks + 1
                    /\ running' = IF r \in waited THEN None ELSE r
              /\ p # "done" => UNCHANGED reply
              /\ p = "done" => \E how \in {"problem", "denied"} :
                                   reply' = [reply EXCEPT ![r] = how]
  <1> USE ConstantsAssumption DEF TypeOK, Enter, Runs, Yields
  <1>0. index[r] \in 1..Hooks /\ Hooks \in Nat /\ index = [index EXCEPT ![r] = index[r]]
    OBVIOUS
  <1>1. CASE o \in {"throw", "bad"}
    BY <1>0, <1>1 DEF HookOutcome, Settle
  <1>2. CASE o \in {"scalar", "response"}
    BY <1>0, <1>2 DEF HookOutcome, Settle
  <1>3. CASE o \in {"object", "undefined"}
    <2>1. Advance(r) /\ UNCHANGED reply
      BY <1>3 DEF HookOutcome
    <2>2. index[r] + 1 \in Nat /\ (~(index[r] + 1 <= Hooks) => index[r] + 1 = Hooks + 1)
      BY <1>0
    <2>3. CASE index[r] + 1 <= Hooks
      BY <2>1, <2>2, <2>3 DEF Advance
    <2>4. CASE ~(index[r] + 1 <= Hooks)
      <3>1. /\ phase' = [phase EXCEPT ![r] = "handlerDue"]
            /\ index' = [index EXCEPT ![r] = index[r] + 1]
            /\ running' = IF r \in waited THEN None ELSE r
        BY <2>1, <2>4 DEF Advance
      <3>2. QED
        BY <2>1, <2>2, <2>4, <3>1
    <2>5. QED
      BY <2>3, <2>4
  <1>4. QED
    BY <1>1, <1>2, <1>3 DEF Outcomes, Values

-----------------------------------------------------------------------------
(* The slot: requests meet in it only where one of them was suspended. *)

\* From the start of a request to its first suspension it has the thread, and the
\* slot names it; a context of its own names it for ever.
SlotInv ==
    \A r \in Requests :
        /\ phase[r] = "hook" => running = r
        /\ phase[r] = "hookWait" => r \in waited
        /\ phase[r] = "handlerDue" /\ r \notin waited => running = r
        /\ phase[r] \in {"hook", "hookWait", "handlerDue"} =>
              (~minimalCtx \/ r \notin waited => bound[ctx(r)] = r)

\* A context of the request's own is not the slot, nor anybody else's.
LEMMA OwnContexts ==
    \A r, s \in Requests : ctx(r) = ctx(s) => r = s \/ minimalCtx
    BY DEF ctx

LEMMA OutcomeKeepsSlot ==
    ASSUME TypeOK, SlotInv, NEW r \in Requests, NEW o \in Outcomes, HookOutcome(r, o),
           phase[r] \in {"hook", "hookWait"}, running \in {None, r},
           UNCHANGED <<minimalCtx, bound, waited>>
    PROVE  SlotInv'
  <1>1. PICK p \in {"hook", "handlerDue", "done"}, n \in Nat :
            /\ phase' = [phase EXCEPT ![r] = p]
            /\ p = "hook" => running' = r
            /\ p = "handlerDue" => running' = IF r \in waited THEN None ELSE r
    BY OutcomePlace
  <1>2. \A s \in Requests : ctx(s)' = ctx(s)
    BY DEF ctx
  <1>3. \A s \in Requests \ {r} : phase[s] # "hook" /\ ~(phase[s] = "handlerDue" /\ s \notin waited)
    BY ConstantsAssumption DEF SlotInv
  <1>4. QED
    BY <1>1, <1>2, <1>3 DEF SlotInv, TypeOK

LEMMA StepKeepsSlot ==
    ASSUME TypeOK, SlotInv, NEW r \in Requests, TooLarge(r) \/ Receive(r) \/ Progress(r)
    PROVE  SlotInv'
  <1> USE ConstantsAssumption DEF TypeOK, Enter, Runs, Yields, Settle, context
  <1>1. CASE TooLarge(r)
    BY <1>1 DEF TooLarge, SlotInv, ctx
  <1>2. CASE Receive(r)
    <2>1. ctx(r) \in Contexts /\ bound'[ctx(r)] = r /\ minimalCtx' = minimalCtx
      BY <1>2, SlotIsAContext DEF Receive, Bind
    <2>2. \A s \in Requests : ctx(s)' = ctx(s)
      BY <2>1 DEF ctx
    <2>3. \A s \in Requests \ {r} :
             phase[s] # "hook" /\ ~(phase[s] = "handlerDue" /\ s \notin waited)
      BY <1>2 DEF SlotInv, Receive
    <2>4. \A s \in Requests \ {r} : ~minimalCtx => bound'[ctx(s)] = bound[ctx(s)]
      BY <1>2, OwnContexts, SlotIsAContext DEF Receive, Bind
    <2>5. QED
      BY <1>2, <2>1, <2>2, <2>3, <2>4 DEF SlotInv, Receive
  <1>3. CASE HookWaits(r)
    BY <1>3 DEF HookWaits, SlotInv, ctx
  <1>4. CASE HandlerWaits(r)
    BY <1>4 DEF HandlerWaits, MayHandle, SlotInv, ctx
  <1>5. ASSUME NEW o \in Outcomes, Hook(r, o) PROVE SlotInv'
    BY <1>5, OutcomeKeepsSlot DEF Hook
  <1>6. ASSUME NEW o \in Outcomes, HookSettles(r, o) PROVE SlotInv'
    BY <1>6, OutcomeKeepsSlot DEF HookSettles
  <1>7. ASSUME NEW o \in Outcomes, Handle(r, o) PROVE SlotInv'
    BY <1>7 DEF Handle, MayHandle, SlotInv, ctx
  <1>8. ASSUME NEW o \in Outcomes, DirectSettles(r, o) PROVE SlotInv'
    BY <1>8 DEF DirectSettles, SlotInv, ctx
  <1>9. ASSUME NEW o \in Outcomes, HandlerSettles(r, o) PROVE SlotInv'
    BY <1>9 DEF HandlerSettles, SlotInv, ctx
  <1>10. QED
    BY <1>1, <1>2, <1>3, <1>4, <1>5, <1>6, <1>7, <1>8, <1>9 DEF Progress

LEMMA StepKeepsOwnRequest ==
    ASSUME TypeOK, SlotInv, OwnRequestUntilAwait, NEW r \in Requests,
           TooLarge(r) \/ Receive(r) \/ Progress(r)
    PROVE  OwnRequestUntilAwait'
  <1> USE DEF TypeOK, OwnRequestUntilAwait, context
  <1>1. ASSUME NEW c \in Calls, Call(r, c), UNCHANGED minimalCtx, waited \subseteq waited',
               phase[r] \in {"hook", "handlerDue"}
        PROVE  OwnRequestUntilAwait'
    BY <1>1 DEF Call, SlotInv
  <1>2. CASE TooLarge(r) \/ Receive(r)
    BY <1>2 DEF TooLarge, Receive, Bind
  <1>3. CASE HookWaits(r)
    <2>1. index[r] \in Calls
      BY <1>3, ConstantsAssumption DEF HookWaits, Calls
    <2>2. QED
      BY <1>1, <1>3, <2>1 DEF HookWaits
  <1>4. CASE HandlerWaits(r)
    BY <1>1, <1>4, HandlerCall DEF HandlerWaits, MayHandle
  <1>5. ASSUME NEW o \in Outcomes, Hook(r, o) PROVE OwnRequestUntilAwait'
    <2>1. index[r] \in Calls
      BY <1>5, ConstantsAssumption DEF Hook, Calls
    <2>2. QED
      BY <1>1, <1>5, <2>1 DEF Hook
  <1>6. ASSUME NEW o \in Outcomes, Handle(r, o) PROVE OwnRequestUntilAwait'
    BY <1>1, <1>6, HandlerCall DEF Handle, MayHandle
  <1>7. ASSUME NEW o \in Outcomes, HookSettles(r, o) \/ DirectSettles(r, o) \/ HandlerSettles(r, o)
        PROVE  OwnRequestUntilAwait'
    BY <1>7 DEF HookSettles, DirectSettles, HandlerSettles
  <1>8. QED
    BY <1>2, <1>3, <1>4, <1>5, <1>6, <1>7 DEF Progress

LEMMA SlotInductive ==
    TypeOK /\ SlotInv /\ OwnRequestUntilAwait /\ [Next]_vars
        => SlotInv' /\ OwnRequestUntilAwait'
  <1> SUFFICES ASSUME TypeOK, SlotInv, OwnRequestUntilAwait, [Next]_vars
               PROVE  SlotInv' /\ OwnRequestUntilAwait'
    OBVIOUS
  <1>1. CASE \E r \in Requests : TooLarge(r) \/ Receive(r) \/ Progress(r)
    BY <1>1, StepKeepsSlot, StepKeepsOwnRequest
  <1>2. CASE UNCHANGED vars
    BY <1>2 DEF vars, context, SlotInv, OwnRequestUntilAwait, ctx
  <1>3. QED
    BY <1>1, <1>2 DEF Next, Finished

\* Hooks and handler are called with the request they serve until one of its hooks
\* is awaited, although bindRequestContext rebinds one slot for all requests.
THEOREM SlotIsSafeUntilAwait == Spec => []OwnRequestUntilAwait
  <1>1. Init => SlotInv /\ OwnRequestUntilAwait
    BY DEF Init, SlotInv, OwnRequestUntilAwait
  <1>2. QED
    BY <1>1, TypeCorrect, SlotInductive, PTL DEF Spec

-----------------------------------------------------------------------------
(* The handler behind the hooks. *)

\* The hooks before the one a request is at were called, the handler was not; and
\* a context that is in use names some request.
GuardInv ==
    \A r \in Requests :
        /\ phase[r] \in {"hook", "hookWait", "handlerDue"} => bound[ctx(r)] # None
        /\ phase[r] \in {"idle", "hook", "hookWait", "handlerDue"} =>
              seen[r][Hooks + 1] = None /\ reply[r] = "none"
        /\ phase[r] = "handlerWait" => reply[r] = "none"
        /\ phase[r] = "hook" => \A c \in Calls : c < index[r] => seen[r][c] # None
        /\ phase[r] = "hookWait" => \A c \in Calls : c <= index[r] => seen[r][c] # None
        /\ phase[r] = "handlerDue" => \A c \in Calls : c <= Hooks => seen[r][c] # None

\* A step of r leaves the others where they are.
LEMMA OthersKeepGuard ==
    ASSUME TypeOK, GuardInv, HandlerBehindHooks, NEW r \in Requests, NEW s \in Requests \ {r},
           bound'[ctx(s)'] # None \/ bound'[ctx(s)'] = bound[ctx(s)],
           phase'[s] = phase[s], index'[s] = index[s], seen'[s] = seen[s], reply'[s] = reply[s]
    PROVE  /\ phase'[s] \in {"hook", "hookWait", "handlerDue"} => bound'[ctx(s)'] # None
           /\ phase'[s] \in {"idle", "hook", "hookWait", "handlerDue"} =>
                 seen'[s][Hooks + 1] = None /\ reply'[s] = "none"
           /\ phase'[s] = "handlerWait" => reply'[s] = "none"
           /\ phase'[s] = "hook" => \A c \in Calls : c < index'[s] => seen'[s][c] # None
           /\ phase'[s] = "hookWait" => \A c \in Calls : c <= index'[s] => seen'[s][c] # None
           /\ phase'[s] = "handlerDue" => \A c \in Calls : c <= Hooks => seen'[s][c] # None
           /\ Handled(s)' => \A c \in Calls : seen'[s][c] # None
           /\ reply'[s] \in {"limit", "denied"} => seen'[s][Hooks + 1] = None
    BY DEF GuardInv, HandlerBehindHooks, Handled

\* What a hook that was called with a context in use leads to.
LEMMA OutcomeKeepsGuard ==
    ASSUME TypeOK, GuardInv, HandlerBehindHooks, NEW r \in Requests, NEW o \in Outcomes,
           HookOutcome(r, o), phase[r] \in {"hook", "hookWait"},
           UNCHANGED <<minimalCtx, bound>>,
           \A s \in Requests \ {r} : seen'[s] = seen[s],
           seen'[r][Hooks + 1] = None,
           \A c \in Calls : c <= index[r] => seen'[r][c] # None
    PROVE  (GuardInv /\ HandlerBehindHooks)'
  <1>0. \A s \in Requests : ctx(s)' = ctx(s)
    BY DEF ctx
  <1>1. PICK p \in {"hook", "handlerDue", "done"}, n \in Nat :
            /\ phase' = [phase EXCEPT ![r] = p]
            /\ index' = [index EXCEPT ![r] = n]
            /\ p = "hook" => n = index[r] + 1
            /\ p = "handlerDue" => n = index[r] + 1 /\ n = Hooks + 1
            /\ p # "done" => UNCHANGED reply
            /\ p = "done" => \E how \in {"problem", "denied"} :
                                 reply' = [reply EXCEPT ![r] = how]
    BY OutcomePlace
  <1>2. /\ phase'[r] = p /\ index'[r] = n
        /\ p # "done" => reply'[r] = "none"
        /\ p = "done" => reply'[r] \in {"problem", "denied"}
    BY <1>1 DEF TypeOK, GuardInv
  <1>3. \A s \in Requests \ {r} : phase'[s] = phase[s] /\ index'[s] = index[s] /\ reply'[s] = reply[s]
    BY <1>1 DEF TypeOK
  <1>4. \A c \in Calls : c \in Nat
    BY ConstantsAssumption DEF Calls
  <1>5. index[r] \in Nat /\ Hooks \in Nat
    BY ConstantsAssumption DEF TypeOK
  <1>6. /\ p = "hook" => \A c \in Calls : c < n => seen'[r][c] # None
        /\ p = "handlerDue" => \A c \in Calls : c <= Hooks => seen'[r][c] # None
    BY <1>1, <1>4, <1>5
  <1>7. bound'[ctx(r)'] # None
    BY <1>0 DEF GuardInv
  <1>8. \A s \in Requests \ {r} : bound'[ctx(s)'] = bound[ctx(s)]
    BY <1>0
  <1>9. GuardInv'
    BY <1>1, <1>2, <1>3, <1>6, <1>7, <1>8, OthersKeepGuard DEF GuardInv
  <1>10. HandlerBehindHooks'
    BY <1>1, <1>2, <1>3, <1>8, OthersKeepGuard DEF HandlerBehindHooks, Handled
  <1>11. QED
    BY <1>9, <1>10

\* The handler is called behind the last hook.
LEMMA CallCompletes ==
    ASSUME TypeOK, GuardInv, NEW r \in Requests, phase[r] = "handlerDue", Call(r, Hooks + 1)
    PROVE  /\ \A c \in Calls : seen'[r][c] # None
           /\ \A s \in Requests \ {r} : seen'[s] = seen[s]
  <1>1. seen' = [seen EXCEPT ![r] = [seen[r] EXCEPT ![Hooks + 1] = bound[ctx(r)]]]
    BY DEF Call
  <1>2. \A c \in Calls : c = Hooks + 1 \/ c <= Hooks
    BY ConstantsAssumption DEF Calls
  <1>3. QED
    BY <1>1, <1>2, HandlerCall DEF TypeOK, GuardInv

\* A hook is called with a context in use, the handler is not called.
LEMMA CallGuards ==
    ASSUME TypeOK, GuardInv, NEW r \in Requests, phase[r] = "hook", Call(r, index[r])
    PROVE  /\ index[r] \in Calls
           /\ \A c \in Calls : c <= index[r] => seen'[r][c] # None
           /\ seen'[r][Hooks + 1] = None
           /\ \A s \in Requests \ {r} : seen'[s] = seen[s]
  <1>1. index[r] \in 1..Hooks /\ Hooks \in Nat
    BY ConstantsAssumption DEF TypeOK
  <1>2. index[r] \in Calls /\ index[r] # Hooks + 1
    BY <1>1 DEF Calls
  <1>3. seen' = [seen EXCEPT ![r] = [seen[r] EXCEPT ![index[r]] = bound[ctx(r)]]]
    BY DEF Call
  <1>4. \A c \in Calls : c <= index[r] => c = index[r] \/ c < index[r]
    BY <1>1 DEF Calls
  <1>5. QED
    BY <1>2, <1>3, <1>4, HandlerCall DEF TypeOK, GuardInv

LEMMA StepKeepsGuard ==
    ASSUME TypeOK, GuardInv, HandlerBehindHooks, NEW r \in Requests,
           TooLarge(r) \/ Receive(r) \/ Progress(r)
    PROVE  (GuardInv /\ HandlerBehindHooks)'
  <1> USE DEF Enter, Settle, context
  <1>1. CASE TooLarge(r)
    BY <1>1 DEF TooLarge, TypeOK, GuardInv, HandlerBehindHooks, Handled, ctx
  <1>2. CASE Receive(r)
    <2>1. bound'[ctx(r)] = r /\ \A s \in Requests : ctx(s)' = ctx(s)
      BY <1>2, SlotIsAContext DEF Receive, Bind, ctx, TypeOK
    <2>2. \A s \in Requests : bound'[ctx(s)'] = r \/ bound'[ctx(s)'] = bound[ctx(s)]
      BY <1>2, <2>1, SlotIsAContext DEF Receive, Bind, TypeOK
    <2>3. r # None
      BY ConstantsAssumption
    <2>4. phase'[r] = "hook" /\ index'[r] = 1
      BY <1>2 DEF Receive, TypeOK
    <2>5. \A c \in Calls : ~(c < 1)
      BY ConstantsAssumption DEF Calls
    <2>6. GuardInv'
      BY <1>2, <2>1, <2>2, <2>3, <2>4, <2>5 DEF Receive, GuardInv, TypeOK
    <2>7. HandlerBehindHooks'
      BY <1>2, <2>4 DEF Receive, GuardInv, HandlerBehindHooks, Handled, TypeOK
    <2>8. QED
      BY <2>6, <2>7
  <1>3. CASE HookWaits(r)
    <2>1. phase[r] = "hook" /\ Call(r, index[r])
      BY <1>3 DEF HookWaits
    <2>2. \A s \in Requests : bound'[ctx(s)'] = bound[ctx(s)]
      BY <1>3 DEF HookWaits, ctx
    <2>3. GuardInv'
      BY <1>3, <2>1, <2>2, CallGuards DEF HookWaits, GuardInv, TypeOK
    <2>4. HandlerBehindHooks'
      BY <1>3, <2>1, CallGuards DEF HookWaits, GuardInv, HandlerBehindHooks, Handled, TypeOK
    <2>5. QED
      BY <2>3, <2>4
  <1>4. CASE HandlerWaits(r)
    <2>1. phase[r] = "handlerDue" /\ Call(r, Hooks + 1)
      BY <1>4 DEF HandlerWaits, MayHandle
    <2>2. \A s \in Requests : bound'[ctx(s)'] = bound[ctx(s)]
      BY <1>4 DEF HandlerWaits, ctx
    <2>3. GuardInv'
      BY <1>4, <2>1, <2>2, CallCompletes DEF HandlerWaits, GuardInv, TypeOK
    <2>4. HandlerBehindHooks'
      BY <1>4, <2>1, CallCompletes DEF HandlerWaits, GuardInv, HandlerBehindHooks, Handled, TypeOK
    <2>5. QED
      BY <2>3, <2>4
  <1>5. ASSUME NEW o \in Outcomes, Hook(r, o) PROVE (GuardInv /\ HandlerBehindHooks)'
    BY <1>5, CallGuards, OutcomeKeepsGuard DEF Hook
  <1>6. ASSUME NEW o \in Outcomes, HookSettles(r, o) PROVE (GuardInv /\ HandlerBehindHooks)'
    <2>1. /\ seen'[r][Hooks + 1] = None
          /\ \A c \in Calls : c <= index[r] => seen'[r][c] # None
      BY <1>6 DEF HookSettles, GuardInv
    <2>2. QED
      BY <1>6, <2>1, OutcomeKeepsGuard DEF HookSettles
  <1>7. ASSUME NEW o \in Outcomes, Handle(r, o) PROVE (GuardInv /\ HandlerBehindHooks)'
    <2>1. /\ phase[r] = "handlerDue" /\ Call(r, Hooks + 1)
          /\ reply' = [reply EXCEPT ![r] = IF o \in {"throw", "bad"} THEN "problem" ELSE "value"]
      BY <1>7 DEF Handle, MayHandle
    <2>2. \A s \in Requests : bound'[ctx(s)'] = bound[ctx(s)]
      BY <1>7 DEF Handle, ctx
    <2>3. phase'[r] = "done" /\ reply'[r] \in {"problem", "value"}
      BY <1>7, <2>1 DEF Handle, TypeOK
    <2>4. GuardInv'
      BY <1>7, <2>1, <2>2, <2>3, CallCompletes DEF Handle, GuardInv, TypeOK
    <2>5. HandlerBehindHooks'
      BY <1>7, <2>1, <2>3, CallCompletes DEF Handle, HandlerBehindHooks, Handled, TypeOK
    <2>6. QED
      BY <2>4, <2>5
  <1>8. ASSUME NEW o \in Outcomes, DirectSettles(r, o) \/ HandlerSettles(r, o)
        PROVE  (GuardInv /\ HandlerBehindHooks)'
    <2>1. /\ phase[r] = "handlerWait"
          /\ phase' = [phase EXCEPT ![r] = "done"]
          /\ \E how \in {"value", "raw", "rejected", "problem"} : reply' = [reply EXCEPT ![r] = how]
          /\ UNCHANGED <<index, minimalCtx, bound, seen>>
      BY <1>8 DEF DirectSettles, HandlerSettles
    <2>2. GuardInv'
      BY <2>1 DEF GuardInv, TypeOK, ctx
    <2>3. HandlerBehindHooks'
      BY <2>1 DEF GuardInv, HandlerBehindHooks, Handled, TypeOK
    <2>4. QED
      BY <2>2, <2>3
  <1>9. QED
    BY <1>1, <1>2, <1>3, <1>4, <1>5, <1>6, <1>7, <1>8 DEF Progress

LEMMA GuardInductive ==
    TypeOK /\ GuardInv /\ HandlerBehindHooks /\ [Next]_vars => (GuardInv /\ HandlerBehindHooks)'
  <1> SUFFICES ASSUME TypeOK, GuardInv, HandlerBehindHooks, [Next]_vars
               PROVE  (GuardInv /\ HandlerBehindHooks)'
    OBVIOUS
  <1>1. CASE \E r \in Requests : TooLarge(r) \/ Receive(r) \/ Progress(r)
    BY <1>1, StepKeepsGuard
  <1>2. CASE UNCHANGED vars
    BY <1>2 DEF vars, context, GuardInv, HandlerBehindHooks, Handled, ctx
  <1>3. QED
    BY <1>1, <1>2 DEF Next, Finished

\* A handler runs only behind every beforeHandle hook of its request, and never
\* for a request that a hook, or the body limit, refused.
THEOREM HandlerIsGuarded == Spec => []HandlerBehindHooks
  <1>1. Init => GuardInv /\ HandlerBehindHooks
    BY HandlerCall DEF Init, GuardInv, HandlerBehindHooks, Handled
  <1>2. QED
    BY <1>1, TypeCorrect, GuardInductive, PTL DEF Spec

-----------------------------------------------------------------------------
(* The lifecycle of the compared request, step by step. *)

\* A reply settles the lifecycle, in the way the reply stands for.
LEMMA SettlingStep ==
    ASSUME TypeOK, NEW p \in Phases \ {"done"}, NEW how \in Replies \ {"none"},
           phase[Subject] = p, phase'[Subject] = "done", reply'[Subject] = how,
           how \in {"limit", "denied"} => p \in {"idle", "hook", "hookWait"},
           how \in {"value", "raw"} => p \in {"handlerDue", "handlerWait"}
    PROVE  Life!Next
  <1>1. CASE how \in {"limit", "denied"}
    BY <1>1 DEF Life!Next, Life!Refuse, Life!Settle
  <1>2. CASE how \in {"value", "raw"}
    BY <1>2 DEF Life!Next, Life!Answer, Life!Settle
  <1>3. CASE how \in {"problem", "rejected"}
    BY <1>3 DEF Life!Next, Life!Fail, Life!Settle, Phases
  <1>4. QED
    BY <1>1, <1>2, <1>3 DEF Replies

\* So does a step that leaves the request among its hooks, or in its handler.
LEMMA WaitingStep ==
    ASSUME reply'[Subject] = reply[Subject],
           \/ {phase[Subject], phase'[Subject]} \subseteq {"idle", "hook", "hookWait"}
           \/ {phase[Subject], phase'[Subject]} \subseteq {"handlerDue", "handlerWait"}
           \/ phase'[Subject] = phase[Subject]
    PROVE  UNCHANGED Life!vars
  BY DEF Life!vars

LEMMA AdmittingStep ==
    ASSUME reply'[Subject] = reply[Subject],
           phase[Subject] \in {"hook", "hookWait"}, phase'[Subject] = "handlerDue"
    PROVE  Life!Next
  BY DEF Life!Next, Life!Admit

LEMMA OutcomeStep ==
    ASSUME TypeOK, NEW o \in Outcomes, HookOutcome(Subject, o),
           phase[Subject] \in {"hook", "hookWait"}
    PROVE  Life!Next \/ UNCHANGED Life!vars
  <1>0. Subject \in Requests
    BY ConstantsAssumption
  <1>1. PICK p \in {"hook", "handlerDue", "done"}, n \in Nat :
            /\ phase' = [phase EXCEPT ![Subject] = p]
            /\ p # "done" => UNCHANGED reply
            /\ p = "done" => \E how \in {"problem", "denied"} :
                                 reply' = [reply EXCEPT ![Subject] = how]
    BY <1>0, OutcomePlace
  <1>2. phase'[Subject] = p
    BY <1>0, <1>1 DEF TypeOK
  <1>3. CASE p = "done"
    <2>1. PICK how \in {"problem", "denied"} : reply'[Subject] = how
      BY <1>0, <1>1, <1>3 DEF TypeOK
    <2>2. QED
      BY <1>2, <1>3, <2>1, SettlingStep DEF Phases, Replies
  <1>4. CASE p = "hook"
    BY <1>1, <1>2, <1>4, WaitingStep
  <1>5. CASE p = "handlerDue"
    BY <1>1, <1>2, <1>5, AdmittingStep
  <1>6. QED
    BY <1>3, <1>4, <1>5

LEMMA SubjectStep ==
    ASSUME TypeOK, TooLarge(Subject) \/ Receive(Subject) \/ Progress(Subject)
    PROVE  Life!Next \/ UNCHANGED Life!vars
  <1>0. Subject \in Requests
    BY ConstantsAssumption
  <1> USE DEF Enter, Settle
  <1>1. CASE TooLarge(Subject)
    <2>1. phase[Subject] = "idle" /\ phase'[Subject] = "done" /\ reply'[Subject] = "limit"
      BY <1>0, <1>1 DEF TooLarge, TypeOK
    <2>2. QED
      BY <2>1, SettlingStep DEF Phases, Replies
  <1>2. CASE Receive(Subject) \/ HookWaits(Subject)
    <2>1. /\ phase[Subject] \in {"idle", "hook"} /\ phase'[Subject] \in {"hook", "hookWait"}
          /\ reply' = reply
      BY <1>0, <1>2 DEF Receive, HookWaits, TypeOK
    <2>2. QED
      BY <2>1, WaitingStep
  <1>3. CASE HandlerWaits(Subject)
    <2>1. /\ phase[Subject] = "handlerDue" /\ phase'[Subject] = "handlerWait"
          /\ reply' = reply
      BY <1>0, <1>3 DEF HandlerWaits, MayHandle, TypeOK
    <2>2. QED
      BY <2>1, WaitingStep
  <1>4. ASSUME NEW o \in Outcomes, Hook(Subject, o) \/ HookSettles(Subject, o)
        PROVE  Life!Next \/ UNCHANGED Life!vars
    BY <1>4, OutcomeStep DEF Hook, HookSettles
  <1>5. ASSUME NEW o \in Outcomes,
               Handle(Subject, o) \/ DirectSettles(Subject, o) \/ HandlerSettles(Subject, o)
        PROVE  Life!Next
    <2>1. /\ phase[Subject] \in {"handlerDue", "handlerWait"}
          /\ phase'[Subject] = "done"
          /\ reply'[Subject] \in {"value", "raw", "problem", "rejected"}
      BY <1>0, <1>5 DEF Handle, MayHandle, DirectSettles, HandlerSettles, TypeOK
    <2>2. QED
      BY <2>1, SettlingStep DEF Phases, Replies
  <1>6. QED
    BY <1>1, <1>2, <1>3, <1>4, <1>5 DEF Progress

\* A step of another request leaves the compared one where it is.
LEMMA OtherStep ==
    ASSUME TypeOK, NEW r \in Requests \ {Subject}, TooLarge(r) \/ Receive(r) \/ Progress(r)
    PROVE  UNCHANGED Life!vars
  <1>0. Subject \in Requests
    BY ConstantsAssumption
  <1> USE DEF TypeOK, Enter, Settle
  <1>1. CASE TooLarge(r) \/ Receive(r) \/ HookWaits(r) \/ HandlerWaits(r)
    BY <1>0, <1>1, WaitingStep DEF TooLarge, Receive, HookWaits, HandlerWaits
  <1>2. ASSUME NEW o \in Outcomes, Hook(r, o) \/ HookSettles(r, o)
        PROVE  phase'[Subject] = phase[Subject] /\ reply'[Subject] = reply[Subject]
    <2>1. HookOutcome(r, o) /\ phase[r] \in {"hook", "hookWait"}
      BY <1>2 DEF Hook, HookSettles
    <2>2. QED
      BY <1>0, <2>1, OutcomePlace
  <1>3. ASSUME NEW o \in Outcomes, Handle(r, o) \/ DirectSettles(r, o) \/ HandlerSettles(r, o)
        PROVE  phase'[Subject] = phase[Subject] /\ reply'[Subject] = reply[Subject]
    BY <1>0, <1>3 DEF Handle, DirectSettles, HandlerSettles
  <1>4. QED
    BY <1>1, <1>2, <1>3, WaitingStep DEF Progress

\* Whatever the other requests do, each step of the fast path is one the lifecycle
\* of a request allows, or none: refused by a hook or the body limit, admitted to
\* the handler behind the last hook, answered or failed once, and then settled.
THEOREM FollowsLifecycle == Spec => Life!Safety
  <1>1. Init => Life!Init
    BY ConstantsAssumption DEF Init, Life!Init
  <1>2. TypeOK /\ [Next]_vars => [Life!Next]_Life!vars
    <2> SUFFICES ASSUME TypeOK, [Next]_vars PROVE Life!Next \/ UNCHANGED Life!vars
      OBVIOUS
    <2>1. CASE \E r \in Requests : TooLarge(r) \/ Receive(r) \/ Progress(r)
      BY <2>1, SubjectStep, OtherStep
    <2>2. CASE UNCHANGED vars
      BY <2>2 DEF vars, Life!vars
    <2>3. QED
      BY <2>1, <2>2 DEF Next, Finished
  <1>3. QED
    BY <1>1, <1>2, TypeCorrect, PTL DEF Spec, Life!Safety

-----------------------------------------------------------------------------
(* Validation.  An induction over depth shows that validators are Sound at *)
(* every depth.  First the induction, and that the definitions by depth    *)
(* are what they say.                                                      *)

LEMMA LeastNatural ==
    ASSUME NEW T, T \subseteq Nat, T # {}
    PROVE  \E m \in T : \A n \in T : m <= n
  <1> DEFINE R == {ss \in Nat \X Nat : ss[1] < ss[2]}
  <1>1. IsWellFoundedOn(R, Nat)
    BY NatLessThanWellFounded DEF OpToRel
  <1>2. PICK m \in T : \A n \in T : <<n, m>> \notin R
    <2> HIDE DEF R
    <2>1. QED
      BY <1>1, WFMin
  <1>3. \A n \in T : ~(n < m)
    BY <1>2
  <1>4. QED
    BY <1>3

\* Induction for sets.
LEMMA UpToAll ==
    ASSUME NEW S, S \subseteq Nat, 0 \in S, \A n \in Nat : n \in S => n + 1 \in S
    PROVE  \A n \in Nat : n \in S
  <1> DEFINE Unreached == {n \in Nat : n \notin S}
  <1>1. SUFFICES ASSUME Unreached # {} PROVE FALSE
    OBVIOUS
  <1>2. PICK n \in Unreached : \A k \in Unreached : n <= k
    <2> HIDE DEF Unreached
    <2>1. QED
      BY <1>1, LeastNatural, Unreached \subseteq Nat DEF Unreached
  <1>3. n # 0 /\ n - 1 \in Nat /\ n - 1 \notin Unreached
    BY <1>2
  <1>4. QED
    BY <1>2, <1>3, (n - 1) + 1 = n

Deeper(names, V) ==
    Scalars \cup {File} \cup [is : {"array"}, items : Seq(V)] \cup Objects(names, V)

Wider(basic, strictness, S) ==
    basic
        \cup [kind : {"optional", "nullable", "array"}, items : S]
        \cup [kind : {"record"}, values : S]
        \cup [kind : {"union"}, variants : Seq(S)]
        \cup [kind : {"object"}, properties : [Names -> S \cup {NoSchema}],
              required : SUBSET Names, strict : strictness]

AllSchemas(n) == SchemasOf(BasicSchemas, BOOLEAN)[n]
ValuesAt(n) == OrUndefined(ValuesOf(Names)[n])

IsValues(names, f, n) ==
    f = [k \in 0..n |-> IF k = 0 THEN Scalars ELSE Deeper(names, f[k - 1])]

LEMMA ValuesExists ==
    ASSUME NEW names, NEW N \in Nat
    PROVE  \E f : IsValues(names, f, N)
  <1> DEFINE Found == {n \in Nat : \E f : IsValues(names, f, n)}
  <1>1. 0 \in Found
    <2>1. IsValues(names, [k \in 0..0 |-> Scalars], 0)
      BY DEF IsValues
    <2>2. QED
      BY <2>1
  <1>2. ASSUME NEW n \in Nat, n \in Found
        PROVE  n + 1 \in Found
    <2>1. PICK f : IsValues(names, f, n)
      BY <1>2
    <2> DEFINE g == [k \in 0..(n + 1) |-> IF k = n + 1 THEN Deeper(names, f[n]) ELSE f[k]]
    <2>2. ASSUME NEW k \in 0..(n + 1)
          PROVE  g[k] = IF k = 0 THEN Scalars ELSE Deeper(names, g[k - 1])
      <3>1. CASE k = n + 1
        <4>1. g[k] = Deeper(names, f[n]) /\ k # 0 /\ k - 1 = n /\ g[k - 1] = f[n]
          BY <3>1
        <4>2. QED
          BY <4>1
      <3>2. CASE k # n + 1
        <4>1. k \in 0..n /\ g[k] = f[k]
          BY <3>2
        <4>2. f[k] = IF k = 0 THEN Scalars ELSE Deeper(names, f[k - 1])
          BY <2>1, <4>1 DEF IsValues
        <4>3. k # 0 => g[k - 1] = f[k - 1]
          BY <4>1
        <4> HIDE DEF g
        <4>4. QED
          BY <4>1, <4>2, <4>3
      <3>3. QED
        BY <3>1, <3>2
    <2>3. IsValues(names, g, n + 1)
      <3> DEFINE h == [k \in 0..(n + 1) |-> IF k = 0 THEN Scalars ELSE Deeper(names, g[k - 1])]
      <3>1. g = [k \in 0..(n + 1) |-> g[k]]
        OBVIOUS
      <3> HIDE DEF g
      <3>2. g = h
        BY <2>2, <3>1
      <3>3. QED
        BY <3>2 DEF IsValues
    <2>4. QED
      BY <2>3
  <1>3. Found \subseteq Nat
    OBVIOUS
  <1>4. N \in Found
    <2> HIDE DEF Found
    <2>1. QED
      BY <1>1, <1>2, <1>3, UpToAll
  <1>5. QED
    BY <1>4

IsSchemas(basic, strictness, f, n) ==
    f = [k \in 0..n |-> IF k = 0 THEN basic ELSE Wider(basic, strictness, f[k - 1])]

LEMMA SchemasExists ==
    ASSUME NEW basic, NEW strictness, NEW N \in Nat
    PROVE  \E f : IsSchemas(basic, strictness, f, N)
  <1> DEFINE Found == {n \in Nat : \E f : IsSchemas(basic, strictness, f, n)}
  <1>1. 0 \in Found
    <2>1. IsSchemas(basic, strictness, [k \in 0..0 |-> basic], 0)
      BY DEF IsSchemas
    <2>2. QED
      BY <2>1
  <1>2. ASSUME NEW n \in Nat, n \in Found
        PROVE  n + 1 \in Found
    <2>1. PICK f : IsSchemas(basic, strictness, f, n)
      BY <1>2
    <2> DEFINE g == [k \in 0..(n + 1) |-> IF k = n + 1 THEN Wider(basic, strictness, f[n]) ELSE f[k]]
    <2>2. ASSUME NEW k \in 0..(n + 1)
          PROVE  g[k] = IF k = 0 THEN basic ELSE Wider(basic, strictness, g[k - 1])
      <3>1. CASE k = n + 1
        <4>1. g[k] = Wider(basic, strictness, f[n]) /\ k # 0 /\ k - 1 = n /\ g[k - 1] = f[n]
          BY <3>1
        <4>2. QED
          BY <4>1
      <3>2. CASE k # n + 1
        <4>1. k \in 0..n /\ g[k] = f[k]
          BY <3>2
        <4>2. f[k] = IF k = 0 THEN basic ELSE Wider(basic, strictness, f[k - 1])
          BY <2>1, <4>1 DEF IsSchemas
        <4>3. k # 0 => g[k - 1] = f[k - 1]
          BY <4>1
        <4> HIDE DEF g
        <4>4. QED
          BY <4>1, <4>2, <4>3
      <3>3. QED
        BY <3>1, <3>2
    <2>3. IsSchemas(basic, strictness, g, n + 1)
      <3> DEFINE h == [k \in 0..(n + 1) |-> IF k = 0 THEN basic ELSE Wider(basic, strictness, g[k - 1])]
      <3>1. g = [k \in 0..(n + 1) |-> g[k]]
        OBVIOUS
      <3> HIDE DEF g
      <3>2. g = h
        BY <2>2, <3>1
      <3>3. QED
        BY <3>2 DEF IsSchemas
    <2>4. QED
      BY <2>3
  <1>3. Found \subseteq Nat
    OBVIOUS
  <1>4. N \in Found
    <2> HIDE DEF Found
    <2>1. QED
      BY <1>1, <1>2, <1>3, UpToAll
  <1>5. QED
    BY <1>4

IsValidators(f, n) ==
    f = [k \in 0..n |-> [p \in AllSchemas(k) \X ValueTerms |-> Compiled(IF k = 0 THEN <<>> ELSE f[k - 1], p[1], p[2])]]

LEMMA ValidatorsExists ==
    ASSUME NEW N \in Nat
    PROVE  \E f : IsValidators(f, N)
  <1> DEFINE Found == {n \in Nat : \E f : IsValidators(f, n)}
  <1>1. 0 \in Found
    <2>1. IsValidators([k \in 0..0 |-> [p \in AllSchemas(0) \X ValueTerms |-> Compiled(<<>>, p[1], p[2])]], 0)
      BY DEF IsValidators
    <2>2. QED
      BY <2>1
  <1>2. ASSUME NEW n \in Nat, n \in Found
        PROVE  n + 1 \in Found
    <2>1. PICK f : IsValidators(f, n)
      BY <1>2
    <2> DEFINE g == [k \in 0..(n + 1) |-> IF k = n + 1 THEN [p \in AllSchemas((n + 1)) \X ValueTerms |-> Compiled(f[n], p[1], p[2])] ELSE f[k]]
    <2>2. ASSUME NEW k \in 0..(n + 1)
          PROVE  g[k] = [p \in AllSchemas(k) \X ValueTerms |-> Compiled(IF k = 0 THEN <<>> ELSE g[k - 1], p[1], p[2])]
      <3>1. CASE k = n + 1
        <4>1. g[k] = [p \in AllSchemas((n + 1)) \X ValueTerms |-> Compiled(f[n], p[1], p[2])] /\ k # 0 /\ k - 1 = n /\ g[k - 1] = f[n]
          BY <3>1
        <4>2. (IF k = 0 THEN <<>> ELSE g[k - 1]) = f[n]
          BY <4>1
        <4> HIDE DEF g
        <4>3. QED
          BY <3>1, <4>1, <4>2
      <3>2. CASE k # n + 1
        <4>1. k \in 0..n /\ g[k] = f[k]
          BY <3>2
        <4>2. f[k] = [p \in AllSchemas(k) \X ValueTerms |-> Compiled(IF k = 0 THEN <<>> ELSE f[k - 1], p[1], p[2])]
          BY <2>1, <4>1 DEF IsValidators
        <4>3. (IF k = 0 THEN <<>> ELSE g[k - 1]) = (IF k = 0 THEN <<>> ELSE f[k - 1])
          BY <4>1
        <4> HIDE DEF g
        <4>4. QED
          BY <4>1, <4>2, <4>3
      <3>3. QED
        BY <3>1, <3>2
    <2>3. IsValidators(g, n + 1)
      <3> DEFINE h == [k \in 0..(n + 1) |-> [p \in AllSchemas(k) \X ValueTerms |-> Compiled(IF k = 0 THEN <<>> ELSE g[k - 1], p[1], p[2])]]
      <3>1. g = [k \in 0..(n + 1) |-> g[k]]
        OBVIOUS
      <3> HIDE DEF g
      <3>2. g = h
        BY <2>2, <3>1
      <3>3. QED
        BY <3>2 DEF IsValidators
    <2>4. QED
      BY <2>3
  <1>3. Found \subseteq Nat
    OBVIOUS
  <1>4. N \in Found
    <2> HIDE DEF Found
    <2>1. QED
      BY <1>1, <1>2, <1>3, UpToAll
  <1>5. QED
    BY <1>4

IsTyped(f, n) ==
    f = [k \in 0..n |-> [p \in AllSchemas(k) \X ValueTerms |-> HasType(IF k = 0 THEN <<>> ELSE f[k - 1], p[1], p[2])]]

LEMMA TypedExists ==
    ASSUME NEW N \in Nat
    PROVE  \E f : IsTyped(f, N)
  <1> DEFINE Found == {n \in Nat : \E f : IsTyped(f, n)}
  <1>1. 0 \in Found
    <2>1. IsTyped([k \in 0..0 |-> [p \in AllSchemas(0) \X ValueTerms |-> HasType(<<>>, p[1], p[2])]], 0)
      BY DEF IsTyped
    <2>2. QED
      BY <2>1
  <1>2. ASSUME NEW n \in Nat, n \in Found
        PROVE  n + 1 \in Found
    <2>1. PICK f : IsTyped(f, n)
      BY <1>2
    <2> DEFINE g == [k \in 0..(n + 1) |-> IF k = n + 1 THEN [p \in AllSchemas((n + 1)) \X ValueTerms |-> HasType(f[n], p[1], p[2])] ELSE f[k]]
    <2>2. ASSUME NEW k \in 0..(n + 1)
          PROVE  g[k] = [p \in AllSchemas(k) \X ValueTerms |-> HasType(IF k = 0 THEN <<>> ELSE g[k - 1], p[1], p[2])]
      <3>1. CASE k = n + 1
        <4>1. g[k] = [p \in AllSchemas((n + 1)) \X ValueTerms |-> HasType(f[n], p[1], p[2])] /\ k # 0 /\ k - 1 = n /\ g[k - 1] = f[n]
          BY <3>1
        <4>2. (IF k = 0 THEN <<>> ELSE g[k - 1]) = f[n]
          BY <4>1
        <4> HIDE DEF g
        <4>3. QED
          BY <3>1, <4>1, <4>2
      <3>2. CASE k # n + 1
        <4>1. k \in 0..n /\ g[k] = f[k]
          BY <3>2
        <4>2. f[k] = [p \in AllSchemas(k) \X ValueTerms |-> HasType(IF k = 0 THEN <<>> ELSE f[k - 1], p[1], p[2])]
          BY <2>1, <4>1 DEF IsTyped
        <4>3. (IF k = 0 THEN <<>> ELSE g[k - 1]) = (IF k = 0 THEN <<>> ELSE f[k - 1])
          BY <4>1
        <4> HIDE DEF g
        <4>4. QED
          BY <4>1, <4>2, <4>3
      <3>3. QED
        BY <3>1, <3>2
    <2>3. IsTyped(g, n + 1)
      <3> DEFINE h == [k \in 0..(n + 1) |-> [p \in AllSchemas(k) \X ValueTerms |-> HasType(IF k = 0 THEN <<>> ELSE g[k - 1], p[1], p[2])]]
      <3>1. g = [k \in 0..(n + 1) |-> g[k]]
        OBVIOUS
      <3> HIDE DEF g
      <3>2. g = h
        BY <2>2, <3>1
      <3>3. QED
        BY <3>2 DEF IsTyped
    <2>4. QED
      BY <2>3
  <1>3. Found \subseteq Nat
    OBVIOUS
  <1>4. N \in Found
    <2> HIDE DEF Found
    <2>1. QED
      BY <1>1, <1>2, <1>3, UpToAll
  <1>5. QED
    BY <1>4

IsCopied(f, n) ==
    f = [k \in 0..n |-> [p \in AllSchemas(k) \X ValueTerms |-> CopiesFile(IF k = 0 THEN <<>> ELSE f[k - 1], p[1], p[2])]]

LEMMA CopiedExists ==
    ASSUME NEW N \in Nat
    PROVE  \E f : IsCopied(f, N)
  <1> DEFINE Found == {n \in Nat : \E f : IsCopied(f, n)}
  <1>1. 0 \in Found
    <2>1. IsCopied([k \in 0..0 |-> [p \in AllSchemas(0) \X ValueTerms |-> CopiesFile(<<>>, p[1], p[2])]], 0)
      BY DEF IsCopied
    <2>2. QED
      BY <2>1
  <1>2. ASSUME NEW n \in Nat, n \in Found
        PROVE  n + 1 \in Found
    <2>1. PICK f : IsCopied(f, n)
      BY <1>2
    <2> DEFINE g == [k \in 0..(n + 1) |-> IF k = n + 1 THEN [p \in AllSchemas((n + 1)) \X ValueTerms |-> CopiesFile(f[n], p[1], p[2])] ELSE f[k]]
    <2>2. ASSUME NEW k \in 0..(n + 1)
          PROVE  g[k] = [p \in AllSchemas(k) \X ValueTerms |-> CopiesFile(IF k = 0 THEN <<>> ELSE g[k - 1], p[1], p[2])]
      <3>1. CASE k = n + 1
        <4>1. g[k] = [p \in AllSchemas((n + 1)) \X ValueTerms |-> CopiesFile(f[n], p[1], p[2])] /\ k # 0 /\ k - 1 = n /\ g[k - 1] = f[n]
          BY <3>1
        <4>2. (IF k = 0 THEN <<>> ELSE g[k - 1]) = f[n]
          BY <4>1
        <4> HIDE DEF g
        <4>3. QED
          BY <3>1, <4>1, <4>2
      <3>2. CASE k # n + 1
        <4>1. k \in 0..n /\ g[k] = f[k]
          BY <3>2
        <4>2. f[k] = [p \in AllSchemas(k) \X ValueTerms |-> CopiesFile(IF k = 0 THEN <<>> ELSE f[k - 1], p[1], p[2])]
          BY <2>1, <4>1 DEF IsCopied
        <4>3. (IF k = 0 THEN <<>> ELSE g[k - 1]) = (IF k = 0 THEN <<>> ELSE f[k - 1])
          BY <4>1
        <4> HIDE DEF g
        <4>4. QED
          BY <4>1, <4>2, <4>3
      <3>3. QED
        BY <3>1, <3>2
    <2>3. IsCopied(g, n + 1)
      <3> DEFINE h == [k \in 0..(n + 1) |-> [p \in AllSchemas(k) \X ValueTerms |-> CopiesFile(IF k = 0 THEN <<>> ELSE g[k - 1], p[1], p[2])]]
      <3>1. g = [k \in 0..(n + 1) |-> g[k]]
        OBVIOUS
      <3> HIDE DEF g
      <3>2. g = h
        BY <2>2, <3>1
      <3>3. QED
        BY <3>2 DEF IsCopied
    <2>4. QED
      BY <2>3
  <1>3. Found \subseteq Nat
    OBVIOUS
  <1>4. N \in Found
    <2> HIDE DEF Found
    <2>1. QED
      BY <1>1, <1>2, <1>3, UpToAll
  <1>5. QED
    BY <1>4

IsSame(f, n) ==
    f = [k \in 0..n |-> [p \in ValuesAt(k) \X ValuesAt(k) |-> ReadAlike(IF k = 0 THEN <<>> ELSE f[k - 1], p[1], p[2])]]

LEMMA SameExists ==
    ASSUME NEW N \in Nat
    PROVE  \E f : IsSame(f, N)
  <1> DEFINE Found == {n \in Nat : \E f : IsSame(f, n)}
  <1>1. 0 \in Found
    <2>1. IsSame([k \in 0..0 |-> [p \in ValuesAt(0) \X ValuesAt(0) |-> ReadAlike(<<>>, p[1], p[2])]], 0)
      BY DEF IsSame
    <2>2. QED
      BY <2>1
  <1>2. ASSUME NEW n \in Nat, n \in Found
        PROVE  n + 1 \in Found
    <2>1. PICK f : IsSame(f, n)
      BY <1>2
    <2> DEFINE g == [k \in 0..(n + 1) |-> IF k = n + 1 THEN [p \in ValuesAt((n + 1)) \X ValuesAt((n + 1)) |-> ReadAlike(f[n], p[1], p[2])] ELSE f[k]]
    <2>2. ASSUME NEW k \in 0..(n + 1)
          PROVE  g[k] = [p \in ValuesAt(k) \X ValuesAt(k) |-> ReadAlike(IF k = 0 THEN <<>> ELSE g[k - 1], p[1], p[2])]
      <3>1. CASE k = n + 1
        <4>1. g[k] = [p \in ValuesAt((n + 1)) \X ValuesAt((n + 1)) |-> ReadAlike(f[n], p[1], p[2])] /\ k # 0 /\ k - 1 = n /\ g[k - 1] = f[n]
          BY <3>1
        <4>2. (IF k = 0 THEN <<>> ELSE g[k - 1]) = f[n]
          BY <4>1
        <4> HIDE DEF g
        <4>3. QED
          BY <3>1, <4>1, <4>2
      <3>2. CASE k # n + 1
        <4>1. k \in 0..n /\ g[k] = f[k]
          BY <3>2
        <4>2. f[k] = [p \in ValuesAt(k) \X ValuesAt(k) |-> ReadAlike(IF k = 0 THEN <<>> ELSE f[k - 1], p[1], p[2])]
          BY <2>1, <4>1 DEF IsSame
        <4>3. (IF k = 0 THEN <<>> ELSE g[k - 1]) = (IF k = 0 THEN <<>> ELSE f[k - 1])
          BY <4>1
        <4> HIDE DEF g
        <4>4. QED
          BY <4>1, <4>2, <4>3
      <3>3. QED
        BY <3>1, <3>2
    <2>3. IsSame(g, n + 1)
      <3> DEFINE h == [k \in 0..(n + 1) |-> [p \in ValuesAt(k) \X ValuesAt(k) |-> ReadAlike(IF k = 0 THEN <<>> ELSE g[k - 1], p[1], p[2])]]
      <3>1. g = [k \in 0..(n + 1) |-> g[k]]
        OBVIOUS
      <3> HIDE DEF g
      <3>2. g = h
        BY <2>2, <3>1
      <3>3. QED
        BY <3>2 DEF IsSame
    <2>4. QED
      BY <2>3
  <1>3. Found \subseteq Nat
    OBVIOUS
  <1>4. N \in Found
    <2> HIDE DEF Found
    <2>1. QED
      BY <1>1, <1>2, <1>3, UpToAll
  <1>5. QED
    BY <1>4

-----------------------------------------------------------------------------
(* What the definitions by depth say of one level. *)

LEMMA ValuesLevel ==
    ASSUME NEW names, NEW n \in 0..Depth
    PROVE  ValuesOf(names)[n] = IF n = 0 THEN Scalars ELSE Deeper(names, ValuesOf(names)[n - 1])
  <1> DEFINE f == CHOOSE g : IsValues(names, g, Depth)
  <1>1. IsValues(names, f, Depth)
    BY ValuesExists, SchemaAssumption
  <1>2. ValuesOf(names) = f
    BY DEF ValuesOf, IsValues, Deeper
  <1> HIDE DEF f
  <1>3. f[n] = IF n = 0 THEN Scalars ELSE Deeper(names, f[n - 1])
    BY <1>1 DEF IsValues
  <1>4. QED
    BY <1>2, <1>3

LEMMA SchemasLevel ==
    ASSUME NEW basic, NEW strictness, NEW n \in 0..Depth
    PROVE  SchemasOf(basic, strictness)[n] =
              IF n = 0 THEN basic ELSE Wider(basic, strictness, SchemasOf(basic, strictness)[n - 1])
  <1> DEFINE f == CHOOSE g : IsSchemas(basic, strictness, g, Depth)
  <1>1. IsSchemas(basic, strictness, f, Depth)
    BY SchemasExists, SchemaAssumption
  <1>2. SchemasOf(basic, strictness) = f
    BY DEF SchemasOf, IsSchemas, Wider
  <1> HIDE DEF f
  <1>3. f[n] = IF n = 0 THEN basic ELSE Wider(basic, strictness, f[n - 1])
    BY <1>1 DEF IsSchemas
  <1>4. QED
    BY <1>2, <1>3

LEMMA ValidatorsLevel ==
    ASSUME NEW n \in 0..Depth
    PROVE  Validators[n] = [p \in AllSchemas(n) \X ValueTerms |->
                               Compiled(IF n = 0 THEN <<>> ELSE Validators[n - 1], p[1], p[2])]
  <1> DEFINE f == CHOOSE g : IsValidators(g, Depth)
  <1>1. IsValidators(f, Depth)
    BY ValidatorsExists, SchemaAssumption
  <1>2. Validators = f
    BY DEF Validators, IsValidators, AllSchemas
  <1> HIDE DEF f
  <1>3. f[n] = [p \in AllSchemas(n) \X ValueTerms |->
                   Compiled(IF n = 0 THEN <<>> ELSE f[n - 1], p[1], p[2])]
    BY <1>1 DEF IsValidators
  <1>4. QED
    BY <1>2, <1>3

LEMMA TypedLevel ==
    ASSUME NEW n \in 0..Depth
    PROVE  InferSchema[n] = [p \in AllSchemas(n) \X ValueTerms |->
                                HasType(IF n = 0 THEN <<>> ELSE InferSchema[n - 1], p[1], p[2])]
  <1> DEFINE f == CHOOSE g : IsTyped(g, Depth)
  <1>1. IsTyped(f, Depth)
    BY TypedExists, SchemaAssumption
  <1>2. InferSchema = f
    BY DEF InferSchema, IsTyped, AllSchemas
  <1> HIDE DEF f
  <1>3. f[n] = [p \in AllSchemas(n) \X ValueTerms |->
                   HasType(IF n = 0 THEN <<>> ELSE f[n - 1], p[1], p[2])]
    BY <1>1 DEF IsTyped
  <1>4. QED
    BY <1>2, <1>3

LEMMA CopiedLevel ==
    ASSUME NEW n \in 0..Depth
    PROVE  FileCopied[n] = [p \in AllSchemas(n) \X ValueTerms |->
                                CopiesFile(IF n = 0 THEN <<>> ELSE FileCopied[n - 1], p[1], p[2])]
  <1> DEFINE f == CHOOSE g : IsCopied(g, Depth)
  <1>1. IsCopied(f, Depth)
    BY CopiedExists, SchemaAssumption
  <1>2. FileCopied = f
    BY DEF FileCopied, IsCopied, AllSchemas
  <1> HIDE DEF f
  <1>3. f[n] = [p \in AllSchemas(n) \X ValueTerms |->
                   CopiesFile(IF n = 0 THEN <<>> ELSE f[n - 1], p[1], p[2])]
    BY <1>1 DEF IsCopied
  <1>4. QED
    BY <1>2, <1>3

LEMMA SameLevel ==
    ASSUME NEW n \in 0..Depth
    PROVE  Same[n] = [p \in ValuesAt(n) \X ValuesAt(n) |->
                         ReadAlike(IF n = 0 THEN <<>> ELSE Same[n - 1], p[1], p[2])]
  <1> DEFINE f == CHOOSE g : IsSame(g, Depth)
  <1>1. IsSame(f, Depth)
    BY SameExists, SchemaAssumption
  <1>2. Same = f
    BY DEF Same, IsSame, ValuesAt
  <1> HIDE DEF f
  <1>3. f[n] = [p \in ValuesAt(n) \X ValuesAt(n) |->
                   ReadAlike(IF n = 0 THEN <<>> ELSE f[n - 1], p[1], p[2])]
    BY <1>1 DEF IsSame
  <1>4. QED
    BY <1>2, <1>3

LEMMA Grows ==
    ASSUME NEW f, NEW N \in Nat, \A n \in Nat : n < N => f[n] \subseteq f[n + 1]
    PROVE  \A n \in 0..N : f[n] \subseteq f[N]
  <1> DEFINE Below == {d \in Nat : \A n \in 0..N : n + d <= N => f[n] \subseteq f[n + d]}
  <1>1. Below \subseteq Nat /\ 0 \in Below
    OBVIOUS
  <1>2. ASSUME NEW d \in Nat, d \in Below
        PROVE  d + 1 \in Below
    <2>1. SUFFICES ASSUME NEW n \in 0..N, n + (d + 1) <= N
                   PROVE  f[n] \subseteq f[n + (d + 1)]
      OBVIOUS
    <2>2. f[n] \subseteq f[n + d] /\ f[n + d] \subseteq f[(n + d) + 1]
      BY <1>2, <2>1
    <2>3. (n + d) + 1 = n + (d + 1)
      OBVIOUS
    <2>4. QED
      BY <2>2, <2>3
  <1>3. \A d \in Nat : d \in Below
    <2> HIDE DEF Below
    <2>1. QED
      BY <1>1, <1>2, UpToAll
  <1>4. ASSUME NEW n \in 0..N
        PROVE  f[n] \subseteq f[N]
    <2>1. N - n \in Nat /\ n + (N - n) = N
      OBVIOUS
    <2>2. QED
      BY <1>3, <2>1
  <1>5. QED
    BY <1>4

LEMMA SeqsGrow ==
    ASSUME NEW S, NEW T, S \subseteq T
    PROVE  Seq(S) \subseteq Seq(T)
  OBVIOUS

LEMMA DeeperGrows ==
    ASSUME NEW names, NEW more, names \subseteq more, NEW V, NEW W, V \subseteq W
    PROVE  Deeper(names, V) \subseteq Deeper(more, W)
  <1>1. Seq(V) \subseteq Seq(W)
    BY SeqsGrow
  <1>2. [is : {"array"}, items : Seq(V)] \subseteq [is : {"array"}, items : Seq(W)]
    BY <1>1
  <1>3. Objects(names, V) \subseteq Objects(more, W)
    BY DEF Objects, OrUndefined
  <1>4. QED
    BY <1>2, <1>3 DEF Deeper

LEMMA ValuesGrow ==
    ASSUME NEW names, NEW n \in 0..Depth
    PROVE  /\ n # 0 => ValuesOf(names)[n - 1] \subseteq ValuesOf(names)[n]
           /\ ValuesOf(names)[n] \subseteq ValuesOf(names)[Depth]
           /\ Scalars \subseteq ValuesOf(names)[n]
  <1> DEFINE V == ValuesOf(names)
  <1> DEFINE Good == {k \in Nat : k < Depth => V[k] \subseteq V[k + 1]}
  <1>1. Good \subseteq Nat /\ 0 \in Good
    <2>1. V[0] = Scalars
      BY ValuesLevel, SchemaAssumption
    <2>2. 0 < Depth => V[0 + 1] = Deeper(names, V[0])
      BY ValuesLevel, SchemaAssumption, 0 + 1 - 1 = 0
    <2> HIDE DEF V
    <2>3. QED
      BY <2>1, <2>2 DEF Deeper
  <1>2. ASSUME NEW k \in Nat, k \in Good
        PROVE  k + 1 \in Good
    <2>1. SUFFICES ASSUME k + 1 < Depth
                   PROVE  V[k + 1] \subseteq V[(k + 1) + 1]
      OBVIOUS
    <2>2. V[k] \subseteq V[k + 1]
      BY <1>2, <2>1, SchemaAssumption
    <2>3. k + 1 \in 0..Depth /\ (k + 1) + 1 \in 0..Depth /\ (k + 1) - 1 = k /\ ((k + 1) + 1) - 1 = k + 1
            /\ k + 1 # 0 /\ (k + 1) + 1 # 0
      BY <2>1, SchemaAssumption
    <2>4. V[k + 1] = Deeper(names, V[k]) /\ V[(k + 1) + 1] = Deeper(names, V[k + 1])
      BY <2>3, ValuesLevel
    <2> HIDE DEF V
    <2>5. QED
      BY <2>2, <2>4, DeeperGrows
  <1>3. \A k \in Nat : k \in Good
    <2> HIDE DEF Good
    <2>1. QED
      BY <1>1, <1>2, UpToAll
  <1>4. \A k \in Nat : k < Depth => V[k] \subseteq V[k + 1]
    BY <1>3
  <1>5. n # 0 => n - 1 \in Nat /\ n - 1 < Depth /\ (n - 1) + 1 = n
    BY SchemaAssumption
  <1>6. V[n] \subseteq V[Depth]
    <2> HIDE DEF V
    <2>1. QED
      BY <1>4, Grows, SchemaAssumption
  <1>7. Scalars \subseteq V[n]
    BY ValuesLevel DEF Deeper
  <1>8. QED
    BY <1>4, <1>5, <1>6, <1>7

LEMMA FewerNames ==
    ASSUME NEW names, names \subseteq Names, NEW n \in 0..Depth
    PROVE  ValuesOf(names)[n] \subseteq ValuesOf(Names)[n]
  <1> DEFINE Good == {k \in Nat : k <= Depth => ValuesOf(names)[k] \subseteq ValuesOf(Names)[k]}
  <1>1. Good \subseteq Nat /\ 0 \in Good
    BY ValuesLevel, SchemaAssumption
  <1>2. ASSUME NEW k \in Nat, k \in Good
        PROVE  k + 1 \in Good
    <2>1. SUFFICES ASSUME k + 1 <= Depth
                   PROVE  ValuesOf(names)[k + 1] \subseteq ValuesOf(Names)[k + 1]
      OBVIOUS
    <2>2. k + 1 \in 0..Depth /\ (k + 1) - 1 = k /\ k + 1 # 0 /\ k <= Depth
      BY <2>1, SchemaAssumption
    <2>3. /\ ValuesOf(names)[k + 1] = Deeper(names, ValuesOf(names)[k])
          /\ ValuesOf(Names)[k + 1] = Deeper(Names, ValuesOf(Names)[k])
      BY <2>2, ValuesLevel
    <2>4. QED
      BY <1>2, <2>2, <2>3, DeeperGrows
  <1>3. \A k \in Nat : k \in Good
    <2> HIDE DEF Good
    <2>1. QED
      BY <1>1, <1>2, UpToAll
  <1>4. QED
    BY <1>3, SchemaAssumption

LEMMA FewerSchemas ==
    ASSUME NEW basic, NEW strictness, basic \subseteq BasicSchemas, strictness \subseteq BOOLEAN,
           NEW n \in 0..Depth
    PROVE  SchemasOf(basic, strictness)[n] \subseteq AllSchemas(n)
  <1> DEFINE S == SchemasOf(basic, strictness)
             T == SchemasOf(BasicSchemas, BOOLEAN)
             Good == {k \in Nat : k <= Depth => S[k] \subseteq T[k]}
  <1>1. Good \subseteq Nat /\ 0 \in Good
    BY SchemasLevel, SchemaAssumption
  <1>2. ASSUME NEW k \in Nat, k \in Good
        PROVE  k + 1 \in Good
    <2>1. SUFFICES ASSUME k + 1 <= Depth
                   PROVE  S[k + 1] \subseteq T[k + 1]
      OBVIOUS
    <2>2. k + 1 \in 0..Depth /\ (k + 1) - 1 = k /\ k + 1 # 0 /\ k <= Depth
      BY <2>1, SchemaAssumption
    <2>3. S[k + 1] = Wider(basic, strictness, S[k]) /\ T[k + 1] = Wider(BasicSchemas, BOOLEAN, T[k])
      BY <2>2, SchemasLevel
    <2>4. S[k] \subseteq T[k]
      BY <1>2, <2>2
    <2> HIDE DEF S, T
    <2>5. Seq(S[k]) \subseteq Seq(T[k])
      BY <2>4, SeqsGrow
    <2>6. /\ [kind : {"optional", "nullable", "array"}, items : S[k]]
                \subseteq [kind : {"optional", "nullable", "array"}, items : T[k]]
          /\ [kind : {"record"}, values : S[k]] \subseteq [kind : {"record"}, values : T[k]]
          /\ [kind : {"union"}, variants : Seq(S[k])] \subseteq [kind : {"union"}, variants : Seq(T[k])]
      BY <2>4, <2>5
    <2>7. [Names -> S[k] \cup {NoSchema}] \subseteq [Names -> T[k] \cup {NoSchema}]
      BY <2>4
    <2>8. [kind : {"object"}, properties : [Names -> S[k] \cup {NoSchema}], required : SUBSET Names, strict : strictness]
            \subseteq [kind : {"object"}, properties : [Names -> T[k] \cup {NoSchema}], required : SUBSET Names, strict : BOOLEAN]
      BY <2>7
    <2>9. QED
      BY <2>3, <2>6, <2>8 DEF Wider
  <1>3. \A k \in Nat : k \in Good
    <2> HIDE DEF Good
    <2>1. QED
      BY <1>1, <1>2, UpToAll
  <1>4. QED
    BY <1>3, SchemaAssumption DEF AllSchemas
-----------------------------------------------------------------------------
(* The parts of values and schemas. *)

LEMMA ScalarIs ==
    ASSUME NEW v \in Scalars
    PROVE  v.is \in {"string", "number", "boolean", "null", "function"}
  BY DEF Scalars, Null, NotANumber, Function

LEMMA ValueParts ==
    ASSUME NEW names, NEW m \in 0..Depth, NEW v \in ValuesOf(names)[m]
    PROVE  \/ v \in Scalars
           \/ m # 0 /\ v = File
           \/ m # 0 /\ v.is = "array" /\ v.items \in Seq(ValuesOf(names)[m - 1]) /\ v = Items(v.items)
           \/ /\ m # 0 /\ v.is = "object" /\ v = [is |-> "object", props |-> v.props]
              /\ v.props \in [Names -> OrUndefined(ValuesOf(names)[m - 1])]
              /\ \A k \in Names \ names : v.props[k] = Undefined
  <1> DEFINE V == ValuesOf(names)[m - 1]
  <1>1. CASE m = 0
    BY <1>1, ValuesLevel
  <1>2. CASE m # 0
    <2>1. v \in Deeper(names, V)
      BY <1>2, ValuesLevel
    <2> HIDE DEF V
    <2>2. CASE v \in Scalars \cup {File}
      BY <1>2, <2>2
    <2>3. CASE v \in [is : {"array"}, items : Seq(V)]
      <3>1. v.is = "array" /\ v.items \in Seq(V) /\ v = [is |-> "array", items |-> v.items]
        BY <2>3
      <3>2. QED
        BY <1>2, <3>1 DEF V, Items
    <2>4. CASE v \in Objects(names, V)
      <3>1. /\ v.is = "object" /\ v = [is |-> "object", props |-> v.props]
            /\ v.props \in [Names -> OrUndefined(V)]
            /\ \A k \in Names \ names : v.props[k] = Undefined
        BY <2>4 DEF Objects
      <3>2. QED
        BY <1>2, <3>1 DEF V
    <2>5. QED
      BY <2>1, <2>2, <2>3, <2>4 DEF Deeper
  <1>3. QED
    BY <1>1, <1>2

LEMMA ArrayParts ==
    ASSUME NEW names, NEW m \in 0..Depth, NEW v \in OrUndefined(ValuesOf(names)[m]), v.is = "array"
    PROVE  m # 0 /\ v.items \in Seq(ValuesOf(names)[m - 1]) /\ v = Items(v.items) /\ v # Undefined
  <1>1. v \in ValuesOf(names)[m] /\ v # Undefined
    BY DEF OrUndefined, Undefined
  <1>2. v \notin Scalars
    BY ScalarIs
  <1>3. File.is = "file" /\ \A x : Items(x).is = "array"
    BY DEF File, Items
  <1>4. QED
    BY <1>1, <1>2, <1>3, ValueParts

LEMMA ObjectParts ==
    ASSUME NEW names, NEW m \in 0..Depth, NEW v \in OrUndefined(ValuesOf(names)[m]), v.is = "object"
    PROVE  /\ m # 0 /\ v = [is |-> "object", props |-> v.props] /\ v # Undefined
           /\ v.props \in [Names -> OrUndefined(ValuesOf(names)[m - 1])]
           /\ \A k \in Names \ names : v.props[k] = Undefined
  <1>1. v \in ValuesOf(names)[m] /\ v # Undefined
    BY DEF OrUndefined, Undefined
  <1>2. v \notin Scalars
    BY ScalarIs
  <1>3. File.is = "file" /\ \A x : Items(x).is = "array"
    BY DEF File, Items
  <1>4. QED
    BY <1>1, <1>2, <1>3, ValueParts

LEMMA TermObject ==
    ASSUME NEW v, v \in ValueTerms, v.is = "object"
    PROVE  /\ Depth # 0 /\ v = [is |-> "object", props |-> v.props]
           /\ v.props \in [Names -> OrUndefined(ValuesOf(Names)[Depth - 1])]
  <1>1. Depth \in 0..Depth
    BY SchemaAssumption
  <1>2. v \in OrUndefined(ValuesOf(Names)[Depth])
    BY DEF ValueTerms
  <1>3. QED
    BY <1>1, <1>2, ObjectParts

LEMMA FileParts ==
    ASSUME NEW names, NEW m \in 0..Depth, NEW v \in OrUndefined(ValuesOf(names)[m]), v.is = "file"
    PROVE  m # 0 /\ v = File
  <1>1. v \in ValuesOf(names)[m] /\ v # Undefined
    BY DEF OrUndefined, Undefined
  <1>2. v \notin Scalars
    BY ScalarIs
  <1>3. File.is = "file" /\ \A x : Items(x).is = "array"
    BY DEF File, Items
  <1>4. QED
    BY <1>1, <1>2, <1>3, ValueParts

\* What an object reads at a name.
LEMMA Reads ==
    ASSUME NEW names, NEW m \in 0..Depth, NEW v \in OrUndefined(ValuesOf(names)[m]), IsObject(v),
           NEW k \in Names
    PROVE  /\ m # 0 /\ v # Undefined
           /\ Get(v, k) \in OrUndefined(ValuesOf(names)[m - 1])
           /\ Has(v, k) <=> Get(v, k) # Undefined
           /\ k \in OwnKeys(v) => k \in names /\ Has(v, k)
  <1> DEFINE V == ValuesOf(names)[m - 1]
  <1>1. m # 0 /\ v # Undefined
    BY ObjectParts, FileParts DEF IsObject, Undefined
  <1>2. Scalars \subseteq V
    <2>1. m - 1 \in 0..Depth
      BY <1>1, SchemaAssumption
    <2>2. QED
      BY <2>1, ValuesGrow
  <1>3. Function \in Scalars /\ Text("name") \in Scalars /\ Function # Undefined /\ Text("name") # Undefined
    <2>1. Function \in Scalars
      BY DEF Scalars
    <2>2. Text("name") \in [is : {"string"}, text : Texts]
      BY SchemaAssumption DEF Text
    <2>3. Function # Undefined /\ Text("name") # Undefined
      BY DEF Function, Text, Undefined
    <2>4. QED
      BY <2>1, <2>2, <2>3 DEF Scalars
  <1>4. CASE v.is = "object"
    <2>1. v.props \in [Names -> OrUndefined(V)] /\ \A n \in Names \ names : v.props[n] = Undefined
      BY <1>4, ObjectParts
    <2>2. OwnKeys(v) = {n \in Names : v.props[n] # Undefined} /\ v.is # "file"
      BY <1>4 DEF OwnKeys
    <2> HIDE DEF V
    <2>3. CASE k \in OwnKeys(v)
      <3>1. Get(v, k) = v.props[k] /\ Has(v, k)
        BY <2>3 DEF Get, Has
      <3>2. k \in names
        BY <2>1, <2>2, <2>3
      <3>3. QED
        BY <1>1, <2>1, <2>2, <2>3, <3>1, <3>2 DEF V
    <2>4. CASE k \notin OwnKeys(v) /\ k = Inherited
      <3>1. Get(v, k) = Function /\ Has(v, k)
        BY <2>4 DEF Get, Has
      <3>2. QED
        BY <1>1, <1>2, <1>3, <2>4, <3>1 DEF V, OrUndefined
    <2>5. CASE k \notin OwnKeys(v) /\ k # Inherited
      <3>1. Get(v, k) = Undefined /\ ~Has(v, k)
        BY <2>2, <2>5 DEF Get, Has
      <3>2. QED
        BY <1>1, <2>5, <3>1 DEF V, OrUndefined
    <2>6. QED
      BY <2>3, <2>4, <2>5
  <1>5. CASE v.is = "file"
    <2>1. OwnKeys(v) = {} /\ Inherited # "name"
      BY <1>5 DEF OwnKeys, Inherited
    <2>2. CASE k = Inherited
      <3>1. Get(v, k) = Function /\ Has(v, k)
        BY <2>1, <2>2 DEF Get, Has
      <3>2. QED
        BY <1>1, <1>2, <1>3, <2>1, <3>1 DEF V, OrUndefined
    <2>3. CASE k = "name"
      <3>1. Get(v, k) = Text("name") /\ Has(v, k)
        BY <1>5, <2>1, <2>3 DEF Get, Has
      <3>2. QED
        BY <1>1, <1>2, <1>3, <2>1, <3>1 DEF V, OrUndefined
    <2>4. CASE k # Inherited /\ k # "name"
      <3>1. Get(v, k) = Undefined /\ ~Has(v, k)
        BY <2>1, <2>4 DEF Get, Has
      <3>2. QED
        BY <1>1, <2>1, <3>1 DEF V, OrUndefined
    <2>5. QED
      BY <2>2, <2>3, <2>4
  <1>6. QED
    BY <1>4, <1>5 DEF IsObject

LEMMA SchemaParts ==
    ASSUME NEW basic, basic \subseteq BasicSchemas, NEW strictness, NEW n \in 0..Depth,
           NEW s \in SchemasOf(basic, strictness)[n]
    PROVE  /\ s.kind \notin Composed => s \in basic
           /\ s.kind \in Composed => n # 0
           /\ s.kind \in {"optional", "nullable", "array"} => s.items \in SchemasOf(basic, strictness)[n - 1]
           /\ s.kind = "record" => s.values \in SchemasOf(basic, strictness)[n - 1]
           /\ s.kind = "union" => s.variants \in Seq(SchemasOf(basic, strictness)[n - 1])
           /\ s.kind = "object" => /\ s.strict \in strictness
                                   /\ \A k \in PropertyKeys(s) :
                                         s.properties[k] \in SchemasOf(basic, strictness)[n - 1]
           /\ s # NoSchema
  <1> DEFINE S == SchemasOf(basic, strictness)[n - 1]
  <1>1. \A x \in basic : x.kind \notin Composed \cup {"none"}
    BY SchemaAssumption
  <1>2. CASE n = 0
    BY <1>1, <1>2, SchemasLevel DEF Composed, NoSchema
  <1>3. CASE n # 0
    <2>1. s \in Wider(basic, strictness, S)
      BY <1>3, SchemasLevel
    <2> HIDE DEF S
    <2>2. CASE s \in basic
      BY <1>1, <1>3, <2>2 DEF Composed, NoSchema
    <2>3. CASE s \in [kind : {"optional", "nullable", "array"}, items : S]
      <3>1. s.kind \in {"optional", "nullable", "array"} /\ s.items \in S
        BY <2>3
      <3>2. QED
        BY <1>3, <3>1 DEF Composed, NoSchema, S
    <2>4. CASE s \in [kind : {"record"}, values : S]
      <3>1. s.kind = "record" /\ s.values \in S
        BY <2>4
      <3>2. QED
        BY <1>3, <3>1 DEF Composed, NoSchema, S
    <2>5. CASE s \in [kind : {"union"}, variants : Seq(S)]
      <3>1. s.kind = "union" /\ s.variants \in Seq(S)
        BY <2>5
      <3>2. QED
        BY <1>3, <3>1 DEF Composed, NoSchema, S
    <2>6. CASE s \in [kind : {"object"}, properties : [Names -> S \cup {NoSchema}], required : SUBSET Names, strict : strictness]
      <3>1. s.kind = "object" /\ s.strict \in strictness /\ s.properties \in [Names -> S \cup {NoSchema}]
        BY <2>6
      <3>2. \A k \in PropertyKeys(s) : s.properties[k] \in S
        BY <3>1 DEF PropertyKeys
      <3>3. QED
        BY <1>3, <3>1, <3>2 DEF Composed, NoSchema, S
    <2>7. QED
      BY <2>1, <2>2, <2>3, <2>4, <2>5, <2>6 DEF Wider
  <1>4. QED
    BY <1>2, <1>3

\* A level of the validators, of the types, of FileCopied and of Same, applied.
LEMMA ValidatorsAt ==
    ASSUME NEW n \in 0..Depth, NEW s \in AllSchemas(n), NEW v \in ValueTerms
    PROVE  Validators[n][<<s, v>>] = Compiled(IF n = 0 THEN <<>> ELSE Validators[n - 1], s, v)
  BY ValidatorsLevel

LEMMA TypedAt ==
    ASSUME NEW n \in 0..Depth, NEW s \in AllSchemas(n), NEW v \in ValueTerms
    PROVE  InferSchema[n][<<s, v>>] <=> HasType(IF n = 0 THEN <<>> ELSE InferSchema[n - 1], s, v)
  <1>1. HasType(IF n = 0 THEN <<>> ELSE InferSchema[n - 1], s, v) \in BOOLEAN
    BY DEF HasType
  <1>2. InferSchema[n][<<s, v>>] = HasType(IF n = 0 THEN <<>> ELSE InferSchema[n - 1], s, v)
    BY TypedLevel
  <1>3. QED
    BY <1>1, <1>2

LEMMA CopiedAt ==
    ASSUME NEW n \in 0..Depth, NEW s \in AllSchemas(n), NEW v \in ValueTerms
    PROVE  FileCopied[n][<<s, v>>] <=> CopiesFile(IF n = 0 THEN <<>> ELSE FileCopied[n - 1], s, v)
  <1>1. CopiesFile(IF n = 0 THEN <<>> ELSE FileCopied[n - 1], s, v) \in BOOLEAN
    BY DEF CopiesFile
  <1>2. FileCopied[n][<<s, v>>] = CopiesFile(IF n = 0 THEN <<>> ELSE FileCopied[n - 1], s, v)
    BY CopiedLevel
  <1>3. QED
    BY <1>1, <1>2

LEMMA SameAt ==
    ASSUME NEW n \in 0..Depth, NEW v \in ValuesAt(n), NEW w \in ValuesAt(n)
    PROVE  Same[n][<<v, w>>] <=> ReadAlike(IF n = 0 THEN <<>> ELSE Same[n - 1], v, w)
  <1>1. ReadAlike(IF n = 0 THEN <<>> ELSE Same[n - 1], v, w) \in BOOLEAN
    BY DEF ReadAlike
  <1>2. Same[n][<<v, w>>] = ReadAlike(IF n = 0 THEN <<>> ELSE Same[n - 1], v, w)
    BY SameLevel
  <1>3. QED
    BY <1>1, <1>2

LEMMA LevelsInTerms ==
    ASSUME NEW n \in 0..Depth
    PROVE  ValuesAt(n) \subseteq ValueTerms
  BY ValuesGrow DEF ValuesAt, ValueTerms, OrUndefined

LEMMA SameReflexive ==
    ASSUME NEW m \in 0..Depth, NEW v \in ValuesAt(m)
    PROVE  Same[m][<<v, v>>]
  <1> DEFINE Good == {n \in Nat : n <= Depth => \A w \in ValuesAt(n) : Same[n][<<w, w>>]}
  <1>1. ASSUME NEW n \in 0..Depth, NEW w \in ValuesAt(n),
               n # 0 => \A u \in ValuesAt(n - 1) : Same[n - 1][<<u, u>>]
        PROVE  Same[n][<<w, w>>]
    <2>1. CASE IsObject(w)
      <3>1. n # 0 /\ \A k \in Names : Get(w, k) \in ValuesAt(n - 1)
        BY <1>1, <2>1, Reads, SchemaAssumption DEF ValuesAt
      <3>2. OwnKeys(w) \subseteq Names
        BY DEF OwnKeys
      <3>3. \A k \in OwnKeys(w) \cup OwnKeys(w) : Same[n - 1][<<Get(w, k), Get(w, k)>>]
        BY <1>1, <3>1, <3>2
      <3>4. ReadAlike(IF n = 0 THEN <<>> ELSE Same[n - 1], w, w)
        BY <2>1, <3>1, <3>3 DEF ReadAlike
      <3>5. QED
        BY <3>4, SameAt
    <2>2. CASE ~IsObject(w) /\ w.is = "array"
      <3>1. n # 0 /\ w.items \in Seq(ValuesOf(Names)[n - 1])
        BY <2>2, ArrayParts DEF ValuesAt
      <3>2. \A i \in DOMAIN w.items : w.items[i] \in ValuesAt(n - 1)
        BY <3>1 DEF ValuesAt, OrUndefined
      <3>3. ReadAlike(IF n = 0 THEN <<>> ELSE Same[n - 1], w, w)
        BY <1>1, <2>2, <3>1, <3>2 DEF ReadAlike
      <3>4. QED
        BY <3>3, SameAt
    <2>3. CASE ~IsObject(w) /\ w.is # "array"
      <3>1. ReadAlike(IF n = 0 THEN <<>> ELSE Same[n - 1], w, w)
        BY <2>3 DEF ReadAlike
      <3>2. QED
        BY <3>1, SameAt
    <2>4. QED
      BY <2>1, <2>2, <2>3
  <1>2. Good \subseteq Nat /\ 0 \in Good
    BY <1>1, SchemaAssumption
  <1>3. ASSUME NEW n \in Nat, n \in Good
        PROVE  n + 1 \in Good
    BY <1>1, <1>3, SchemaAssumption, (n + 1) - 1 = n
  <1>4. \A n \in Nat : n \in Good
    <2> HIDE DEF Good
    <2>1. QED
      BY <1>2, <1>3, UpToAll
  <1>5. QED
    BY <1>4, SchemaAssumption
-----------------------------------------------------------------------------
(* What one level of the validators makes of a value, when the level below *)
(* it does what it should.                                                  *)

Untransformeds(n) == SchemasOf({s \in BasicSchemas : s.kind # "standard"}, BOOLEAN)[n]
Unstrippeds(n) == SchemasOf(BasicSchemas, {FALSE})[n]
Unshadoweds(m) == OrUndefined(ValuesOf(Names \ {Inherited})[m])

Passes(n, s, v) == s \in Untransformeds(n) /\ ~FileCopied[n][<<s, v>>]

\* w is what may come out for v.
Sound(n, m, s, v, w) ==
    /\ w \in ValuesAt(m)
    /\ w = Undefined => v = Undefined
    /\ InferSchema[n][<<s, w>>]
    /\ Passes(n, s, v) => Validators[n][<<s, w>>] = Ok(Validators[n][<<s, w>>].value)
    /\ Passes(n, s, v) /\ (s \in Unstrippeds(n) \/ v \in Unshadoweds(m)) => Same[m][<<w, v>>]

Fine(n, m, s, v) ==
    LET r == Validators[n][<<s, v>>]
    IN r = Fail \/ (r = Ok(r.value) /\ Sound(n, m, s, v, r.value))

AllFine(n) == \A m \in 0..Depth : \A s \in AllSchemas(n) : \A v \in ValuesAt(m) : Fine(n, m, s, v)

LEMMA OkOrFail ==
    /\ Fail.success = FALSE
    /\ \A x : Ok(x).success = TRUE /\ Ok(x).value = x /\ Ok(x) # Fail
  BY DEF Ok, Fail

LEMMA BasicOut ==
    ASSUME NEW s, NEW v
    PROVE  \/ compileBasic(s, v) = Fail
           \/ /\ s.kind # "standard" /\ compileBasic(s, v) = Ok(v)
              /\ s.kind = "string" => v.is = "string"
              /\ s.kind \in {"number", "integer"} => v.is = "number"
              /\ s.kind = "boolean" => v.is = "boolean"
              /\ s.kind = "literal" => v = s.literal
              /\ s.kind = "enum" => v \in s.literals
           \/ /\ s.kind = "standard" /\ v \in DOMAIN s.outputs
              /\ \/ compileBasic(s, v) = Ok(v)
                 \/ /\ s.outputs[v] \notin {Null, Undefined}
                    /\ compileBasic(s, v) = Ok(s.outputs[v])
  <1>1. CASE s.kind = "string"
    BY <1>1 DEF compileBasic, Check, IsText
  <1>2. CASE s.kind = "number"
    BY <1>2 DEF compileBasic, Check, IsNumber
  <1>3. CASE s.kind = "integer"
    BY <1>3 DEF compileBasic, Check, IsInteger
  <1>4. CASE s.kind \in {"boolean", "literal", "enum", "file", "files"}
    BY <1>4 DEF compileBasic, Check
  <1>5. CASE s.kind = "typebox"
    BY <1>5 DEF compileBasic, fromTypeBoxLike, Check
  <1>6. CASE s.kind = "standard"
    BY <1>6 DEF compileBasic, fromStandardSchema
  <1>7. CASE s.kind \notin {"string", "number", "integer", "boolean", "literal", "enum", "file", "files",
                            "typebox", "standard"}
    BY <1>7 DEF compileBasic
  <1>8. QED
    BY <1>1, <1>2, <1>3, <1>4, <1>5, <1>6, <1>7

LEMMA BasicFine ==
    ASSUME NEW n \in 0..Depth, NEW m \in 0..Depth, NEW s \in AllSchemas(n), NEW v \in ValuesAt(m),
           s.kind \notin Composed
    PROVE  Fine(n, m, s, v)
  <1> DEFINE r == Validators[n][<<s, v>>]
  <1>1. ASSUME NEW x \in ValueTerms
        PROVE  Validators[n][<<s, x>>] = compileBasic(s, x)
    BY ValidatorsAt DEF Compiled, Composed
  <1>2. v \in ValueTerms
    BY LevelsInTerms
  <1>3. r = compileBasic(s, v)
    BY <1>1, <1>2
  <1>4. s \in BasicSchemas
    BY SchemaParts DEF AllSchemas
  <1>5. ASSUME s.kind # "standard", r = Ok(v), NEW x \in ValueTerms, HasType(<<>>, s, v)
        PROVE  Fine(n, m, s, v)
    <2>1. r.value = v
      BY <1>5, OkOrFail
    <2>2. InferSchema[n][<<s, v>>]
      BY <1>2, <1>5, TypedAt DEF HasType, Composed
    <2>3. Same[m][<<v, v>>]
      BY SameReflexive
    <2>4. Validators[n][<<s, v>>] = Ok(Validators[n][<<s, v>>].value)
      BY <1>5, <2>1
    <2>5. QED
      BY <1>5, <2>1, <2>2, <2>3, <2>4 DEF Fine, Sound
  <1>6. ASSUME s.kind = "standard", NEW w \in OrUndefined(Scalars) \cup {v}, r = Ok(w), w = Undefined => v = Undefined
        PROVE  Fine(n, m, s, v)
    <2>1. r.value = w
      BY <1>6, OkOrFail
    <2>2. w \in ValuesAt(m)
      BY ValuesGrow DEF ValuesAt, OrUndefined
    <2>3. w \in ValueTerms
      BY <2>2, LevelsInTerms
    <2>4. InferSchema[n][<<s, w>>]
      BY <1>6, <2>3, TypedAt DEF HasType, Composed
    <2>5. ~Passes(n, s, v)
      <3> DEFINE B == {x \in BasicSchemas : x.kind # "standard"}
      <3>1. B \subseteq BasicSchemas /\ s \notin B
        BY <1>6
      <3> HIDE DEF B
      <3>2. s \notin SchemasOf(B, BOOLEAN)[n]
        BY <3>1, SchemaParts
      <3>3. QED
        BY <3>2 DEF B, Untransformeds, Passes
    <2>6. QED
      BY <1>6, <2>1, <2>2, <2>4, <2>5 DEF Fine, Sound
  <1>7. CASE r = Fail
    BY <1>7 DEF Fine
  <1>8. CASE s.kind # "standard" /\ r # Fail
    <2>1. r = Ok(v) /\ HasType(<<>>, s, v)
      BY <1>3, <1>8, BasicOut DEF HasType, Composed
    <2>2. QED
      BY <1>2, <1>5, <1>8, <2>1
  <1>9. CASE s.kind = "standard" /\ r # Fail
    <2>1. PICK w : r = Ok(w) /\ (w = v \/ (v \in DOMAIN s.outputs /\ w = s.outputs[v] /\ w \notin {Null, Undefined}))
      BY <1>3, <1>9, BasicOut
    <2>2. w \in OrUndefined(Scalars) \cup {v}
      BY <1>4, <1>9, <2>1, SchemaAssumption
    <2>3. QED
      BY <1>6, <1>9, <2>1, <2>2
  <1>10. QED
    BY <1>7, <1>8, <1>9

\* The hypotheses on the level below, for a schema and a value in it.
LEMMA Below ==
    ASSUME NEW n \in 0..Depth, n # 0, AllFine(n - 1), NEW m \in 0..Depth, NEW s \in AllSchemas(n - 1),
           NEW v \in ValuesAt(m), Validators[n - 1][<<s, v>>].success
    PROVE  /\ Validators[n - 1][<<s, v>>] = Ok(Validators[n - 1][<<s, v>>].value)
           /\ Sound(n - 1, m, s, v, Validators[n - 1][<<s, v>>].value)
  BY OkOrFail DEF AllFine, Fine

\* An optional or a nullable schema, that lets one value pass and asks for others.
LEMMA WrappedFine ==
    ASSUME NEW n \in 0..Depth, NEW m \in 0..Depth, NEW s \in AllSchemas(n), NEW v \in ValuesAt(m),
           s.kind \in {"optional", "nullable"}, AllFine(n - 1)
    PROVE  Fine(n, m, s, v)
  <1> DEFINE Given == IF s.kind = "optional" THEN Undefined ELSE Null
             r == Validators[n][<<s, v>>]
             b == Validators[n - 1][<<s.items, v>>]
  <1>1. n # 0 /\ n - 1 \in 0..Depth /\ s.items \in AllSchemas(n - 1)
    <2>1. n # 0 /\ s.items \in AllSchemas(n - 1)
      BY SchemaParts DEF AllSchemas, Composed
    <2>2. QED
      BY <2>1, SchemaAssumption
  <1>2. ASSUME NEW x \in ValueTerms
        PROVE  Validators[n][<<s, x>>] = IF x = Given THEN Ok(x) ELSE Validators[n - 1][<<s.items, x>>]
    BY <1>1, ValidatorsAt DEF Compiled
  <1>3. ASSUME NEW x \in ValueTerms
        PROVE  InferSchema[n][<<s, x>>] <=> x = Given \/ InferSchema[n - 1][<<s.items, x>>]
    BY <1>1, TypedAt DEF HasType
  <1>4. v \in ValueTerms
    BY LevelsInTerms
  <1>5. CASE v = Given
    <2>1. r = Ok(v) /\ r.value = v
      BY <1>2, <1>4, <1>5, OkOrFail
    <2>2. QED
      BY <1>3, <1>4, <1>5, <2>1, SameReflexive DEF Fine, Sound
  <1>6. CASE v # Given
    <2>1. r = b
      BY <1>2, <1>4, <1>6
    <2>2. SUFFICES ASSUME b # Fail PROVE r = Ok(r.value) /\ Sound(n, m, s, v, r.value)
      BY <2>1 DEF Fine
    <2>3. b = Ok(b.value) /\ Sound(n - 1, m, s.items, v, b.value)
      BY <1>1, <2>2 DEF AllFine, Fine
    <2> DEFINE w == b.value
    <2>4. w \in ValuesAt(m) /\ w \in ValueTerms /\ (w = Undefined => v = Undefined)
      BY <2>3, LevelsInTerms DEF Sound
    <2>5. InferSchema[n][<<s, w>>]
      BY <1>3, <2>3, <2>4 DEF Sound
    <2>6. /\ Passes(n, s, v) => Passes(n - 1, s.items, v)
          /\ s \in Unstrippeds(n) => s.items \in Unstrippeds(n - 1)
      <3>1. FileCopied[n - 1][<<s.items, v>>] => FileCopied[n][<<s, v>>]
        BY <1>1, <1>4, CopiedAt DEF CopiesFile
      <3>2. /\ s \in Untransformeds(n) => s.items \in Untransformeds(n - 1)
            /\ s \in Unstrippeds(n) => s.items \in Unstrippeds(n - 1)
        BY SchemaParts DEF Untransformeds, Unstrippeds
      <3>3. QED
        BY <3>1, <3>2 DEF Passes
    <2>7. Passes(n, s, v) => Validators[n][<<s, w>>] = Ok(Validators[n][<<s, w>>].value)
      <3>1. CASE w = Given
        <4>1. Validators[n][<<s, w>>] = Ok(w)
          BY <1>2, <2>4, <3>1
        <4>2. QED
          BY <4>1, OkOrFail
      <3>2. CASE w # Given
        BY <1>2, <2>3, <2>4, <2>6, <3>2 DEF Sound
      <3>3. QED
        BY <3>1, <3>2
    <2>8. Passes(n, s, v) /\ (s \in Unstrippeds(n) \/ v \in Unshadoweds(m)) => Same[m][<<w, v>>]
      BY <2>3, <2>6 DEF Sound
    <2>9. QED
      BY <2>1, <2>3, <2>4, <2>5, <2>7, <2>8 DEF Sound
  <1>7. QED
    BY <1>5, <1>6
LEMMA UnionOut ==
    ASSUME NEW n \in 0..Depth, NEW s \in AllSchemas(n), s.kind = "union", NEW x \in ValueTerms
    PROVE  \/ /\ Validators[n][<<s, x>>] = Fail
              /\ \A i \in DOMAIN s.variants : ~Validators[n - 1][<<s.variants[i], x>>].success
           \/ \E i \in DOMAIN s.variants :
                 /\ Validators[n - 1][<<s.variants[i], x>>].success
                 /\ Validators[n][<<s, x>>] = Validators[n - 1][<<s.variants[i], x>>]
  <1> DEFINE f == Validators[n - 1]
             results == [i \in DOMAIN s.variants |-> f[<<s.variants[i], x>>]]
             accepting == {i \in DOMAIN results : results[i].success}
             first == CHOOSE i \in accepting : \A j \in accepting : i <= j
  <1>1. n # 0 /\ s.variants \in Seq(AllSchemas(n - 1))
    BY SchemaParts DEF AllSchemas, Composed
  <1>2. Validators[n][<<s, x>>] = compileUnion(f, s, x)
    BY <1>1, ValidatorsAt DEF Compiled
  <1>3. compileUnion(f, s, x) = IF accepting = {} THEN Fail ELSE results[first]
    BY DEF compileUnion
  <1>4. CASE accepting = {}
    BY <1>2, <1>3, <1>4
  <1>5. CASE accepting # {}
    <2>1. accepting \subseteq Nat
      BY <1>1
    <2>2. \E i \in accepting : \A j \in accepting : i <= j
      <3> HIDE DEF accepting
      <3>1. QED
        BY <1>5, <2>1, LeastNatural
    <2>3. first \in accepting
      <3> HIDE DEF accepting
      <3>1. QED
        BY <2>2
    <2>4. first \in DOMAIN s.variants /\ f[<<s.variants[first], x>>].success /\ results[first] = f[<<s.variants[first], x>>]
      <3> HIDE DEF first
      <3>1. QED
        BY <2>3
    <2> HIDE DEF first, results, accepting
    <2>5. QED
      BY <1>2, <1>3, <1>5, <2>4
  <1>6. QED
    BY <1>4, <1>5

LEMMA UnionFine ==
    ASSUME NEW n \in 0..Depth, NEW m \in 0..Depth, NEW s \in AllSchemas(n), NEW v \in ValuesAt(m),
           s.kind = "union", AllFine(n - 1)
    PROVE  Fine(n, m, s, v)
  <1>1. n # 0 /\ n - 1 \in 0..Depth
    <2>1. n # 0
      BY SchemaParts DEF AllSchemas, Composed
    <2>2. QED
      BY <2>1, SchemaAssumption
  <1>2. \A i \in DOMAIN s.variants : s.variants[i] \in AllSchemas(n - 1)
    <2>1. s.variants \in Seq(AllSchemas(n - 1))
      BY SchemaParts DEF AllSchemas
    <2>2. QED
      BY <2>1
  <1>3. v \in ValueTerms
    BY LevelsInTerms
  <1>4. SUFFICES ASSUME Validators[n][<<s, v>>] # Fail
                 PROVE  Fine(n, m, s, v)
    BY DEF Fine
  <1>5. PICK i \in DOMAIN s.variants :
               /\ Validators[n - 1][<<s.variants[i], v>>].success
               /\ Validators[n][<<s, v>>] = Validators[n - 1][<<s.variants[i], v>>]
    BY <1>3, <1>4, UnionOut
  <1> DEFINE w == Validators[n][<<s, v>>].value
  <1>6. Validators[n][<<s, v>>] = Ok(w) /\ Sound(n - 1, m, s.variants[i], v, w)
    BY <1>1, <1>2, <1>5, Below
  <1> HIDE DEF w
  <1>7. w \in ValuesAt(m) /\ w \in ValueTerms /\ (w = Undefined => v = Undefined)
    BY <1>6, LevelsInTerms DEF Sound
  <1>8. InferSchema[n][<<s, w>>]
    <2>1. InferSchema[n - 1][<<s.variants[i], w>>]
      BY <1>6 DEF Sound
    <2>2. QED
      BY <1>1, <1>7, <2>1, TypedAt DEF HasType
  <1>9. /\ Passes(n, s, v) => Passes(n - 1, s.variants[i], v)
        /\ s \in Unstrippeds(n) => s.variants[i] \in Unstrippeds(n - 1)
    <2>1. s \in Untransformeds(n) => s.variants \in Seq(Untransformeds(n - 1))
      BY SchemaParts DEF Untransformeds
    <2>2. s \in Unstrippeds(n) => s.variants \in Seq(Unstrippeds(n - 1))
      BY SchemaParts DEF Unstrippeds
    <2>3. FileCopied[n - 1][<<s.variants[i], v>>] => FileCopied[n][<<s, v>>]
      BY <1>1, <1>3, CopiedAt DEF CopiesFile
    <2>4. QED
      BY <2>1, <2>2, <2>3 DEF Passes
  <1>10. ASSUME Passes(n, s, v)
         PROVE  Validators[n][<<s, w>>] = Ok(Validators[n][<<s, w>>].value)
    <2>1. Validators[n - 1][<<s.variants[i], w>>].success
      BY <1>6, <1>9, <1>10, OkOrFail DEF Sound
    <2>2. PICK j \in DOMAIN s.variants :
                 /\ Validators[n - 1][<<s.variants[j], w>>].success
                 /\ Validators[n][<<s, w>>] = Validators[n - 1][<<s.variants[j], w>>]
      BY <1>7, <2>1, UnionOut
    <2>3. QED
      BY <1>1, <1>2, <1>7, <2>2, Below
  <1>11. Passes(n, s, v) /\ (s \in Unstrippeds(n) \/ v \in Unshadoweds(m)) => Same[m][<<w, v>>]
    BY <1>6, <1>9 DEF Sound
  <1>12. QED
    BY <1>6, <1>7, <1>8, <1>10, <1>11 DEF w, Fine, Sound

LEMMA ArrayFine ==
    ASSUME NEW n \in 0..Depth, NEW m \in 0..Depth, NEW s \in AllSchemas(n), NEW v \in ValuesAt(m),
           s.kind = "array", AllFine(n - 1)
    PROVE  Fine(n, m, s, v)
  <1> DEFINE f == Validators[n - 1]
             out(x) == [i \in DOMAIN x.items |-> f[<<s.items, x.items[i]>>]]
             values(x) == [i \in DOMAIN x.items |-> f[<<s.items, x.items[i]>>].value]
  <1>1. n # 0 /\ n - 1 \in 0..Depth /\ s.items \in AllSchemas(n - 1)
    <2>1. n # 0 /\ s.items \in AllSchemas(n - 1)
      BY SchemaParts DEF AllSchemas, Composed
    <2>2. QED
      BY <2>1, SchemaAssumption
  <1>2. ASSUME NEW x \in ValueTerms
        PROVE  Validators[n][<<s, x>>] = IF /\ x.is = "array"
                                            /\ \A i \in DOMAIN x.items : f[<<s.items, x.items[i]>>].success
                                         THEN Ok(Items(values(x))) ELSE Fail
    <2>1. Validators[n][<<s, x>>] = compileArray(f, s, x)
      BY <1>1, ValidatorsAt DEF Compiled
    <2>2. AllOk(out(x)) <=> \A i \in DOMAIN x.items : f[<<s.items, x.items[i]>>].success
      BY DEF AllOk
    <2>3. [i \in DOMAIN out(x) |-> out(x)[i].value] = values(x)
      OBVIOUS
    <2>4. QED
      BY <2>1, <2>2, <2>3 DEF compileArray
  <1>3. v \in ValueTerms
    BY LevelsInTerms
  <1>4. SUFFICES ASSUME v.is = "array", \A i \in DOMAIN v.items : f[<<s.items, v.items[i]>>].success,
                        Validators[n][<<s, v>>] = Ok(Items(values(v)))
                 PROVE  Fine(n, m, s, v)
    BY <1>2, <1>3 DEF Fine
  <1> DEFINE w == Items(values(v))
  <1>5. m # 0 /\ m - 1 \in 0..Depth /\ v.items \in Seq(ValuesOf(Names)[m - 1]) /\ v # Undefined
    BY <1>4, ArrayParts, SchemaAssumption DEF ValuesAt
  <1>6. \A i \in DOMAIN v.items : v.items[i] \in ValuesAt(m - 1) /\ v.items[i] # Undefined
    <2>1. Undefined \notin ValuesOf(Names)[m - 1]
      BY <1>5, ValueParts, ScalarIs DEF Undefined, File, Items
    <2>2. QED
      BY <1>5, <2>1 DEF ValuesAt, OrUndefined
  <1>7. \A i \in DOMAIN v.items : /\ f[<<s.items, v.items[i]>>] = Ok(values(v)[i])
                                  /\ Sound(n - 1, m - 1, s.items, v.items[i], values(v)[i])
    BY <1>1, <1>4, <1>5, <1>6, Below
  <1>8. /\ w.is = "array" /\ w.items = values(v) /\ DOMAIN w.items = DOMAIN v.items
        /\ \A i \in DOMAIN v.items : w.items[i] = values(v)[i]
    BY DEF Items
  <1>9. w \in ValuesAt(m) /\ w \in ValueTerms /\ Len(w.items) = Len(v.items)
    <2>1. \A i \in DOMAIN v.items : values(v)[i] \in ValuesOf(Names)[m - 1]
      BY <1>6, <1>7 DEF Sound, ValuesAt, OrUndefined
    <2>2. values(v) \in [1..Len(v.items) -> ValuesOf(Names)[m - 1]] /\ Len(v.items) \in Nat
      <3>1. DOMAIN v.items = 1..Len(v.items) /\ Len(v.items) \in Nat
        BY <1>5
      <3>2. values(v) = [i \in 1..Len(v.items) |-> values(v)[i]]
        BY <3>1
      <3> HIDE DEF values
      <3>3. QED
        BY <2>1, <3>1, <3>2
    <2>3. values(v) \in Seq(ValuesOf(Names)[m - 1]) /\ Len(values(v)) = Len(v.items)
      <3> HIDE DEF values
      <3>1. QED
        BY <2>2
    <2> HIDE DEF values
    <2>4. w \in [is : {"array"}, items : Seq(ValuesOf(Names)[m - 1])]
      BY <2>3 DEF Items
    <2>5. w \in ValuesAt(m)
      <3>1. w \in Deeper(Names, ValuesOf(Names)[m - 1])
        BY <2>4 DEF Deeper
      <3> HIDE DEF w
      <3>2. QED
        BY <1>5, <3>1, ValuesLevel DEF ValuesAt, OrUndefined
    <2>6. QED
      BY <1>8, <2>3, <2>5, LevelsInTerms
  <1> HIDE DEF w
  <1>10. InferSchema[n][<<s, w>>]
    <2>1. \A i \in DOMAIN w.items : InferSchema[n - 1][<<s.items, w.items[i]>>]
      BY <1>7, <1>8 DEF Sound
    <2>2. QED
      BY <1>1, <1>8, <1>9, <2>1, TypedAt DEF HasType
  <1>11. /\ Passes(n, s, v) => \A i \in DOMAIN v.items : Passes(n - 1, s.items, v.items[i])
         /\ s \in Unstrippeds(n) => s.items \in Unstrippeds(n - 1)
    <2>1. \A i \in DOMAIN v.items : FileCopied[n - 1][<<s.items, v.items[i]>>] => FileCopied[n][<<s, v>>]
      BY <1>1, <1>3, <1>4, CopiedAt DEF CopiesFile
    <2>2. /\ s \in Untransformeds(n) => s.items \in Untransformeds(n - 1)
          /\ s \in Unstrippeds(n) => s.items \in Unstrippeds(n - 1)
      BY SchemaParts DEF Untransformeds, Unstrippeds
    <2>3. QED
      BY <2>1, <2>2 DEF Passes
  <1>12. ASSUME Passes(n, s, v)
         PROVE  Validators[n][<<s, w>>] = Ok(Validators[n][<<s, w>>].value)
    <2>1. \A i \in DOMAIN w.items : f[<<s.items, w.items[i]>>].success
      <3>1. TAKE i \in DOMAIN w.items
      <3>2. Sound(n - 1, m - 1, s.items, v.items[i], w.items[i])
        BY <1>7, <1>8
      <3>3. f[<<s.items, w.items[i]>>] = Ok(f[<<s.items, w.items[i]>>].value)
        BY <1>8, <1>11, <1>12, <3>2 DEF Sound
      <3>4. QED
        BY <3>3, OkOrFail
    <2>2. Validators[n][<<s, w>>] = Ok(Items(values(w)))
      BY <1>2, <1>8, <1>9, <2>1
    <2>3. QED
      BY <2>2, OkOrFail
  <1>13. ASSUME Passes(n, s, v), s \in Unstrippeds(n) \/ v \in Unshadoweds(m)
         PROVE  Same[m][<<w, v>>]
    <2>1. v \in Unshadoweds(m) => \A i \in DOMAIN v.items : v.items[i] \in Unshadoweds(m - 1)
      BY <1>4, ArrayParts DEF Unshadoweds, OrUndefined
    <2>2. \A i \in DOMAIN w.items : Same[m - 1][<<w.items[i], v.items[i]>>]
      BY <1>7, <1>8, <1>11, <1>13, <2>1 DEF Sound
    <2>3. ReadAlike(Same[m - 1], w, v)
      BY <1>4, <1>8, <1>9, <2>2 DEF ReadAlike, IsObject
    <2>4. QED
      BY <1>5, <1>9, <2>3, SameAt
  <1>14. w # Undefined
    BY <1>8 DEF Undefined
  <1>15. QED
    BY <1>4, <1>9, <1>10, <1>12, <1>13, <1>14, OkOrFail DEF w, Fine, Sound
\* An object that is made of properties: what it has and reads.
LEMMA Made ==
    ASSUME NEW m \in 0..Depth, m # 0, NEW K, K \subseteq Names, NEW p,
           \A k \in K : p[k] \in ValuesAt(m - 1) /\ p[k] # Undefined, DOMAIN p = K
    PROVE  /\ Obj(p) \in ValuesAt(m) /\ Obj(p) # Undefined /\ IsObject(Obj(p)) /\ Obj(p).is = "object"
           /\ OwnKeys(Obj(p)) = K
           /\ \A k \in K : Get(Obj(p), k) = p[k]
           /\ \A k \in Names \ K : Get(Obj(p), k) = IF k = Inherited THEN Function ELSE Undefined
  <1> DEFINE props == [k \in Names |-> IF k \in DOMAIN p THEN p[k] ELSE Undefined]
             o == Obj(p)
             V == ValuesOf(Names)[m - 1]
  <1>1. o = [is |-> "object", props |-> props]
    BY DEF Obj
  <1>2. \A k \in Names : props[k] = IF k \in K THEN p[k] ELSE Undefined
    OBVIOUS
  <1>3. props \in [Names -> OrUndefined(V)]
    BY DEF ValuesAt, OrUndefined
  <1> HIDE DEF props
  <1>4. o.is = "object" /\ o.props = props
    BY <1>1
  <1>5. OwnKeys(o) = K
    BY <1>2, <1>4 DEF OwnKeys
  <1>6. o \in Objects(Names, V)
    BY <1>1, <1>3 DEF Objects
  <1>7. o \in ValuesAt(m)
    <2>1. o \in Deeper(Names, V)
      BY <1>6 DEF Deeper
    <2> HIDE DEF o
    <2>2. QED
      BY <2>1, ValuesLevel DEF ValuesAt, OrUndefined
  <1>8. o # Undefined /\ IsObject(o) /\ o.is = "object"
    BY <1>4 DEF Undefined, IsObject
  <1> HIDE DEF o
  <1>9. \A k \in K : Get(o, k) = p[k]
    BY <1>2, <1>4, <1>5 DEF Get
  <1>10. \A k \in Names \ K : Get(o, k) = IF k = Inherited THEN Function ELSE Undefined
    BY <1>4, <1>5 DEF Get
  <1>11. QED
    BY <1>5, <1>7, <1>8, <1>9, <1>10 DEF o

LEMMA RecordFine ==
    ASSUME NEW n \in 0..Depth, NEW m \in 0..Depth, NEW s \in AllSchemas(n), NEW v \in ValuesAt(m),
           s.kind = "record", AllFine(n - 1)
    PROVE  Fine(n, m, s, v)
  <1> DEFINE f == Validators[n - 1]
             out(x) == [k \in OwnKeys(x) |-> f[<<s.values, x.props[k]>>]]
             values(x) == [k \in OwnKeys(x) |-> f[<<s.values, x.props[k]>>].value]
  <1>1. n # 0 /\ n - 1 \in 0..Depth /\ s.values \in AllSchemas(n - 1)
    <2>1. n # 0 /\ s.values \in AllSchemas(n - 1)
      BY SchemaParts DEF AllSchemas, Composed
    <2>2. QED
      BY <2>1, SchemaAssumption
  <1>2. ASSUME NEW x \in ValueTerms
        PROVE  Validators[n][<<s, x>>] = IF /\ IsObject(x)
                                            /\ \A k \in OwnKeys(x) : f[<<s.values, x.props[k]>>].success
                                         THEN Ok(Obj(values(x))) ELSE Fail
    <2>1. Validators[n][<<s, x>>] = compileRecord(f, s, x)
      BY <1>1, ValidatorsAt DEF Compiled
    <2>2. AllOk(out(x)) <=> \A k \in OwnKeys(x) : f[<<s.values, x.props[k]>>].success
      BY DEF AllOk
    <2>3. [k \in DOMAIN out(x) |-> out(x)[k].value] = values(x)
      OBVIOUS
    <2>4. QED
      BY <2>1, <2>2, <2>3 DEF compileRecord
  <1>3. v \in ValueTerms
    BY LevelsInTerms
  <1>4. SUFFICES ASSUME IsObject(v), \A k \in OwnKeys(v) : f[<<s.values, v.props[k]>>].success,
                        Validators[n][<<s, v>>] = Ok(Obj(values(v)))
                 PROVE  Fine(n, m, s, v)
    BY <1>2, <1>3 DEF Fine
  <1> DEFINE w == Obj(values(v))
  <1>5. OwnKeys(v) \subseteq Names /\ \A k \in OwnKeys(v) : v.props[k] = Get(v, k)
    BY DEF OwnKeys, Get
  <1>6. \A k \in Names : /\ m # 0 /\ v # Undefined /\ Get(v, k) \in ValuesAt(m - 1)
                         /\ k \in OwnKeys(v) => Get(v, k) # Undefined
    BY <1>4, Reads DEF ValuesAt
  <1>7. m # 0 /\ v # Undefined /\ m - 1 \in 0..Depth
    BY <1>6, SchemaAssumption
  <1>8. \A k \in OwnKeys(v) : /\ f[<<s.values, Get(v, k)>>] = Ok(values(v)[k])
                              /\ Sound(n - 1, m - 1, s.values, Get(v, k), values(v)[k])
    BY <1>1, <1>4, <1>5, <1>6, <1>7, Below
  <1>9. \A k \in OwnKeys(v) : values(v)[k] \in ValuesAt(m - 1) /\ values(v)[k] # Undefined
    BY <1>5, <1>6, <1>8 DEF Sound
  <1>10. /\ w \in ValuesAt(m) /\ w # Undefined /\ IsObject(w) /\ w.is = "object" /\ OwnKeys(w) = OwnKeys(v)
         /\ \A k \in OwnKeys(v) : Get(w, k) = values(v)[k]
    <2>1. DOMAIN values(v) = OwnKeys(v)
      OBVIOUS
    <2> HIDE DEF values
    <2>2. QED
      BY <1>5, <1>7, <1>9, <2>1, Made
  <1>11. w \in ValueTerms
    BY <1>10, LevelsInTerms
  <1> HIDE DEF w
  <1>12. InferSchema[n][<<s, w>>]
    BY <1>11, TypedAt DEF HasType
  <1>13. /\ Passes(n, s, v) => v.is = "object" /\ \A k \in OwnKeys(v) : Passes(n - 1, s.values, Get(v, k))
         /\ s \in Unstrippeds(n) => s.values \in Unstrippeds(n - 1)
    <2>1. /\ v.is = "file" => FileCopied[n][<<s, v>>]
          /\ \A k \in OwnKeys(v) : FileCopied[n - 1][<<s.values, Get(v, k)>>] => FileCopied[n][<<s, v>>]
      BY <1>1, <1>3, CopiedAt DEF CopiesFile
    <2>2. /\ s \in Untransformeds(n) => s.values \in Untransformeds(n - 1)
          /\ s \in Unstrippeds(n) => s.values \in Unstrippeds(n - 1)
      BY SchemaParts DEF Untransformeds, Unstrippeds
    <2>3. QED
      BY <1>4, <2>1, <2>2 DEF Passes, IsObject
  <1>14. ASSUME Passes(n, s, v)
         PROVE  Validators[n][<<s, w>>] = Ok(Validators[n][<<s, w>>].value)
    <2>1. \A k \in OwnKeys(w) : f[<<s.values, w.props[k]>>].success
      <3>1. TAKE k \in OwnKeys(w)
      <3>2. Sound(n - 1, m - 1, s.values, Get(v, k), Get(w, k)) /\ w.props[k] = Get(w, k)
        BY <1>8, <1>10 DEF Get
      <3>3. f[<<s.values, w.props[k]>>] = Ok(f[<<s.values, w.props[k]>>].value)
        BY <1>10, <1>13, <1>14, <3>2 DEF Sound
      <3>4. QED
        BY <3>3, OkOrFail
    <2>2. Validators[n][<<s, w>>] = Ok(Obj(values(w)))
      BY <1>2, <1>10, <1>11, <2>1
    <2>3. QED
      BY <2>2, OkOrFail
  <1>15. ASSUME Passes(n, s, v), s \in Unstrippeds(n) \/ v \in Unshadoweds(m)
         PROVE  Same[m][<<w, v>>]
    <2>1. v \in Unshadoweds(m) => \A k \in OwnKeys(v) : Get(v, k) \in Unshadoweds(m - 1)
      BY <1>4, <1>5, Reads DEF Unshadoweds
    <2>2. \A k \in OwnKeys(w) \cup OwnKeys(v) : Same[m - 1][<<Get(w, k), Get(v, k)>>]
      BY <1>8, <1>10, <1>13, <1>15, <2>1 DEF Sound
    <2>3. ReadAlike(Same[m - 1], w, v)
      BY <1>4, <1>10, <1>13, <1>15, <2>2 DEF ReadAlike
    <2>4. QED
      BY <1>7, <1>10, <2>3, SameAt
  <1>16. QED
    BY <1>4, <1>10, <1>12, <1>14, <1>15, OkOrFail DEF w, Fine, Sound

\* The properties of an object schema that an input has, and what an accepted input
\* becomes.
Present(s, x) == {k \in PropertyKeys(s) : Has(x, k)}
OutValue(n, s, x, k) == Validators[n - 1][<<s.properties[k], Get(x, k)>>].value
OutProps(n, s, x) ==
    [k \in Present(s, x) \cup (IF s.strict THEN {} ELSE OwnKeys(x)) |->
        IF k \in Present(s, x) THEN OutValue(n, s, x, k) ELSE x.props[k]]

Accepted(n, s, x) ==
    /\ IsObject(x) /\ HasRequired(s, x) /\ NothingUnexpected(s, x)
    /\ \A k \in Present(s, x) : Validators[n - 1][<<s.properties[k], Get(x, k)>>].success

LEMMA ObjectOut ==
    ASSUME NEW n \in 0..Depth, NEW s \in AllSchemas(n), s.kind = "object", NEW x \in ValueTerms
    PROVE  /\ ~Accepted(n, s, x) => Validators[n][<<s, x>>] = Fail
           /\ Accepted(n, s, x) => Validators[n][<<s, x>>] = Ok(Validators[n][<<s, x>>].value)
           /\ Accepted(n, s, x) /\ (\A k \in Present(s, x) : OutValue(n, s, x, k) # Undefined) =>
                 Validators[n][<<s, x>>] = Ok(Obj(OutProps(n, s, x)))
  <1> DEFINE f == Validators[n - 1]
             results == [k \in Present(s, x) |-> f[<<s.properties[k], Get(x, k)>>]]
             kept == {k \in Present(s, x) : results[k].value # Undefined}
             out == [k \in kept |-> results[k].value]
  <1>1. n # 0 /\ s.strict \in BOOLEAN
    BY SchemaParts DEF AllSchemas, Composed
  <1>2. Validators[n][<<s, x>>] = compileObject(f, s, x)
    BY <1>1, ValidatorsAt DEF Compiled
  <1>3. AllOk(results) <=> \A k \in Present(s, x) : f[<<s.properties[k], Get(x, k)>>].success
    BY DEF AllOk
  <1>4. compileObject(f, s, x) = IF IsObject(x) /\ HasRequired(s, x) /\ NothingUnexpected(s, x) /\ AllOk(results)
                                 THEN Ok(Merged(s, x, out)) ELSE Fail
    BY DEF compileObject, Present
  <1>5. Validators[n][<<s, x>>] = IF Accepted(n, s, x) THEN Ok(Merged(s, x, out)) ELSE Fail
    BY <1>2, <1>3, <1>4 DEF Accepted
  <1>6. ASSUME \A k \in Present(s, x) : OutValue(n, s, x, k) # Undefined
        PROVE  Merged(s, x, out) = Obj(OutProps(n, s, x))
    <2>1. kept = Present(s, x)
      BY <1>6 DEF OutValue
    <2>2. out = [k \in Present(s, x) |-> OutValue(n, s, x, k)]
      BY <2>1 DEF OutValue
    <2> HIDE DEF out
    <2>3. CASE s.strict
      <3>1. OutProps(n, s, x) = out
        BY <2>2, <2>3 DEF OutProps
      <3>2. QED
        BY <2>3, <3>1 DEF Merged
    <2>4. CASE ~s.strict
      <3> DEFINE P == Present(s, x)
                 own == [k \in OwnKeys(x) |-> x.props[k]]
                 D == P \cup OwnKeys(x)
      <3>1. DOMAIN out = P /\ DOMAIN own = OwnKeys(x)
        BY <2>2
      <3>2. Over(out, own) = [k \in (DOMAIN out) \cup (DOMAIN own) |-> IF k \in DOMAIN out THEN out[k] ELSE own[k]]
        BY DEF Over
      <3>3. OutProps(n, s, x) = [k \in D |-> IF k \in P THEN OutValue(n, s, x, k) ELSE x.props[k]]
        BY <2>4 DEF OutProps
      <3>4. \A k \in D : (IF k \in P THEN out[k] ELSE own[k]) = IF k \in P THEN OutValue(n, s, x, k) ELSE x.props[k]
        BY <2>2
      <3>5. Over(out, own) = [k \in D |-> IF k \in P THEN out[k] ELSE own[k]]
        <4> HIDE DEF own, P
        <4>1. QED
          BY <3>1, <3>2
      <3>6. Over(out, own) = OutProps(n, s, x)
        <4> HIDE DEF own, P, D
        <4>1. QED
          BY <3>3, <3>4, <3>5
      <3>7. QED
        BY <2>4, <3>6 DEF Merged
    <2>5. QED
      BY <1>1, <2>3, <2>4
  <1> HIDE DEF out
  <1>7. QED
    BY <1>5, <1>6, OkOrFail

LEMMA ObjectFine ==
    ASSUME NEW n \in 0..Depth, NEW m \in 0..Depth, NEW s \in AllSchemas(n), NEW v \in ValuesAt(m),
           s.kind = "object", AllFine(n - 1)
    PROVE  Fine(n, m, s, v)
  <1> DEFINE P == Present(s, v)
             o(k) == OutValue(n, s, v, k)
             K == P \cup (IF s.strict THEN {} ELSE OwnKeys(v))
             w == Obj(OutProps(n, s, v))
  <1>1. /\ n # 0 /\ n - 1 \in 0..Depth /\ s.strict \in BOOLEAN
        /\ \A k \in PropertyKeys(s) : s.properties[k] \in AllSchemas(n - 1)
    <2>1. n # 0 /\ s.strict \in BOOLEAN /\ \A k \in PropertyKeys(s) : s.properties[k] \in AllSchemas(n - 1)
      BY SchemaParts DEF AllSchemas, Composed
    <2>2. QED
      BY <2>1, SchemaAssumption
  <1>2. v \in ValueTerms
    BY LevelsInTerms
  <1>3. PropertyKeys(s) \subseteq Names /\ P \subseteq PropertyKeys(s)
    BY DEF PropertyKeys, Present
  <1>4. SUFFICES ASSUME Accepted(n, s, v) PROVE Fine(n, m, s, v)
    BY <1>2, ObjectOut DEF Fine
  <1>5. IsObject(v) /\ HasRequired(s, v) /\ NothingUnexpected(s, v)
    BY <1>4 DEF Accepted
  <1>6. ASSUME NEW u \in ValuesAt(m), IsObject(u), NEW k \in Names
        PROVE  /\ m # 0 /\ u # Undefined /\ Get(u, k) \in ValuesAt(m - 1)
               /\ Has(u, k) <=> Get(u, k) # Undefined
               /\ k \in OwnKeys(u) => Has(u, k)
    BY <1>6, Reads DEF ValuesAt
  <1>7. m # 0 /\ v # Undefined /\ m - 1 \in 0..Depth
    <2>1. m # 0 /\ v # Undefined
      BY <1>5, <1>6, SchemaAssumption
    <2>2. QED
      BY <2>1, SchemaAssumption
  <1>8. OwnKeys(v) \subseteq Names /\ \A k \in OwnKeys(v) : v.props[k] = Get(v, k)
    BY DEF OwnKeys, Get
  <1>9. ASSUME NEW k \in P
        PROVE  /\ Validators[n - 1][<<s.properties[k], Get(v, k)>>] = Ok(o(k))
               /\ Sound(n - 1, m - 1, s.properties[k], Get(v, k), o(k))
    <2>1. k \in PropertyKeys(s) /\ k \in Names /\ Get(v, k) \in ValuesAt(m - 1)
      BY <1>3, <1>5, <1>6
    <2>2. Validators[n - 1][<<s.properties[k], Get(v, k)>>].success
      BY <1>4 DEF Accepted
    <2>3. QED
      BY <1>1, <1>7, <2>1, <2>2, Below DEF OutValue
  <1>10. \A k \in P : o(k) \in ValuesAt(m - 1) /\ o(k) # Undefined
    <2>1. TAKE k \in P
    <2>2. Get(v, k) # Undefined
      BY <1>3, <1>5, <1>6 DEF Present
    <2>3. QED
      BY <1>9, <2>2 DEF Sound
  <1>11. Validators[n][<<s, v>>] = Ok(w)
    BY <1>2, <1>4, <1>10, ObjectOut
  <1>12. /\ w \in ValuesAt(m) /\ w # Undefined /\ IsObject(w) /\ w.is = "object" /\ OwnKeys(w) = K
         /\ \A k \in P : Get(w, k) = o(k)
         /\ \A k \in K \ P : Get(w, k) = Get(v, k)
         /\ \A k \in Names \ K : Get(w, k) = IF k = Inherited THEN Function ELSE Undefined
    <2>1. K \subseteq Names
      BY <1>3, <1>8
    <2>2. DOMAIN OutProps(n, s, v) = K
      BY DEF OutProps
    <2>3. \A k \in K : OutProps(n, s, v)[k] = IF k \in P THEN o(k) ELSE Get(v, k)
      BY <1>8 DEF OutProps
    <2>4. \A k \in K : OutProps(n, s, v)[k] \in ValuesAt(m - 1) /\ OutProps(n, s, v)[k] # Undefined
      <3>1. TAKE k \in K
      <3>2. CASE k \in P
        BY <1>10, <2>3, <3>2
      <3>3. CASE k \notin P
        <4>1. k \in OwnKeys(v)
          BY <3>3
        <4>2. QED
          BY <1>5, <1>6, <1>8, <2>3, <3>3, <4>1
      <3>4. QED
        BY <3>2, <3>3
    <2> DEFINE p == OutProps(n, s, v)
    <2>5. /\ Obj(p) \in ValuesAt(m) /\ Obj(p) # Undefined /\ IsObject(Obj(p)) /\ Obj(p).is = "object" /\ OwnKeys(Obj(p)) = K
          /\ \A k \in K : Get(Obj(p), k) = p[k]
          /\ \A k \in Names \ K : Get(Obj(p), k) = IF k = Inherited THEN Function ELSE Undefined
      <3> HIDE DEF K, p
      <3>1. QED
        BY <1>7, <2>1, <2>2, <2>4, Made DEF p
    <2>6. P \subseteq K
      OBVIOUS
    <2> HIDE DEF K, P, o, p
    <2>7. QED
      BY <2>3, <2>5, <2>6 DEF p
  <1>13. w \in ValueTerms
    BY <1>12, LevelsInTerms
  <1> HIDE DEF w
  <1>14. \A k \in PropertyKeys(s) \ P : k \notin K /\ k # Inherited /\ Get(w, k) = Undefined /\ ~Has(w, k) /\ ~Has(v, k)
    <2>1. TAKE k \in PropertyKeys(s) \ P
    <2>2. ~Has(v, k) /\ k # Inherited
      BY DEF Present, Has
    <2>3. k \notin OwnKeys(v) /\ k \in Names
      BY <1>3, <1>5, <1>6, <2>2
    <2>4. k \notin K
      BY <2>3
    <2>5. Get(w, k) = Undefined
      BY <1>12, <2>2, <2>3, <2>4
    <2>6. QED
      BY <1>6, <1>12, <2>2, <2>3, <2>4, <2>5
  <1>15. \A k \in P : Has(w, k)
    BY <1>3, <1>6, <1>10, <1>12
  <1>16. Present(s, w) = P
    BY <1>3, <1>14, <1>15 DEF Present
  <1>17. InferSchema[n][<<s, w>>]
    <2>1. ASSUME NEW k \in PropertyKeys(s)
          PROVE  \/ InferSchema[n - 1][<<s.properties[k], Get(w, k)>>]
                 \/ k \notin RequiredKeys(s) /\ ~Has(w, k)
      <3>1. CASE k \in P
        BY <1>9, <1>12, <3>1 DEF Sound
      <3>2. CASE k \notin P
        <4>1. ~Has(w, k) /\ ~Has(v, k)
          BY <1>14, <3>2
        <4>2. QED
          BY <1>5, <4>1 DEF HasRequired
      <3>3. QED
        BY <3>1, <3>2
    <2>2. HasType(IF n = 0 THEN <<>> ELSE InferSchema[n - 1], s, w)
      BY <1>1, <1>12, <2>1 DEF HasType
    <2>3. QED
      BY <1>13, <2>2, TypedAt
  <1>18. /\ s \in Untransformeds(n) => \A k \in PropertyKeys(s) : s.properties[k] \in Untransformeds(n - 1)
         /\ s \in Unstrippeds(n) => ~s.strict /\ \A k \in PropertyKeys(s) : s.properties[k] \in Unstrippeds(n - 1)
    <2> DEFINE B == {x \in BasicSchemas : x.kind # "standard"}
    <2>1. ASSUME NEW basic, basic \subseteq BasicSchemas, NEW strictness, s \in SchemasOf(basic, strictness)[n]
          PROVE  /\ s.strict \in strictness
                 /\ \A k \in PropertyKeys(s) : s.properties[k] \in SchemasOf(basic, strictness)[n - 1]
      BY <2>1, SchemaParts
    <2>2. s \in SchemasOf(B, BOOLEAN)[n] =>
             \A k \in PropertyKeys(s) : s.properties[k] \in SchemasOf(B, BOOLEAN)[n - 1]
      BY <2>1
    <2>3. s \in SchemasOf(BasicSchemas, {FALSE})[n] =>
             ~s.strict /\ \A k \in PropertyKeys(s) : s.properties[k] \in SchemasOf(BasicSchemas, {FALSE})[n - 1]
      <3>1. SUFFICES ASSUME s \in SchemasOf(BasicSchemas, {FALSE})[n]
                     PROVE  /\ ~s.strict
                            /\ \A k \in PropertyKeys(s) : s.properties[k] \in SchemasOf(BasicSchemas, {FALSE})[n - 1]
        OBVIOUS
      <3>2. s.strict \in {FALSE}
        BY <2>1, <3>1
      <3>3. ~s.strict
        BY <3>2
      <3>4. QED
        BY <2>1, <3>1, <3>3
    <2>4. QED
      BY <2>2, <2>3 DEF Untransformeds, Unstrippeds
  <1>19. Passes(n, s, v) => /\ v.is = "object"
                            /\ \A k \in P : Passes(n - 1, s.properties[k], Get(v, k))
    <2>1. /\ v.is = "file" => FileCopied[n][<<s, v>>]
          /\ \A k \in P : FileCopied[n - 1][<<s.properties[k], Get(v, k)>>] => FileCopied[n][<<s, v>>]
      BY <1>1, <1>2, <1>3, <1>5, CopiedAt DEF CopiesFile
    <2>2. QED
      BY <1>3, <1>5, <1>18, <2>1 DEF Passes, IsObject
  <1>20. ASSUME Passes(n, s, v)
         PROVE  Validators[n][<<s, w>>] = Ok(Validators[n][<<s, w>>].value)
    <2>1. HasRequired(s, w)
      <3>1. SUFFICES ASSUME NEW k \in RequiredKeys(s) PROVE Has(w, k)
        BY DEF HasRequired
      <3>2. Has(v, k)
        BY <1>5, <3>1 DEF HasRequired
      <3>3. CASE k \in P \/ k = Inherited
        BY <1>15, <3>3 DEF Has
      <3>4. CASE k \notin P /\ k # Inherited
        <4>1. k \in OwnKeys(v) /\ k \notin PropertyKeys(s)
          BY <1>20, <1>19, <3>2, <3>4 DEF Has, Present
        <4>2. ~s.strict
          BY <1>5, <3>4, <4>1 DEF NothingUnexpected
        <4>3. k \in OwnKeys(w)
          BY <1>12, <4>1, <4>2
        <4>4. QED
          BY <4>3 DEF Has
      <3>5. QED
        BY <3>3, <3>4
    <2>2. NothingUnexpected(s, w)
      BY <1>3, <1>12 DEF NothingUnexpected
    <2>3. ASSUME NEW k \in Present(s, w)
          PROVE  Validators[n - 1][<<s.properties[k], Get(w, k)>>].success
      <3>1. k \in P /\ Get(w, k) = o(k) /\ k \in PropertyKeys(s)
        BY <1>3, <1>12, <1>16
      <3>2. Validators[n - 1][<<s.properties[k], Get(w, k)>>]
              = Ok(Validators[n - 1][<<s.properties[k], Get(w, k)>>].value)
        BY <1>9, <1>20, <1>19, <3>1 DEF Sound
      <3>3. QED
        BY <3>2, OkOrFail
    <2>4. Accepted(n, s, w)
      BY <1>12, <2>1, <2>2, <2>3 DEF Accepted
    <2>5. QED
      BY <1>13, <2>4, ObjectOut
  <1>21. ASSUME Passes(n, s, v), s \in Unstrippeds(n) \/ v \in Unshadoweds(m)
         PROVE  Same[m][<<w, v>>]
    <2>1. v \in Unshadoweds(m) => /\ \A k \in Names : Get(v, k) \in Unshadoweds(m - 1)
                                  /\ Inherited \notin OwnKeys(v)
      BY <1>5, Reads, SchemaAssumption DEF Unshadoweds
    <2>2. ASSUME NEW k \in OwnKeys(w) \cup OwnKeys(v)
          PROVE  Same[m - 1][<<Get(w, k), Get(v, k)>>]
      <3>1. CASE k \in P
        <4>1. k \in PropertyKeys(s) /\ k \in Names
          BY <1>3, <3>1
        <4>2. s.properties[k] \in Unstrippeds(n - 1) \/ Get(v, k) \in Unshadoweds(m - 1)
          BY <1>18, <1>21, <2>1, <4>1
        <4>3. QED
          BY <1>9, <1>12, <1>21, <1>19, <3>1, <4>1, <4>2 DEF Sound
      <3>2. CASE k \notin P
        <4>1. k \in OwnKeys(v) /\ k \in Names
          BY <1>8, <1>12, <3>2
        <4>2. Has(v, k)
          BY <1>5, <1>6, <4>1
        <4>3. k \notin PropertyKeys(s)
          BY <3>2, <4>2 DEF Present
        <4>4. ~s.strict
          <5>1. SUFFICES ASSUME s.strict PROVE FALSE
            OBVIOUS
          <5>2. k = Inherited
            BY <1>5, <4>1, <4>3, <5>1 DEF NothingUnexpected
          <5>3. QED
            BY <1>18, <1>21, <2>1, <4>1, <5>1, <5>2
        <4>5. Get(w, k) = Get(v, k)
          BY <1>12, <3>2, <4>1, <4>4
        <4>6. Get(v, k) \in ValuesAt(m - 1)
          BY <1>5, <1>6, <4>1
        <4>7. QED
          BY <1>7, <4>5, <4>6, SameReflexive
      <3>3. QED
        BY <3>1, <3>2
    <2>3. ReadAlike(Same[m - 1], w, v)
      BY <1>5, <1>12, <1>21, <1>19, <2>2 DEF ReadAlike
    <2>4. QED
      BY <1>7, <1>12, <2>3, SameAt
  <1>22. QED
    BY <1>11, <1>12, <1>17, <1>20, <1>21, OkOrFail DEF Fine, Sound

\* The validators do what they should at every depth.
LEMMA EveryLevelFine ==
    ASSUME NEW n \in 0..Depth
    PROVE  AllFine(n)
  <1> DEFINE Good == {k \in Nat : k <= Depth => AllFine(k)}
  <1>1. ASSUME NEW k \in 0..Depth, k # 0 => AllFine(k - 1)
        PROVE  AllFine(k)
    <2>1. SUFFICES ASSUME NEW m \in 0..Depth, NEW s \in AllSchemas(k), NEW v \in ValuesAt(m)
                   PROVE  Fine(k, m, s, v)
      BY DEF AllFine
    <2>2. CASE s.kind \notin Composed
      BY <2>2, BasicFine
    <2>3. CASE s.kind \in Composed
      <3>1. AllFine(k - 1)
        <4>1. k # 0
          BY <2>3, SchemaParts DEF AllSchemas
        <4>2. QED
          BY <1>1, <4>1
      <3>2. QED
        BY <2>3, <3>1, WrappedFine, ArrayFine, RecordFine, UnionFine, ObjectFine DEF Composed
    <2>4. QED
      BY <2>2, <2>3
  <1>2. Good \subseteq Nat /\ 0 \in Good
    BY <1>1, SchemaAssumption
  <1>3. ASSUME NEW k \in Nat, k \in Good
        PROVE  k + 1 \in Good
    BY <1>1, <1>3, SchemaAssumption, (k + 1) - 1 = k
  <1>4. \A k \in Nat : k \in Good
    <2> HIDE DEF Good
    <2>1. QED
      BY <1>2, <1>3, UpToAll
  <1>5. QED
    BY <1>4, SchemaAssumption

-----------------------------------------------------------------------------
(* The way of a configuration through the environment.                      *)

LEMMA ScalarParts ==
    ASSUME NEW m \in 0..Depth, NEW v \in ValuesOf(Names)[m]
    PROVE  /\ v.is = "string" => v = Text(v.text)
           /\ v.is = "number" /\ v # NotANumber => v = Halves(v.halves)
           /\ v.is = "boolean" => v = Bool(v.bool) /\ v.bool \in BOOLEAN
  <1>1. SUFFICES ASSUME v.is \in {"string", "number", "boolean"}
                 PROVE  /\ v.is = "string" => v = Text(v.text)
                        /\ v.is = "number" /\ v # NotANumber => v = Halves(v.halves)
                        /\ v.is = "boolean" => v = Bool(v.bool) /\ v.bool \in BOOLEAN
    OBVIOUS
  <1>2. v \in Scalars
    <2>1. v \in Scalars \/ v = File \/ v.is = "array" \/ v.is = "object"
      BY ValueParts
    <2>2. QED
      BY <1>1, <2>1 DEF File
  <1>3. CASE v \in [is : {"string"}, text : Texts]
    BY <1>3 DEF Text
  <1>4. CASE v \in [is : {"number"}, halves : Int]
    BY <1>4 DEF Halves
  <1>5. CASE v \in [is : {"boolean"}, bool : BOOLEAN]
    BY <1>5 DEF Bool
  <1>6. CASE v \in {Null, NotANumber, Function}
    BY <1>1, <1>6 DEF Null, NotANumber, Function
  <1>7. QED
    BY <1>2, <1>3, <1>4, <1>5, <1>6 DEF Scalars

\* A field's text says the value it was written for.
LEMMA CoercedBack ==
    ASSUME NEW m \in 0..Depth, NEW v \in ValuesOf(Names)[m], NEW field, Readable(field, v),
           NEW text \in Shown(v)
    PROVE  coerceEnvValue(field, text) = v
  <1>1. CASE field.kind = "boolean"
    <2>1. v.is = "boolean" /\ v = Bool(v.bool) /\ v.bool \in BOOLEAN
      BY <1>1, ScalarParts DEF Readable
    <2>2. text \in IF v.bool THEN TrueTexts ELSE {"0", "false"}
      BY <2>1 DEF Shown
    <2>3. (text \in TrueTexts) = v.bool
      BY <2>1, <2>2, ValidationAssumption
    <2>4. coerceEnvValue(field, text) = Bool(text \in TrueTexts)
      BY <1>1 DEF coerceEnvValue
    <2>5. QED
      BY <2>1, <2>3, <2>4
  <1>2. CASE field.kind \in {"number", "integer"}
    <2>1. v.is = "number" /\ v = Halves(v.halves)
      BY <1>2, ScalarParts DEF Readable
    <2>2. text \in DOMAIN NumberOf /\ NumberOf[text] = v.halves
      BY <2>1 DEF Shown
    <2>3. QED
      BY <1>2, <2>1, <2>2 DEF coerceEnvValue
  <1>3. CASE field.kind = "array"
    <2>1. v.is = "array"
      BY <1>3 DEF Readable
    <2>2. SplitAndTrimmed(text) = v
      BY <2>1 DEF Shown
    <2>3. QED
      BY <1>3, <2>2 DEF coerceEnvValue
  <1>4. CASE field.kind \notin {"boolean", "number", "integer", "array"}
    <2>1. v.is = "string" /\ v = Text(v.text)
      BY <1>4, ScalarParts DEF Readable
    <2>2. text = v.text
      BY <2>1 DEF Shown
    <2>3. QED
      BY <1>4, <2>1, <2>2 DEF coerceEnvValue
  <1>5. QED
    BY <1>1, <1>2, <1>3, <1>4

\* Whichever way a configuration is written, loadEnv validates the configuration.
LEMMA ReadBack ==
    ASSUME NEW c \in Configurations, NEW place \in [OwnKeys(c.value) -> Places],
           NEW text, \A k \in OwnKeys(c.value) : text[k] \in Shown(c.value.props[k])
    PROVE  LET W == Written(c.value, place, text)
           IN Obj(Over(envToObject(c.schema, W.env), W.defaults)) = c.value
  <1> DEFINE keys == OwnKeys(c.value)
             PK == PropertyKeys(c.schema)
             Under(p) == {k \in keys : place[k] \in p}
             U(p) == {UpperCase[k] : k \in Under(p)}
             other == [x \in U({"variable"}) |-> "other"]
             named == [k \in Under({"variable"}) |-> text[k]]
             upper == [x \in U({"upper case"}) |-> text[CHOOSE k \in keys : UpperCase[k] = x]]
             env == Over(named, Over(upper, other))
             defs == [k \in keys |-> IF place[k] = "default" THEN c.value.props[k] ELSE Text("other")]
             name(key) == IF key \in DOMAIN env THEN key ELSE UpperCase[key]
             set == {key \in PK : name(key) \in DOMAIN env}
             read == [key \in set |-> coerceEnvValue(c.schema.properties[key], env[name(key)])]
             all == Over(read, defs)
  <1>1. Written(c.value, place, text).env = env /\ Written(c.value, place, text).defaults = defs
    BY DEF Written
  <1>2. envToObject(c.schema, env) = read
    BY DEF envToObject
  <1>3. /\ c.value \in ValueTerms /\ c.value.is = "object" /\ keys \subseteq PK
        /\ \A j, k \in PK : UpperCase[j] \in {k, UpperCase[k]} => j = k
        /\ \A k \in keys : Readable(c.schema.properties[k], c.value.props[k])
    BY ValidationAssumption
  <1>4. /\ Depth \in 0..Depth /\ Depth # 0 /\ Depth - 1 \in 0..Depth
        /\ c.value = [is |-> "object", props |-> c.value.props]
        /\ c.value.props \in [Names -> OrUndefined(ValuesOf(Names)[Depth - 1])]
    <2>1. Depth \in 0..Depth
      BY SchemaAssumption
    <2>2. /\ Depth # 0 /\ c.value = [is |-> "object", props |-> c.value.props]
          /\ c.value.props \in [Names -> OrUndefined(ValuesOf(Names)[Depth - 1])]
      <3>1. c.value \in ValueTerms /\ c.value.is = "object"
        BY <1>3
      <3>2. QED
        BY <3>1, TermObject
    <2>3. QED
      BY <2>1, <2>2, SchemaAssumption
  <1>5. keys \subseteq Names /\ PK \subseteq Names /\ keys = {k \in Names : c.value.props[k] # Undefined}
    BY <1>3 DEF OwnKeys, PropertyKeys
  <1>6. DOMAIN env = Under({"variable"}) \cup (U({"upper case"}) \cup U({"variable"}))
    BY DEF Over
  <1>7. ASSUME NEW k \in PK, NEW x \in {k, UpperCase[k]}, x \in DOMAIN env
        PROVE  k \in Under({"variable", "upper case"})
    <2>1. CASE x \in Under({"variable"})
      BY <1>3, <1>7, <2>1
    <2>2. CASE x \in U({"upper case"}) \cup U({"variable"})
      <3>1. PICK j \in Under({"variable", "upper case"}) : x = UpperCase[j]
        BY <2>2
      <3>2. j \in PK
        BY <1>3
      <3>3. QED
        BY <1>3, <1>7, <3>1, <3>2
    <2>3. QED
      BY <1>6, <1>7, <2>1, <2>2
  <1>8. ASSUME NEW k \in Under({"variable"})
        PROVE  k \in DOMAIN env /\ env[k] = text[k]
    <2>1. DOMAIN named = Under({"variable"}) /\ named[k] = text[k]
      OBVIOUS
    <2> HIDE DEF named, upper, other
    <2>2. QED
      BY <2>1 DEF Over
  <1>9. ASSUME NEW k \in Under({"upper case"})
        PROVE  UpperCase[k] \in DOMAIN env /\ env[UpperCase[k]] = text[k]
    <2>1. UpperCase[k] \in U({"upper case"})
      OBVIOUS
    <2>2. UpperCase[k] \notin Under({"variable"})
      <3>1. SUFFICES ASSUME UpperCase[k] \in Under({"variable"}) PROVE FALSE
        OBVIOUS
      <3>2. k \in PK /\ UpperCase[k] \in PK
        BY <1>3, <3>1
      <3>3. UpperCase[k] = k
        BY <1>3, <3>2
      <3>4. QED
        BY <3>1, <3>3
    <2>3. (CHOOSE j \in keys : UpperCase[j] = UpperCase[k]) = k
      BY <1>3
    <2>4. upper[UpperCase[k]] = text[k]
      BY <2>1, <2>3
    <2>5. DOMAIN named = Under({"variable"}) /\ DOMAIN upper = U({"upper case"})
      OBVIOUS
    <2> HIDE DEF named, upper, other, U, Under
    <2>6. QED
      BY <2>1, <2>2, <2>4, <2>5 DEF Over
  <1> HIDE DEF env, named, upper, other
  <1>10. ASSUME NEW k \in Names
         PROVE  (IF k \in DOMAIN all THEN all[k] ELSE Undefined) = c.value.props[k]
    <2>1. DOMAIN all = set \cup keys
      BY DEF Over
    <2>2. k \in DOMAIN all => all[k] = IF k \in set THEN read[k] ELSE defs[k]
      BY DEF Over
    <2>3. CASE k \notin keys
      <3>1. c.value.props[k] = Undefined
        BY <1>5, <2>3
      <3>2. k \notin set
        <4>1. SUFFICES ASSUME k \in set PROVE FALSE
          OBVIOUS
        <4>2. k \in PK /\ name(k) \in {k, UpperCase[k]} /\ name(k) \in DOMAIN env
          BY <4>1
        <4> HIDE DEF name, set
        <4>3. k \in Under({"variable", "upper case"})
          BY <1>7, <4>2
        <4>4. QED
          BY <2>3, <4>3
      <3> HIDE DEF set, all, keys
      <3>3. QED
        BY <2>1, <2>3, <3>1, <3>2
    <2>4. CASE k \in keys /\ place[k] = "default"
      <3>1. k \notin set
        <4>1. SUFFICES ASSUME k \in set PROVE FALSE
          OBVIOUS
        <4>2. k \in PK /\ name(k) \in {k, UpperCase[k]} /\ name(k) \in DOMAIN env
          BY <4>1
        <4> HIDE DEF name, set
        <4>3. k \in Under({"variable", "upper case"})
          BY <1>7, <4>2
        <4>4. QED
          BY <2>4, <4>3
      <3>2. defs[k] = c.value.props[k]
        BY <2>4
      <3> HIDE DEF set, all, keys, defs
      <3>3. QED
        BY <2>1, <2>2, <2>4, <3>1, <3>2
    <2>5. CASE k \in keys /\ place[k] \in {"variable", "upper case"}
      <3>1. k \in PK
        BY <1>3, <2>5
      <3>2. name(k) \in DOMAIN env /\ env[name(k)] = text[k]
        <4>1. CASE place[k] = "variable"
          BY <1>8, <2>5, <4>1
        <4>2. CASE place[k] = "upper case"
          <5>1. UpperCase[k] \in DOMAIN env /\ env[UpperCase[k]] = text[k]
            BY <1>9, <2>5, <4>2
          <5>2. k \in DOMAIN env => k = UpperCase[k]
            <6>1. SUFFICES ASSUME k \in DOMAIN env PROVE k = UpperCase[k]
              OBVIOUS
            <6>2. k \notin Under({"variable"})
              BY <4>2
            <6>3. PICK j \in keys : k = UpperCase[j]
              BY <1>6, <6>1, <6>2
            <6>4. j = k
              BY <1>3, <3>1, <6>3
            <6>5. QED
              BY <6>3, <6>4
          <5>3. QED
            BY <5>1, <5>2
        <4>3. QED
          BY <2>5, <4>1, <4>2
      <3>3. k \in set /\ read[k] = coerceEnvValue(c.schema.properties[k], text[k])
        BY <3>1, <3>2
      <3>4. c.value.props[k] \in ValuesOf(Names)[Depth - 1]
        BY <1>4, <1>5, <2>5 DEF OrUndefined
      <3>5. read[k] = c.value.props[k]
        <4>1. Readable(c.schema.properties[k], c.value.props[k]) /\ text[k] \in Shown(c.value.props[k])
          BY <1>3, <2>5
        <4>2. coerceEnvValue(c.schema.properties[k], text[k]) = c.value.props[k]
          BY <1>4, <3>4, <4>1, CoercedBack
        <4>3. QED
          BY <3>3, <4>2
      <3> HIDE DEF set, all, keys, read
      <3>6. QED
        BY <2>1, <2>2, <3>3, <3>5
    <2>6. QED
      BY <2>3, <2>4, <2>5 DEF Places
  <1>11. Obj(all) = c.value
    <2> HIDE DEF all
    <2>1. [k \in Names |-> IF k \in DOMAIN all THEN all[k] ELSE Undefined] = c.value.props
      BY <1>4, <1>10
    <2>2. QED
      BY <1>4, <2>1 DEF Obj
  <1> HIDE DEF defs, read
  <1>12. QED
    BY <1>1, <1>2, <1>11

-----------------------------------------------------------------------------
(* The invariant: what is validated is the value that is meant, whichever   *)
(* way it came.                                                             *)

ValidatesWhatIsMeant ==
    /\ schema \in SchemaTerms /\ meant \in ValueTerms
    /\ output \in {NoValue, compileSchema(schema, meant)}
    /\ environment # NoValue =>
          /\ Obj(Over(envToObject(schema, environment), defaults)) = meant
          /\ compileSchema(schema, meant).success

\* Initially nothing has been validated, and a configuration reads back as it was
\* written.
LEMMA MeantInit ==
    ValidationInit => ValidatesWhatIsMeant
  <1>1. SUFFICES ASSUME ValidationInit PROVE ValidatesWhatIsMeant
    OBVIOUS
  <1>2. output = NoValue
    BY <1>1 DEF ValidationInit
  <1>3. CASE schema \in Schemas /\ meant \in Inputs /\ environment = NoValue
    BY <1>2, <1>3, ValidationAssumption DEF ValidatesWhatIsMeant
  <1>4. ASSUME NEW c \in Configurations,
               NEW texts, NEW place \in [OwnKeys(c.value) -> Places], NEW text \in [OwnKeys(c.value) -> texts],
               \A k \in OwnKeys(c.value) : text[k] \in Shown(c.value.props[k]),
               schema = c.schema, meant = c.value,
               environment = Written(c.value, place, text).env,
               defaults = Written(c.value, place, text).defaults
        PROVE  ValidatesWhatIsMeant
    <2>1. Obj(Over(envToObject(schema, environment), defaults)) = meant
      BY <1>4, ReadBack
    <2>2. schema \in SchemaTerms /\ meant \in ValueTerms /\ compileSchema(schema, meant).success
      BY <1>4, ValidationAssumption
    <2>3. QED
      BY <1>2, <2>1, <2>2 DEF ValidatesWhatIsMeant
  <1>5. QED
    BY <1>1, <1>3, <1>4 DEF ValidationInit

\* A validation answers for the value that is meant.
LEMMA MeantNext ==
    ValidatesWhatIsMeant /\ [ValidationNext]_validationVars => ValidatesWhatIsMeant'
  <1>1. SUFFICES ASSUME ValidatesWhatIsMeant, [ValidationNext]_validationVars
                 PROVE  ValidatesWhatIsMeant'
    OBVIOUS
  <1>2. CASE Validate
    <2>1. output' = compileSchema(schema, meant) /\ UNCHANGED <<schema, meant, environment, defaults>>
      BY <1>2 DEF Validate
    <2>2. QED
      BY <1>1, <2>1 DEF ValidatesWhatIsMeant
  <1>3. CASE loadEnv
    <2>1. /\ environment # NoValue /\ UNCHANGED <<schema, meant, environment, defaults>>
          /\ output' = compileSchema(schema, Obj(Over(envToObject(schema, environment), defaults)))
      BY <1>3 DEF loadEnv
    <2>2. output' = compileSchema(schema, meant)
      BY <1>1, <2>1 DEF ValidatesWhatIsMeant
    <2>3. QED
      BY <1>1, <2>1, <2>2 DEF ValidatesWhatIsMeant
  <1>4. CASE UNCHANGED validationVars
    BY <1>1, <1>4 DEF ValidatesWhatIsMeant, validationVars
  <1>5. QED
    BY <1>1, <1>2, <1>3, <1>4 DEF ValidationNext

LEMMA CompiledIsFine ==
    ASSUME NEW s \in SchemaTerms, NEW v \in ValueTerms
    PROVE  Fine(Depth, Depth, s, v)
  <1>1. Depth \in 0..Depth
    BY SchemaAssumption
  <1>2. s \in AllSchemas(Depth) /\ v \in ValuesAt(Depth)
    BY DEF SchemaTerms, AllSchemas, ValueTerms, ValuesAt
  <1>3. QED
    BY <1>1, <1>2, EveryLevelFine DEF AllFine

LEMMA MeantIsKept ==
    ValidatesWhatIsMeant => ValidatedHasItsType /\ ValuesComeThrough
  <1>1. SUFFICES ASSUME ValidatesWhatIsMeant, output # NoValue
                 PROVE  ValidatedHasItsType /\ ValuesComeThrough
    BY DEF ValidatedHasItsType, ValuesComeThrough
  <1>2. output = compileSchema(schema, meant)
    BY <1>1 DEF ValidatesWhatIsMeant
  <1>3. environment # NoValue => output.success
    BY <1>1, <1>2 DEF ValidatesWhatIsMeant
  <1>4. output = Fail \/ Sound(Depth, Depth, schema, meant, output.value)
    <2>1. Fine(Depth, Depth, schema, meant)
      BY <1>1, CompiledIsFine DEF ValidatesWhatIsMeant
    <2>2. QED
      BY <1>2, <2>1 DEF Fine, compileSchema
  <1>5. CASE output = Fail
    BY <1>3, <1>5, OkOrFail DEF ValidatedHasItsType, ValuesComeThrough
  <1>6. CASE Sound(Depth, Depth, schema, meant, output.value)
    <2>1. InferSchema[Depth][<<schema, output.value>>]
      BY <1>6 DEF Sound
    <2>2. PassedOn => compileSchema(schema, output.value).success
      BY <1>6, OkOrFail DEF Sound, Passes, PassedOn, Untransformed, Untransformeds, compileSchema
    <2>3. PassedOn /\ (schema \in Unstripped \/ meant \in Unshadowed) =>
             Same[Depth][<<output.value, meant>>]
      BY <1>6 DEF Sound, Passes, PassedOn, Untransformed, Untransformeds, Unstripped, Unstrippeds,
                  Unshadowed, Unshadoweds
    <2>4. QED
      BY <1>3, <2>1, <2>2, <2>3 DEF ValidatedHasItsType, ValuesComeThrough
  <1>7. QED
    BY <1>4, <1>5, <1>6

LEMMA AlwaysMeant ==
    ValidationSpec => []ValidatesWhatIsMeant
  BY MeantInit, MeantNext, PTL DEF ValidationSpec

\* Whatever schema was compiled, over all that t builds, and whatever value was sent
\* or configured: what comes out of its validator has the type TypeScript inferred
\* for it, but for properties that a list leaves out of what is required; and the
\* validator would accept it again, unless a Standard Schema transformed it or a
\* File was copied (compileSchema, Static).
THEOREM ValidatedHasItsTypeHolds ==
    ValidationSpec => []ValidatedHasItsType
  <1>1. ValidatesWhatIsMeant => ValidatedHasItsType
    BY MeantIsKept
  <1>2. QED
    BY <1>1, AlwaysMeant, PTL

\* Validation loses and changes nothing of a value it lets through, but what a
\* Standard Schema transforms, a strict object strips and a copy of a File lacks;
\* and whichever way a configuration is written into variables and defaults, loadEnv reads it
\* back and accepts it (compileObject, envToObject, loadEnv).
THEOREM ValuesComeThroughHolds ==
    ValidationSpec => []ValuesComeThrough
  <1>1. ValidatesWhatIsMeant => ValuesComeThrough
    BY MeantIsKept
  <1>2. QED
    BY <1>1, AlwaysMeant, PTL
-----------------------------------------------------------------------------
(* Container.  First what the recursive functions of resolve are.          *)

IsAfter(f, answer, c, dependencies, s, n) ==
    f = [i \in 0..n |-> IF i = 0 THEN s
                        ELSE IF f[i - 1].out.is = "error" THEN f[i - 1]
                             ELSE answer[<<c, dependencies[i], f[i - 1]>>]]

LEMMA AfterExists ==
    ASSUME NEW answer, NEW c, NEW dependencies, NEW s, NEW N \in Nat
    PROVE  \E f : IsAfter(f, answer, c, dependencies, s, N)
  <1> DEFINE Found == {n \in Nat : \E f : IsAfter(f, answer, c, dependencies, s, n)}
             Next1(x, k) == IF x.out.is = "error" THEN x ELSE answer[<<c, dependencies[k], x>>]
  <1>1. 0 \in Found
    <2>1. IsAfter([i \in 0..0 |-> s], answer, c, dependencies, s, 0)
      BY DEF IsAfter
    <2>2. QED
      BY <2>1
  <1>2. ASSUME NEW n \in Nat, n \in Found
        PROVE  n + 1 \in Found
    <2>1. PICK f : IsAfter(f, answer, c, dependencies, s, n)
      BY <1>2
    <2>2. f = [i \in 0..n |-> IF i = 0 THEN s ELSE Next1(f[i - 1], i)]
      BY <2>1 DEF IsAfter
    <2> DEFINE g == [i \in 0..(n + 1) |-> IF i = n + 1 THEN Next1(f[n], i) ELSE f[i]]
    <2> HIDE DEF Next1
    <2>3. ASSUME NEW k \in 0..(n + 1)
          PROVE  g[k] = IF k = 0 THEN s ELSE Next1(g[k - 1], k)
      <3>1. CASE k = n + 1
        <4>1. g[k] = Next1(f[n], k) /\ k # 0 /\ g[k - 1] = f[n]
          BY <3>1
        <4>2. QED
          BY <4>1
      <3>2. CASE k # n + 1
        <4>1. k \in 0..n /\ g[k] = f[k]
          BY <3>2
        <4>2. f[k] = IF k = 0 THEN s ELSE Next1(f[k - 1], k)
          BY <2>2, <4>1
        <4>3. k # 0 => g[k - 1] = f[k - 1]
          BY <4>1
        <4> HIDE DEF g
        <4>4. QED
          BY <4>1, <4>2, <4>3
      <3>3. QED
        BY <3>1, <3>2
    <2>4. IsAfter(g, answer, c, dependencies, s, n + 1)
      <3> DEFINE h == [k \in 0..(n + 1) |-> IF k = 0 THEN s ELSE Next1(g[k - 1], k)]
      <3>1. g = [k \in 0..(n + 1) |-> g[k]]
        OBVIOUS
      <3> HIDE DEF g
      <3>2. g = h
        BY <2>3, <3>1
      <3>3. QED
        BY <3>2 DEF IsAfter, Next1
    <2>5. QED
      BY <2>4
  <1>3. Found \subseteq Nat
    OBVIOUS
  <1>4. N \in Found
    <2> HIDE DEF Found
    <2>1. QED
      BY <1>1, <1>2, <1>3, UpToAll
  <1>5. QED
    BY <1>4

\* The states between the calls a factory makes.
Between(f, answer, c, dependencies, s) ==
    /\ Asked(answer, c, dependencies, s) = f[Len(dependencies)]
    /\ f[0] = s
    /\ \A i \in 1..Len(dependencies) :
          f[i] = IF f[i - 1].out.is = "error" THEN f[i - 1]
                 ELSE answer[<<c, dependencies[i], f[i - 1]>>]

LEMMA AskedIs ==
    ASSUME NEW answer, NEW c, NEW dependencies, dependencies \in Seq(Tokens), NEW s
    PROVE  \E f : Between(f, answer, c, dependencies, s)
  <1> DEFINE f == CHOOSE g : IsAfter(g, answer, c, dependencies, s, Len(dependencies))
  <1>1. Len(dependencies) \in Nat
    OBVIOUS
  <1>2. IsAfter(f, answer, c, dependencies, s, Len(dependencies))
    BY <1>1, AfterExists
  <1>3. Asked(answer, c, dependencies, s) = f[Len(dependencies)]
    BY DEF Asked, IsAfter
  <1> HIDE DEF f
  <1>4. f[0] = s
    BY <1>1, <1>2 DEF IsAfter
  <1>5. \A i \in 1..Len(dependencies) :
           f[i] = IF f[i - 1].out.is = "error" THEN f[i - 1] ELSE answer[<<c, dependencies[i], f[i - 1]>>]
    BY <1>1, <1>2 DEF IsAfter
  <1>6. QED
    BY <1>3, <1>4, <1>5 DEF Between

IsResolved(f, n) ==
    f = [k \in 0..n |->
            [call \in Containers \X Tokens \X States |->
                IF k = 0 THEN Fails(call[3], "overflow")
                ELSE resolveIn(f[k - 1], Home(call[1], call[2]), call[2], call[3])]]

LEMMA ResolvedExists ==
    ASSUME NEW N \in Nat
    PROVE  \E f : IsResolved(f, N)
  <1> DEFINE Found == {n \in Nat : \E f : IsResolved(f, n)}
             Overflows == [call \in Containers \X Tokens \X States |-> Fails(call[3], "overflow")]
             Above(a) == [call \in Containers \X Tokens \X States |->
                             resolveIn(a, Home(call[1], call[2]), call[2], call[3])]
  <1>0. ASSUME NEW f, NEW n \in Nat
        PROVE  IsResolved(f, n) <=> f = [k \in 0..n |-> IF k = 0 THEN Overflows ELSE Above(f[k - 1])]
    <2>1. \A k \in 0..n : [call \in Containers \X Tokens \X States |->
                              IF k = 0 THEN Fails(call[3], "overflow")
                              ELSE resolveIn(f[k - 1], Home(call[1], call[2]), call[2], call[3])]
                           = IF k = 0 THEN Overflows ELSE Above(f[k - 1])
      OBVIOUS
    <2> HIDE DEF Overflows, Above
    <2>2. QED
      BY <2>1 DEF IsResolved
  <1>1. 0 \in Found
    <2> DEFINE f == [k \in 0..0 |-> Overflows]
    <2>1. f = [k \in 0..0 |-> IF k = 0 THEN Overflows ELSE Above(f[k - 1])]
      <3> HIDE DEF Overflows, Above
      <3>1. QED
        OBVIOUS
    <2>2. IsResolved(f, 0)
      BY <1>0, <2>1
    <2>3. QED
      BY <2>2
  <1>2. ASSUME NEW n \in Nat, n \in Found
        PROVE  n + 1 \in Found
    <2>1. PICK f : f = [k \in 0..n |-> IF k = 0 THEN Overflows ELSE Above(f[k - 1])]
      BY <1>0, <1>2
    <2> DEFINE g == [k \in 0..(n + 1) |-> IF k = n + 1 THEN Above(f[n]) ELSE f[k]]
    <2> HIDE DEF Overflows, Above
    <2>2. ASSUME NEW k \in 0..(n + 1)
          PROVE  g[k] = IF k = 0 THEN Overflows ELSE Above(g[k - 1])
      <3>1. CASE k = n + 1
        <4>1. g[k] = Above(f[n]) /\ k # 0 /\ g[k - 1] = f[n]
          BY <3>1
        <4>2. QED
          BY <4>1
      <3>2. CASE k # n + 1
        <4>1. k \in 0..n /\ g[k] = f[k]
          BY <3>2
        <4>2. f[k] = IF k = 0 THEN Overflows ELSE Above(f[k - 1])
          BY <2>1, <4>1
        <4>3. k # 0 => g[k - 1] = f[k - 1]
          BY <4>1
        <4> HIDE DEF g
        <4>4. QED
          BY <4>1, <4>2, <4>3
      <3>3. QED
        BY <3>1, <3>2
    <2>3. g = [k \in 0..(n + 1) |-> IF k = 0 THEN Overflows ELSE Above(g[k - 1])]
      <3>1. g = [k \in 0..(n + 1) |-> g[k]]
        OBVIOUS
      <3> HIDE DEF g
      <3>2. QED
        BY <2>2, <3>1
    <2>4. IsResolved(g, n + 1)
      <3> HIDE DEF g
      <3>1. QED
        BY <1>0, <2>3
    <2>5. QED
      BY <2>4
  <1>3. Found \subseteq Nat
    OBVIOUS
  <1>4. N \in Found
    <2> HIDE DEF Found
    <2>1. QED
      BY <1>1, <1>2, <1>3, UpToAll
  <1>5. QED
    BY <1>4

LEMMA ResolvedAt ==
    ASSUME NEW n \in 0..StackDepth, NEW c \in Containers, NEW t \in Tokens, NEW s \in States
    PROVE  resolved[n][<<c, t, s>>] =
              IF n = 0 THEN Fails(s, "overflow") ELSE resolveIn(resolved[n - 1], Home(c, t), t, s)
  <1> DEFINE f == CHOOSE g : IsResolved(g, StackDepth)
  <1>1. IsResolved(f, StackDepth)
    BY ResolvedExists, ContainerAssumption
  <1>2. resolved = f
    BY DEF resolved, IsResolved
  <1> HIDE DEF f
  <1>3. f[n] = [call \in Containers \X Tokens \X States |->
                   IF n = 0 THEN Fails(call[3], "overflow")
                   ELSE resolveIn(f[n - 1], Home(call[1], call[2]), call[2], call[3])]
    BY <1>1 DEF IsResolved
  <1>4. QED
    BY <1>2, <1>3

-----------------------------------------------------------------------------
(* Types, and the graph of what is needed.                                 *)

ContainerType ==
    /\ created \subseteq Containers /\ Root \in created
    /\ entries \in [Containers -> [Tokens -> Entries]]
    /\ overrides \in [Containers -> [Tokens -> Instances \cup {Nothing}]]
    /\ resolving = [c \in Containers |-> {}]
    /\ held \in [Containers -> [Tokens -> Instances \cup {Nothing}]]

LEMMA KindsOfEntries ==
    ASSUME NEW e \in Entries
    PROVE  /\ e.is \in {"value", "factory", "nothing"}
           /\ e.is = "nothing" <=> e = Nothing
           /\ e.is = "value" => e.scope \in Scopes /\ e.instance \in Instances /\ e = Value(e.scope, e.instance)
           /\ e.is = "factory" => e.scope \in Scopes /\ e.dependencies \in Seq(Tokens)
  <1>1. CASE e \in [is : {"value"}, scope : Scopes, instance : Instances]
    BY <1>1 DEF Nothing, Value
  <1>2. CASE e \in [is : {"factory"}, scope : Scopes, dependencies : Seq(Tokens)]
    BY <1>2 DEF Nothing
  <1>3. CASE e = Nothing
    BY <1>3 DEF Nothing
  <1>4. QED
    BY <1>1, <1>2, <1>3 DEF Entries

LEMMA KindsOfResults ==
    /\ \A o \in Results : o.is \in {"instance", "error"}
    /\ \A o \in Results : o.is = "instance" => o = Returns(o.instance) /\ o.instance \in Instances \cup {Nothing}
    /\ \A i : Returns(i).is = "instance" /\ Returns(i).instance = i
    /\ \A i \in Instances \cup {Nothing} : Returns(i) \in Results
    /\ \A why \in Reasons : Error(why).is = "error" /\ Error(why).why = why /\ Error(why) \in Results
  BY DEF Results, Returns, Error

LEMMA NodesFinite ==
    /\ IsFiniteSet(Containers \X Tokens) /\ Cardinality(Containers \X Tokens) \in Nat
  <1>1. IsFiniteSet(Containers)
    BY ContainerAssumption, FS_Singleton, FS_Union DEF Containers
  <1>2. IsFiniteSet(Containers \X Tokens)
    BY <1>1, ContainerAssumption, FS_Product
  <1>3. QED
    BY <1>2, FS_CardinalityType

LEMMA FiniteRange ==
    ASSUME NEW S, IsFiniteSet(S), NEW f
    PROVE  IsFiniteSet({f[x] : x \in S})
  <1> DEFINE T == {f[x] : x \in S}
             g == [x \in S |-> f[x]]
  <1>1. g \in Surjection(S, T)
    BY DEF Surjection
  <1> HIDE DEF T, g
  <1>2. IsFiniteSet(T)
    BY <1>1, FS_Surjection DEF ExistsSurjection
  <1>3. QED
    BY <1>2 DEF T

\* A new instance is one, because there are only so many numbers in use.
LEMMA FreshIsAnInstance ==
    ASSUME NEW s, NEW token \in Tokens
    PROVE  Fresh(s, token) \in Instances
  <1> DEFINE N == Containers \X Tokens
             A == {m \in N : s.entries[m[1]][m[2]].is = "value"}
             B == {m \in N : held[m[1]][m[2]] # Nothing}
             NA == {s.entries[n[1]][n[2]].instance.number : n \in A}
             NB == {held[n[1]][n[2]].number : n \in B}
             K == Cardinality(Numbers(s))
  <1>1. IsFiniteSet(A) /\ IsFiniteSet(B)
    BY NodesFinite, FS_Subset
  <1>2. IsFiniteSet(NA)
    <2> DEFINE f == [n \in A |-> s.entries[n[1]][n[2]].instance.number]
    <2>1. NA = {f[n] : n \in A}
      OBVIOUS
    <2> HIDE DEF A, NA, f
    <2>2. QED
      BY <1>1, <2>1, FiniteRange
  <1>3. IsFiniteSet(NB)
    <2> DEFINE f == [n \in B |-> held[n[1]][n[2]].number]
    <2>1. NB = {f[n] : n \in B}
      OBVIOUS
    <2> HIDE DEF B, NB, f
    <2>2. QED
      BY <1>1, <2>1, FiniteRange
  <1>4. IsFiniteSet(Numbers(s))
    <2>1. Numbers(s) = NA \cup NB
      BY DEF Numbers
    <2> HIDE DEF NA, NB
    <2>2. QED
      BY <1>2, <1>3, <2>1, FS_Union
  <1>5. K \in Nat
    BY <1>4, FS_CardinalityType
  <1>6. \E n \in 1..(K + 1) : n \notin Numbers(s)
    <2>1. SUFFICES ASSUME 1..(K + 1) \subseteq Numbers(s) PROVE FALSE
      OBVIOUS
    <2>2. Cardinality(1..(K + 1)) = K + 1
      BY <1>5, FS_Interval
    <2>3. Cardinality(1..(K + 1)) <= K
      BY <1>4, <2>1, FS_Subset
    <2>4. QED
      BY <1>5, <2>2, <2>3
  <1>7. (CHOOSE n \in 1..(K + 1) : n \notin Numbers(s)) \in Int
    BY <1>5, <1>6
  <1>8. QED
    BY <1>7 DEF Fresh, Instance, Instances

LEMMA HomeIs ==
    ASSUME NEW c \in Containers, NEW t \in Tokens
    PROVE  Home(c, t) \in Containers /\ Node(c, t) \in Nodes /\ Node(c, t) = <<Home(c, t), t>>
           /\ (has(c, t) => Home(c, t) = c)
  BY DEF Home, Containers, Node, Nodes

LEMMA AsksNodes ==
    ASSUME ContainerType, NEW m \in Nodes
    PROVE  Asks(m) \subseteq Nodes
  <1>1. m[1] \in Containers /\ m[2] \in Tokens
    BY DEF Nodes
  <1> DEFINE e == entries[m[1]][m[2]]
  <1>2. e \in Entries
    BY <1>1 DEF ContainerType
  <1>3. CASE overrides[m[1]][m[2]] = Nothing /\ e.is = "factory"
    <2>1. e.dependencies \in Seq(Tokens)
      BY <1>2, <1>3, KindsOfEntries
    <2>2. \A i \in DOMAIN e.dependencies : Node(m[1], e.dependencies[i]) \in Nodes
      BY <1>1, <2>1, HomeIs
    <2>3. QED
      BY <1>3, <2>2 DEF Asks
  <1>4. CASE ~(overrides[m[1]][m[2]] = Nothing /\ e.is = "factory")
    BY <1>4 DEF Asks
  <1>5. QED
    BY <1>3, <1>4

LEMMA ClosureHas ==
    ASSUME NEW S, S \subseteq Nodes
    PROVE  S \subseteq Closure(S) /\ Closure(S) \subseteq Nodes
  BY DEF Closure

LEMMA ClosureClosed ==
    ASSUME ContainerType, NEW S, NEW m \in Closure(S)
    PROVE  Asks(m) \subseteq Closure(S)
  <1>1. m \in Nodes
    BY DEF Closure
  <1>2. QED
    BY <1>1, AsksNodes DEF Closure, Closed

LEMMA ClosureLeast ==
    ASSUME NEW S, NEW R, R \subseteq Nodes, S \subseteq R, Closed(R)
    PROVE  Closure(S) \subseteq R
  BY DEF Closure

\* What a node with everything good below it needs is good: nothing is missing and
\* nothing needs itself.
Good(m) == ~Missing(m) /\ ~Cyclic(m)

LEMMA GoodParent ==
    ASSUME ContainerType, NEW m \in Nodes, has(m[1], m[2]), \A a \in Asks(m) : Good(a)
    PROVE  Good(m)
  <1> DEFINE Needed == UNION {Closure({a}) : a \in Asks(m)}
  <1>1. Asks(m) \subseteq Nodes
    BY AsksNodes
  <1>2. Needed \subseteq Nodes /\ Asks(m) \subseteq Needed
    <2>1. \A a \in Asks(m) : a \in Closure({a}) /\ Closure({a}) \subseteq Nodes
      BY <1>1, ClosureHas
    <2>2. QED
      BY <2>1
  <1>3. Closed(Needed)
    BY ClosureClosed DEF Closed
  <1>4. Closure(Asks(m)) \subseteq Needed
    BY <1>2, <1>3, ClosureLeast
  <1>5. Closure({m}) \subseteq Needed \cup {m}
    <2>1. Closed(Needed \cup {m})
      <3> HIDE DEF Needed
      <3>1. QED
        BY <1>2, <1>3 DEF Closed
    <2> HIDE DEF Needed
    <2>2. QED
      BY <1>2, <2>1, ClosureLeast
  <1>6. \A k \in Needed : has(k[1], k[2]) /\ k \notin Closure(Asks(k))
    BY DEF Good, Missing, Cyclic
  <1>7. m \notin Closure(Asks(m))
    <2> HIDE DEF Needed
    <2>1. QED
      BY <1>4, <1>6
  <1> HIDE DEF Needed
  <1>8. QED
    BY <1>5, <1>6, <1>7 DEF Good, Missing, Cyclic

LEMMA GoodLeaf ==
    ASSUME ContainerType, NEW m \in Nodes, has(m[1], m[2]),
           overrides[m[1]][m[2]] # Nothing \/ entries[m[1]][m[2]].is = "value"
    PROVE  Good(m)
  <1>1. Asks(m) = {}
    BY DEF Asks
  <1>2. QED
    BY <1>1, GoodParent

-----------------------------------------------------------------------------
(* A call of resolve on behalf of a resolve of node r: what it may count on, *)
(* and what is right of the state it leaves.                                 *)

\* Only singletons that are good have been made, and kept.
Near(s) ==
    \A d \in Containers, u \in Tokens :
        \/ s.entries[d][u] = entries[d][u]
        \/ /\ entries[d][u].is = "factory" /\ entries[d][u].scope = "singleton"
           /\ s.entries[d][u].is = "value" /\ s.entries[d][u].scope = "singleton"
           /\ Good(<<d, u>>)

\* r needs m, and what is being resolved needs m.
Under(r, m, unfinished) ==
    /\ m \in Closure({r})
    /\ \A d \in Containers : \A u \in unfinished[d] :
          <<d, u>> \in Closure({r}) /\ m \in Closure(Asks(<<d, u>>))

\* If nothing needs itself, the calls on the stack are of different nodes.
Room(r, m, n) ==
    Cyclic(r) \/ \E P \in SUBSET Nodes : /\ Cardinality(P) + n >= StackDepth
                                         /\ \A p \in P : p \in Closure({r}) /\ m \in Closure(Asks(p))

Keeps(s, s2) ==
    \A d \in Containers, u \in Tokens :
        s.entries[d][u].is = "value" => s2.entries[d][u] = s.entries[d][u]

ReasonIs(r, o) == o.is = "error" => IF o.why = "missing" THEN Missing(r) ELSE Cyclic(r)

\* The instance is that of an override, or of a singleton that is kept.
GivesOwn(m, s2) ==
    /\ overrides[m[1]][m[2]] # Nothing => s2.out.instance = overrides[m[1]][m[2]]
    /\ /\ overrides[m[1]][m[2]] = Nothing
       /\ s2.entries[m[1]][m[2]].is = "value" /\ s2.entries[m[1]][m[2]].scope = "singleton"
       => s2.out.instance = s2.entries[m[1]][m[2]].instance

Right(r, m, s, s2) ==
    /\ s2 \in States /\ Near(s2) /\ s2.resolving = s.resolving /\ Keeps(s, s2)
    /\ ReasonIs(r, s2.out)
    /\ s2.out.is = "instance" => Good(m) /\ GivesOwn(m, s2)

AllRight(n, r) ==
    \A c \in Containers, t \in Tokens, s \in States :
        Near(s) /\ Under(r, Node(c, t), s.resolving) /\ Room(r, Node(c, t), n) =>
            Right(r, Node(c, t), s, resolved[n][<<c, t, s>>])

LEMMA StateParts ==
    ASSUME NEW s \in States
    PROVE  /\ s.entries \in [Containers -> [Tokens -> Entries]]
           /\ s.resolving \in [Containers -> SUBSET Tokens]
           /\ s.out \in Results
  BY DEF States

\* Setting the outcome changes nothing else.
LEMMA WithOutcome ==
    ASSUME NEW s \in States, NEW o \in Results
    PROVE  LET s2 == [s EXCEPT !.out = o]
           IN /\ s2 \in States /\ s2.out = o
              /\ s2.entries = s.entries /\ s2.resolving = s.resolving
  BY DEF States

LEMMA AnswersAndFails ==
    ASSUME NEW s \in States
    PROVE  /\ \A i \in Instances \cup {Nothing} :
                 /\ Answers(s, i) \in States /\ Answers(s, i).out = Returns(i)
                 /\ Answers(s, i).entries = s.entries /\ Answers(s, i).resolving = s.resolving
           /\ \A why \in Reasons :
                 /\ Fails(s, why) \in States /\ Fails(s, why).out = Error(why)
                 /\ Fails(s, why).entries = s.entries /\ Fails(s, why).resolving = s.resolving
  BY WithOutcome, KindsOfResults DEF Answers, Fails

\* A call below one of m, which r needs: everything above it needs it too.
LEMMA OneDeeper ==
    ASSUME ContainerType, NEW r \in Nodes, NEW m \in Nodes, NEW a \in Asks(m), NEW n \in Nat, n # 0,
           m \in Closure({r}), Room(r, m, n)
    PROVE  /\ a \in Closure({r}) /\ a \in Closure(Asks(m))
           /\ \A p \in Nodes : m \in Closure(Asks(p)) => a \in Closure(Asks(p))
           /\ Room(r, a, n - 1)
  <1>1. a \in Closure({r}) /\ \A p \in Nodes : m \in Closure(Asks(p)) => a \in Closure(Asks(p))
    BY ClosureClosed
  <1>2. a \in Closure(Asks(m))
    BY AsksNodes, ClosureHas
  <1>3. Room(r, a, n - 1)
    <2>1. SUFFICES ASSUME ~Cyclic(r) PROVE Room(r, a, n - 1)
      BY DEF Room
    <2>2. PICK P \in SUBSET Nodes : /\ Cardinality(P) + n >= StackDepth
                                    /\ \A p \in P : p \in Closure({r}) /\ m \in Closure(Asks(p))
      BY <2>1 DEF Room
    <2>3. m \notin P
      BY <2>1, <2>2 DEF Cyclic
    <2>4. IsFiniteSet(P) /\ Cardinality(P) \in Nat
      BY NodesFinite, FS_Subset, FS_CardinalityType DEF Nodes
    <2>5. Cardinality(P \cup {m}) = Cardinality(P) + 1
      BY <2>3, <2>4, FS_AddElement
    <2>6. P \cup {m} \in SUBSET Nodes /\ Cardinality(P \cup {m}) + (n - 1) >= StackDepth
      BY <2>2, <2>4, <2>5, ContainerAssumption
    <2>7. \A p \in P \cup {m} : p \in Closure({r}) /\ a \in Closure(Asks(p))
      BY <1>1, <1>2, <2>2
    <2>8. QED
      BY <2>6, <2>7 DEF Room
  <1>4. QED
    BY <1>1, <1>2, <1>3

\* What overflows the stack needs itself.
LEMMA NoRoomIsCyclic ==
    ASSUME NEW r \in Nodes, NEW m \in Nodes, m \in Closure({r}), Room(r, m, 0)
    PROVE  Cyclic(r)
  <1>1. SUFFICES ASSUME ~Cyclic(r) PROVE FALSE
    OBVIOUS
  <1>2. PICK P \in SUBSET Nodes : /\ Cardinality(P) + 0 >= StackDepth
                                  /\ \A p \in P : p \in Closure({r}) /\ m \in Closure(Asks(p))
    BY <1>1 DEF Room
  <1>3. m \notin P
    BY <1>1, <1>2 DEF Cyclic
  <1>4. IsFiniteSet(P) /\ Cardinality(P) \in Nat
    BY NodesFinite, FS_Subset, FS_CardinalityType DEF Nodes
  <1>5. Cardinality(P \cup {m}) = Cardinality(P) + 1
    BY <1>3, <1>4, FS_AddElement
  <1>6. Cardinality(P \cup {m}) <= Cardinality(Containers \X Tokens)
    BY NodesFinite, FS_Subset, P \cup {m} \in SUBSET Nodes DEF Nodes
  <1>7. QED
    BY <1>2, <1>4, <1>5, <1>6, NodesFinite, ContainerAssumption

LEMMA KeepsOn ==
    ASSUME NEW x, NEW y, NEW z, Keeps(x, y), Keeps(y, z)
    PROVE  Keeps(x, z)
  <1> SUFFICES ASSUME NEW d \in Containers, NEW u \in Tokens, x.entries[d][u].is = "value"
               PROVE  z.entries[d][u] = x.entries[d][u]
    BY DEF Keeps
  <1>1. y.entries[d][u] = x.entries[d][u]
    BY DEF Keeps
  <1>2. z.entries[d][u] = y.entries[d][u]
    BY <1>1 DEF Keeps
  <1>3. QED
    BY <1>1, <1>2

LEMMA SameEntries ==
    ASSUME NEW x, NEW y, x.entries = y.entries
    PROVE  (Near(x) => Near(y)) /\ Keeps(x, y)
  BY DEF Near, Keeps

\* After the first i calls of a factory of container h that was called in state q.
Sofar(r, h, deps, q, x, i) ==
    /\ x \in States /\ Near(x) /\ x.resolving = q.resolving /\ Keeps(q, x)
    /\ ReasonIs(r, x.out)
    /\ x.out.is = "instance" => \A j \in 1..i : Good(Node(h, deps[j]))

\* The factory of node m is called in state q: it asks for what m needs, in order.
LEMMA CalledRight ==
    ASSUME ContainerType, NEW r \in Nodes, NEW n \in 1..StackDepth, AllRight(n - 1, r),
           NEW h \in Containers, NEW t \in Tokens, NEW q \in States,
           overrides[h][t] = Nothing, entries[h][t].is = "factory",
           <<h, t>> \in Closure({r}), Room(r, <<h, t>>, n), Near(q),
           \A d \in Containers : \A u \in q.resolving[d] :
              <<d, u>> \in Closure({r}) /\ (<<d, u>> = <<h, t>> \/ <<h, t>> \in Closure(Asks(<<d, u>>)))
    PROVE  LET s2 == Called(resolved[n - 1], h, t, entries[h][t].dependencies, q)
           IN /\ s2 \in States /\ Near(s2) /\ s2.resolving = q.resolving /\ Keeps(q, s2)
              /\ ReasonIs(r, s2.out)
              /\ s2.out.is = "instance" => Good(<<h, t>>) /\ s2.out.instance \in Instances
  <1> DEFINE m == <<h, t>>
             deps == entries[h][t].dependencies
             start == Answers(q, Nothing)
             answer == resolved[n - 1]
  <1>1. m \in Nodes /\ m[1] = h /\ m[2] = t
    BY DEF Nodes
  <1>2. deps \in Seq(Tokens) /\ Len(deps) \in Nat /\ has(h, t)
    <2>1. entries[h][t] \in Entries
      BY DEF ContainerType
    <2>2. QED
      BY <2>1, KindsOfEntries DEF has, Nothing
  <1>3. \A i \in 1..Len(deps) : deps[i] \in Tokens /\ Node(h, deps[i]) \in Asks(m)
    BY <1>1, <1>2 DEF Asks
  <1>4. \A a \in Asks(m) : \E i \in 1..Len(deps) : a = Node(h, deps[i])
    BY <1>1, <1>2 DEF Asks
  <1>5. start \in States /\ start.out = Returns(Nothing) /\ start.entries = q.entries /\ start.resolving = q.resolving
    BY AnswersAndFails
  <1>p. PICK f : Between(f, answer, h, deps, start)
    <2>1. deps \in Seq(Tokens)
      BY <1>2
    <2>2. QED
      BY <2>1, AskedIs
  <1>6. /\ Asked(answer, h, deps, start) = f[Len(deps)]
        /\ f[0] = start
        /\ \A i \in 1..Len(deps) :
              f[i] = IF f[i - 1].out.is = "error" THEN f[i - 1] ELSE answer[<<h, deps[i], f[i - 1]>>]
    BY <1>p DEF Between
  <1> DEFINE Done == {i \in Nat : i <= Len(deps) => Sofar(r, h, deps, q, f[i], i)}
  <1>7. 0 \in Done
    <2>1. Near(start) /\ Keeps(q, start)
      <3> HIDE DEF start
      <3>1. QED
        BY <1>5, SameEntries
    <2>2. ReasonIs(r, start.out)
      BY <1>5, KindsOfResults DEF ReasonIs
    <2> HIDE DEF start
    <2>3. Sofar(r, h, deps, q, f[0], 0)
      BY <1>5, <1>6, <2>1, <2>2 DEF Sofar
    <2>4. QED
      BY <2>3
  <1>8. ASSUME NEW i \in Nat, i \in Done
        PROVE  i + 1 \in Done
    <2>1. SUFFICES ASSUME i + 1 <= Len(deps) PROVE Sofar(r, h, deps, q, f[i + 1], i + 1)
      OBVIOUS
    <2>2. i <= Len(deps) /\ i + 1 \in 1..Len(deps) /\ (i + 1) - 1 = i
      BY <1>2, <2>1
    <2>3. Sofar(r, h, deps, q, f[i], i)
      BY <1>8, <2>2
    <2> DEFINE x == f[i]
    <2>a. /\ x \in States /\ Near(x) /\ x.resolving = q.resolving /\ Keeps(q, x)
          /\ x.out.is = "instance" => \A j \in 1..i : Good(Node(h, deps[j]))
      BY <2>3 DEF Sofar
    <2> DEFINE a == Node(h, deps[i + 1])
               next == answer[<<h, deps[i + 1], f[i]>>]
    <2>4. f[i + 1] = IF f[i].out.is = "error" THEN f[i] ELSE next
      BY <1>6, <2>2
    <2>5. CASE f[i].out.is = "error"
      <3>1. f[i + 1] = f[i] /\ f[i + 1].out.is # "instance"
        BY <2>4, <2>5
      <3>2. QED
        BY <2>3, <3>1 DEF Sofar
    <2>6. CASE f[i].out.is # "error"
      <3>1. f[i + 1] = next
        BY <2>4, <2>6
      <3>2. deps[i + 1] \in Tokens /\ a \in Asks(m)
        BY <1>3, <2>2
      <3>3. n \in Nat /\ n # 0
        BY ContainerAssumption
      <3>4. /\ a \in Closure({r}) /\ a \in Closure(Asks(m)) /\ Room(r, a, n - 1)
            /\ \A p \in Nodes : m \in Closure(Asks(p)) => a \in Closure(Asks(p))
        BY <1>1, <3>2, <3>3, OneDeeper
      <3>5. Under(r, a, f[i].resolving)
        <4>1. SUFFICES ASSUME NEW d \in Containers, NEW u \in q.resolving[d]
                       PROVE  <<d, u>> \in Closure({r}) /\ a \in Closure(Asks(<<d, u>>))
          BY <2>a, <3>4 DEF Under
        <4>2. <<d, u>> \in Nodes
          BY StateParts DEF Nodes
        <4>3. QED
          BY <3>4, <4>2
      <3>6. Right(r, a, f[i], next)
        BY <2>a, <3>2, <3>4, <3>5 DEF AllRight
      <3>7. /\ next \in States /\ Near(next) /\ next.resolving = x.resolving /\ Keeps(x, next)
            /\ ReasonIs(r, next.out)
            /\ next.out.is = "instance" => Good(a)
        BY <3>6 DEF Right
      <3> HIDE DEF next, x
      <3>8. Keeps(q, next)
        BY <2>a, <3>7, KeepsOn
      <3>9. x.out.is = "instance"
        BY <2>a, <2>6, StateParts, KindsOfResults DEF x
      <3>10. ASSUME next.out.is = "instance", NEW j \in 1..(i + 1)
             PROVE  Good(Node(h, deps[j]))
        <4>1. CASE j \in 1..i
          BY <2>a, <3>9, <4>1
        <4>2. CASE j = i + 1
          BY <3>7, <3>10, <4>2
        <4>3. QED
          BY <4>1, <4>2
      <3>11. Sofar(r, h, deps, q, next, i + 1)
        BY <2>a, <3>7, <3>8, <3>10 DEF Sofar, x
      <3>12. QED
        BY <3>1, <3>11
    <2>7. QED
      BY <2>5, <2>6
  <1>9. Sofar(r, h, deps, q, f[Len(deps)], Len(deps))
    <2>1. Done \subseteq Nat
      OBVIOUS
    <2>2. \A i \in Nat : i \in Done
      <3> HIDE DEF Done
      <3>1. QED
        BY <1>7, <1>8, <2>1, UpToAll
    <2>3. QED
      BY <1>2, <2>2
  <1> DEFINE asked == Asked(answer, h, deps, start)
             s2 == Called(answer, h, t, deps, q)
  <1> HIDE DEF start
  <1>10. asked = f[Len(deps)]
    BY <1>6
  <1>11. s2 = IF asked.out.is = "error" THEN asked ELSE Answers(asked, Fresh(asked, t))
    BY DEF Called, start
  <1>12. asked \in States /\ Near(asked) /\ asked.resolving = q.resolving /\ Keeps(q, asked) /\ ReasonIs(r, asked.out)
    BY <1>9, <1>10 DEF Sofar
  <1>13. asked.out.is = "instance" => Good(m)
    <2>1. SUFFICES ASSUME asked.out.is = "instance" PROVE Good(m)
      OBVIOUS
    <2>2. \A x \in Asks(m) : Good(x)
      BY <1>4, <1>9, <1>10, <2>1 DEF Sofar
    <2>3. QED
      BY <1>1, <1>2, <2>2, GoodParent
  <1> HIDE DEF asked, s2, Done
  <1>14. CASE asked.out.is = "error"
    BY <1>11, <1>12, <1>14 DEF s2
  <1>15. CASE asked.out.is # "error"
    <2>1. asked.out.is = "instance"
      BY <1>12, <1>15, StateParts, KindsOfResults
    <2> DEFINE i == Fresh(asked, t)
    <2>2. i \in Instances
      BY FreshIsAnInstance
    <2> HIDE DEF i
    <2>3. /\ s2 = Answers(asked, i) /\ s2 \in States /\ s2.out = Returns(i)
          /\ s2.entries = asked.entries /\ s2.resolving = asked.resolving
      BY <1>11, <1>12, <1>15, <2>2, AnswersAndFails DEF i
    <2>4. Near(s2) /\ Keeps(q, s2)
      BY <1>12, <2>3, SameEntries, KeepsOn
    <2>5. ReasonIs(r, s2.out) /\ s2.out.instance = i
      BY <2>3, KindsOfResults DEF ReasonIs
    <2>6. QED
      BY <1>12, <1>13, <2>1, <2>2, <2>3, <2>4, <2>5 DEF s2
  <1>16. QED
    BY <1>14, <1>15

LEMMA FailsIs ==
    ASSUME NEW s \in States, NEW why \in Reasons
    PROVE  /\ Fails(s, why) \in States /\ Fails(s, why).out.is = "error" /\ Fails(s, why).out.why = why
           /\ Fails(s, why).entries = s.entries /\ Fails(s, why).resolving = s.resolving
  <1>1. Fails(s, why).out = Error(why) /\ Fails(s, why) \in States
        /\ Fails(s, why).entries = s.entries /\ Fails(s, why).resolving = s.resolving
    BY AnswersAndFails
  <1>2. Error(why).is = "error" /\ Error(why).why = why
    BY KindsOfResults
  <1>3. QED
    BY <1>1, <1>2

\* The states in which a token is being resolved, an instance is kept, a token is released.
LEMMA WithResolving ==
    ASSUME NEW s \in States, NEW h \in Containers, NEW T \in SUBSET Tokens
    PROVE  LET s2 == [s EXCEPT !.resolving[h] = T]
           IN /\ s2 \in States /\ s2.out = s.out /\ s2.entries = s.entries
              /\ s2.resolving = [s.resolving EXCEPT ![h] = T]
  BY DEF States

LEMMA WithEntry ==
    ASSUME NEW s \in States, NEW h \in Containers, NEW t \in Tokens, NEW e \in Entries
    PROVE  LET s2 == [s EXCEPT !.entries[h][t] = e]
           IN /\ s2 \in States /\ s2.out = s.out /\ s2.resolving = s.resolving
              /\ s2.entries[h][t] = e
              /\ \A d \in Containers, u \in Tokens : <<d, u>> # <<h, t>> => s2.entries[d][u] = s.entries[d][u]
  <1> DEFINE s2 == [s EXCEPT !.entries[h][t] = e]
  <1>1. s.entries \in [Containers -> [Tokens -> Entries]]
    BY StateParts
  <1> DEFINE en == [s.entries EXCEPT ![h] = [s.entries[h] EXCEPT ![t] = e]]
  <1>2. s2 = [s EXCEPT !.entries = en]
    BY DEF States
  <1>3. en \in [Containers -> [Tokens -> Entries]]
    BY <1>1
  <1>4. en[h][t] = e /\ \A d \in Containers, u \in Tokens : <<d, u>> # <<h, t>> => en[d][u] = s.entries[d][u]
    BY <1>1
  <1>5. s2 \in States /\ s2.out = s.out /\ s2.resolving = s.resolving /\ s2.entries = en
    <2> HIDE DEF en, s2
    <2>1. QED
      BY <1>2, <1>3 DEF States
  <1> HIDE DEF en, s2
  <1>6. QED
    BY <1>4, <1>5 DEF s2

\* A factory that is not a singleton's is never replaced during a call.
LEMMA StaysFactory ==
    ASSUME NEW s, Near(s), NEW h \in Containers, NEW t \in Tokens,
           entries[h][t].is = "factory", entries[h][t].scope # "singleton"
    PROVE  s.entries[h][t].is # "value"
  BY DEF Near

\* The call of a factory that is guarded against calling itself.
LEMMA GuardedRight ==
    ASSUME ContainerType, NEW r \in Nodes, NEW n \in 1..StackDepth, AllRight(n - 1, r),
           NEW h \in Containers, NEW t \in Tokens, NEW s \in States,
           overrides[h][t] = Nothing, entries[h][t].is = "factory", s.entries[h][t] = entries[h][t],
           Under(r, <<h, t>>, s.resolving), Room(r, <<h, t>>, n), Near(s)
    PROVE  Right(r, <<h, t>>, s, guarded(resolved[n - 1], h, t, entries[h][t], s))
  <1> DEFINE entry == entries[h][t]
             m == <<h, t>>
             q == [s EXCEPT !.resolving[h] = @ \cup {t}]
             x == Called(resolved[n - 1], h, t, entry.dependencies, q)
             y == Kept(x, h, t, entry.scope)
             z == Released(y, h, t)
  <1>0. s.resolving \in [Containers -> SUBSET Tokens] /\ s.resolving[h] \in SUBSET Tokens
    BY StateParts
  <1>1. CASE t \in s.resolving[h]
    <2> DEFINE s2 == Fails(s, "circular")
    <2>1. guarded(resolved[n - 1], h, t, entry, s) = s2
      BY <1>1 DEF guarded
    <2>2. Cyclic(r)
      BY <1>1 DEF Under, Cyclic
    <2>3. /\ s2 \in States /\ s2.out.is = "error" /\ s2.out.why = "circular"
          /\ s2.entries = s.entries /\ s2.resolving = s.resolving
      BY FailsIs DEF Reasons
    <2> HIDE DEF s2
    <2>4. Near(s2) /\ Keeps(s, s2)
      BY <2>3, SameEntries
    <2>5. QED
      BY <2>1, <2>2, <2>3, <2>4 DEF Right, ReasonIs
  <1>2. CASE t \notin s.resolving[h]
    <2>1. guarded(resolved[n - 1], h, t, entry, s) = z
      BY <1>2 DEF guarded
    <2>2. q \in States /\ q.entries = s.entries /\ q.resolving = [s.resolving EXCEPT ![h] = s.resolving[h] \cup {t}]
      <3>1. s.resolving[h] \cup {t} \in SUBSET Tokens
        BY <1>0
      <3>2. QED
        BY <3>1, WithResolving
    <2>3. Near(q) /\ Keeps(s, q)
      <3> HIDE DEF q
      <3>1. QED
        BY <2>2, SameEntries
    <2>4. \A d \in Containers : \A u \in q.resolving[d] :
             <<d, u>> \in Closure({r}) /\ (<<d, u>> = m \/ m \in Closure(Asks(<<d, u>>)))
      <3>1. ASSUME NEW d \in Containers, NEW u \in q.resolving[d]
            PROVE  u \in s.resolving[d] \/ (d = h /\ u = t)
        <4> HIDE DEF q
        <4>1. QED
          BY <1>0, <2>2, <3>1
      <3> HIDE DEF q
      <3>2. QED
        BY <3>1 DEF Under
    <2>5. m \in Closure({r})
      BY DEF Under
    <2>6. /\ x \in States /\ Near(x) /\ x.resolving = q.resolving /\ Keeps(q, x)
          /\ ReasonIs(r, x.out)
          /\ x.out.is = "instance" => Good(m) /\ x.out.instance \in Instances
      <3> HIDE DEF q
      <3>1. QED
        BY <2>2, <2>3, <2>4, <2>5, CalledRight
    <2> HIDE DEF x, q
    <2>7. Keeps(s, x)
      BY <2>3, <2>6, KeepsOn
    <2>8. /\ y \in States /\ Near(y) /\ y.resolving = q.resolving /\ Keeps(s, y) /\ y.out = x.out
          /\ y.out.is = "instance" => GivesOwn(m, y)
      <3>1. CASE x.out.is = "instance" /\ entry.scope = "singleton"
        <4> DEFINE v == Value("singleton", x.out.instance)
        <4>1. y = [x EXCEPT !.entries[h][t] = v]
          BY <3>1 DEF Kept
        <4>2. v \in Entries /\ v.is = "value" /\ v.scope = "singleton" /\ v.instance = x.out.instance
          BY <2>6, <3>1 DEF Value, Entries, Scopes
        <4> HIDE DEF v, y
        <4>3. /\ y \in States /\ y.out = x.out /\ y.resolving = x.resolving /\ y.entries[h][t] = v
              /\ \A d \in Containers, u \in Tokens : <<d, u>> # <<h, t>> => y.entries[d][u] = x.entries[d][u]
          BY <2>6, <4>1, <4>2, WithEntry
        <4>4. Near(y)
          <5> SUFFICES ASSUME NEW d \in Containers, NEW u \in Tokens
                       PROVE  \/ y.entries[d][u] = entries[d][u]
                              \/ /\ entries[d][u].is = "factory" /\ entries[d][u].scope = "singleton"
                                 /\ y.entries[d][u].is = "value" /\ y.entries[d][u].scope = "singleton"
                                 /\ Good(<<d, u>>)
            BY DEF Near
          <5>1. CASE <<d, u>> = <<h, t>>
            BY <2>6, <3>1, <4>2, <4>3, <5>1
          <5>2. CASE <<d, u>> # <<h, t>>
            BY <2>6, <4>3, <5>2 DEF Near
          <5>3. QED
            BY <5>1, <5>2
        <4>5. Keeps(s, y)
          <5> SUFFICES ASSUME NEW d \in Containers, NEW u \in Tokens, s.entries[d][u].is = "value"
                       PROVE  y.entries[d][u] = s.entries[d][u]
            BY DEF Keeps
          <5>1. <<d, u>> # <<h, t>>
            OBVIOUS
          <5>2. QED
            BY <2>7, <4>3, <5>1 DEF Keeps
        <4>6. GivesOwn(m, y)
          <5>1. m[1] = h /\ m[2] = t
            OBVIOUS
          <5>2. QED
            BY <4>2, <4>3, <5>1 DEF GivesOwn
        <4>7. QED
          BY <2>6, <4>3, <4>4, <4>5, <4>6
      <3>2. CASE ~(x.out.is = "instance" /\ entry.scope = "singleton")
        <4>1. y = x
          BY <3>2 DEF Kept
        <4>2. x.out.is = "instance" => GivesOwn(m, x)
          <5>1. SUFFICES ASSUME x.out.is = "instance" PROVE GivesOwn(m, x)
            OBVIOUS
          <5>2. x.entries[h][t].is # "value"
            BY <2>6, <3>2, <5>1, StaysFactory
          <5>3. m[1] = h /\ m[2] = t
            OBVIOUS
          <5>4. QED
            BY <5>2, <5>3 DEF GivesOwn
        <4>3. QED
          BY <2>6, <2>7, <4>1, <4>2
      <3>3. QED
        BY <3>1, <3>2
    <2> HIDE DEF y
    <2>9. z \in States /\ z.out = y.out /\ z.entries = y.entries /\ z.resolving = s.resolving
      <3> DEFINE T == y.resolving[h] \ {t}
      <3>1. z = [y EXCEPT !.resolving[h] = T]
        BY DEF Released
      <3>2. y.resolving \in [Containers -> SUBSET Tokens]
        BY <2>8, StateParts
      <3>3. T \in SUBSET Tokens
        BY <3>2
      <3>4. T = s.resolving[h]
        BY <1>0, <1>2, <2>2, <2>8
      <3>5. [y.resolving EXCEPT ![h] = T] = s.resolving
        BY <1>0, <2>2, <2>8, <3>4
      <3> HIDE DEF T, z
      <3>6. QED
        BY <2>8, <3>1, <3>3, <3>5, WithResolving
    <2> HIDE DEF z
    <2>10. Near(z) /\ Keeps(y, z)
      BY <2>8, <2>9, SameEntries
    <2>11. Keeps(s, z)
      BY <2>8, <2>10, KeepsOn
    <2>12. z.out.is = "instance" => Good(m) /\ GivesOwn(m, z)
      BY <2>6, <2>8, <2>9 DEF GivesOwn
    <2>13. QED
      BY <2>1, <2>6, <2>8, <2>9, <2>10, <2>11, <2>12 DEF Right
  <1>3. QED
    BY <1>1, <1>2

\* One level of calls, when the calls below are right.
LEMMA LevelRight ==
    ASSUME ContainerType, NEW r \in Nodes, NEW n \in 1..StackDepth, AllRight(n - 1, r)
    PROVE  AllRight(n, r)
  <1> SUFFICES ASSUME NEW c \in Containers, NEW t \in Tokens, NEW s \in States,
                      Near(s), Under(r, Node(c, t), s.resolving), Room(r, Node(c, t), n)
               PROVE  Right(r, Node(c, t), s, resolved[n][<<c, t, s>>])
    BY DEF AllRight
  <1> DEFINE h == Home(c, t)
             m == <<h, t>>
             e == s.entries[h][t]
             s2 == resolveIn(resolved[n - 1], h, t, s)
  <1>1. h \in Containers /\ m \in Nodes /\ Node(c, t) = m /\ m[1] = h /\ m[2] = t
    BY HomeIs
  <1>2. resolved[n][<<c, t, s>>] = s2
    <2>1. n \in 0..StackDepth /\ n # 0
      BY ContainerAssumption
    <2>2. QED
      BY <2>1, ResolvedAt
  <1> HIDE DEF h
  <1>3. e \in Entries /\ entries[h][t] \in Entries
    BY <1>1, StateParts DEF ContainerType
  <1>4. e = entries[h][t] \/ (e.is = "value" /\ entries[h][t].is = "factory" /\ Good(m))
    BY <1>1 DEF Near
  <1>5. Under(r, m, s.resolving) /\ Room(r, m, n) /\ m \in Closure({r})
    BY <1>1 DEF Under
  <1>6. SUFFICES Right(r, m, s, s2)
    BY <1>1, <1>2
  <1>7. ASSUME NEW i \in Instances \cup {Nothing}, s2 = Answers(s, i), Good(m),
               overrides[h][t] # Nothing => i = overrides[h][t],
               overrides[h][t] = Nothing /\ e.is = "value" => i = e.instance
        PROVE  Right(r, m, s, s2)
    <2>1. /\ s2 \in States /\ s2.out = Returns(i) /\ s2.entries = s.entries /\ s2.resolving = s.resolving
      BY <1>7, AnswersAndFails
    <2>2. s2.out.is = "instance" /\ s2.out.instance = i
      BY <2>1, KindsOfResults
    <2> HIDE DEF s2
    <2>3. Near(s2) /\ Keeps(s, s2)
      BY <2>1, SameEntries
    <2>4. GivesOwn(m, s2)
      BY <1>1, <1>7, <2>1, <2>2 DEF GivesOwn
    <2>5. QED
      BY <1>7, <2>1, <2>2, <2>3, <2>4 DEF Right, ReasonIs
  <1>8. CASE overrides[h][t] # Nothing
    <2>1. s2 = Answers(s, overrides[h][t])
      BY <1>8 DEF resolveIn
    <2>2. overrides[h][t] \in Instances \cup {Nothing}
      BY <1>1 DEF ContainerType
    <2>3. Good(m)
      BY <1>1, <1>8, GoodLeaf DEF has
    <2>4. QED
      BY <1>7, <1>8, <2>1, <2>2, <2>3
  <1>9. CASE overrides[h][t] = Nothing /\ e.is = "nothing"
    <2>1. s2 = Fails(s, "missing")
      BY <1>9 DEF resolveIn
    <2>2. entries[h][t] = Nothing
      BY <1>3, <1>4, <1>9, KindsOfEntries
    <2>3. Missing(r)
      BY <1>1, <1>5, <1>9, <2>2 DEF Missing, has
    <2>4. /\ s2 \in States /\ s2.out.is = "error" /\ s2.out.why = "missing"
          /\ s2.entries = s.entries /\ s2.resolving = s.resolving
      BY <2>1, FailsIs DEF Reasons
    <2> HIDE DEF s2
    <2>5. Near(s2) /\ Keeps(s, s2)
      BY <2>4, SameEntries
    <2>6. QED
      BY <2>3, <2>4, <2>5 DEF Right, ReasonIs
  <1>10. CASE overrides[h][t] = Nothing /\ e.is = "value"
    <2>1. s2 = Answers(s, e.instance)
      BY <1>10 DEF resolveIn
    <2>2. e.instance \in Instances
      BY <1>3, <1>10, KindsOfEntries
    <2>3. Good(m)
      <3>1. CASE e = entries[h][t]
        <4>1. has(h, t)
          BY <1>10, <3>1 DEF has, Nothing
        <4>2. QED
          BY <1>1, <1>10, <3>1, <4>1, GoodLeaf
      <3>2. QED
        BY <1>4, <3>1
    <2>4. QED
      BY <1>7, <1>10, <2>1, <2>2, <2>3
  <1>11. CASE overrides[h][t] = Nothing /\ e.is = "factory"
    <2>1. e = entries[h][t]
      BY <1>4, <1>11
    <2>2. CASE e.scope = "transient"
      <3> DEFINE x == Called(resolved[n - 1], h, t, entries[h][t].dependencies, s)
      <3>1. s2 = x
        BY <1>11, <2>1, <2>2 DEF resolveIn
      <3>2. \A d \in Containers : \A u \in s.resolving[d] :
               <<d, u>> \in Closure({r}) /\ (<<d, u>> = <<h, t>> \/ <<h, t>> \in Closure(Asks(<<d, u>>)))
        BY <1>5 DEF Under
      <3>3. /\ x \in States /\ Near(x) /\ x.resolving = s.resolving /\ Keeps(s, x)
            /\ ReasonIs(r, x.out)
            /\ x.out.is = "instance" => Good(m) /\ x.out.instance \in Instances
        BY <1>1, <1>5, <1>11, <2>1, <3>2, CalledRight, SMTT(60)
      <3> HIDE DEF x
      <3>4. x.entries[h][t].is # "value"
        BY <1>1, <1>11, <2>1, <2>2, <3>3, StaysFactory
      <3>5. GivesOwn(m, x)
        BY <1>1, <1>11, <3>4 DEF GivesOwn
      <3>6. QED
        BY <3>1, <3>3, <3>5 DEF Right
    <2>3. CASE e.scope # "transient"
      <3>1. s2 = guarded(resolved[n - 1], h, t, entries[h][t], s)
        BY <1>11, <2>1, <2>3 DEF resolveIn
      <3>2. QED
        BY <1>1, <1>5, <1>11, <2>1, <3>1, GuardedRight
    <2>4. QED
      BY <2>2, <2>3
  <1>12. QED
    BY <1>3, <1>8, <1>9, <1>10, <1>11, KindsOfEntries

LEMMA EveryCallRight ==
    ASSUME ContainerType, NEW r \in Nodes, NEW n \in 0..StackDepth
    PROVE  AllRight(n, r)
  <1> DEFINE Done == {k \in Nat : k <= StackDepth => AllRight(k, r)}
  <1>1. 0 \in Done
    <2> SUFFICES ASSUME NEW c \in Containers, NEW t \in Tokens, NEW s \in States,
                        Near(s), Under(r, Node(c, t), s.resolving), Room(r, Node(c, t), 0)
                 PROVE  Right(r, Node(c, t), s, resolved[0][<<c, t, s>>])
      BY DEF AllRight
    <2> DEFINE s2 == resolved[0][<<c, t, s>>]
    <2>1. s2 = Fails(s, "overflow")
      BY ResolvedAt, ContainerAssumption
    <2>2. /\ s2 \in States /\ s2.out.is = "error" /\ s2.out.why = "overflow"
          /\ s2.entries = s.entries /\ s2.resolving = s.resolving
      BY <2>1, FailsIs DEF Reasons
    <2>3. Cyclic(r)
      BY HomeIs, NoRoomIsCyclic DEF Under
    <2> HIDE DEF s2
    <2>4. Near(s2) /\ Keeps(s, s2)
      BY <2>2, SameEntries
    <2>5. QED
      BY <2>2, <2>3, <2>4 DEF Right, ReasonIs, s2
  <1>2. ASSUME NEW k \in Nat, k \in Done
        PROVE  k + 1 \in Done
    <2>1. SUFFICES ASSUME k + 1 <= StackDepth PROVE AllRight(k + 1, r)
      OBVIOUS
    <2>2. k + 1 \in 1..StackDepth /\ (k + 1) - 1 = k /\ AllRight(k, r)
      BY <1>2, <2>1, ContainerAssumption
    <2>3. QED
      BY <2>2, LevelRight
  <1>3. \A k \in Nat : k \in Done
    <2>1. Done \subseteq Nat
      OBVIOUS
    <2> HIDE DEF Done
    <2>2. QED
      BY <1>1, <1>2, <2>1, UpToAll
  <1>4. QED
    BY <1>3, ContainerAssumption

-----------------------------------------------------------------------------
(* What is held between the calls.                                         *)

HeldIsKept ==
    \A c \in Containers, t \in Tokens :
        held[c][t] # Nothing => entries[c][t] = Value("singleton", held[c][t])

HoldsNothingBefore == \A c \in Containers \ created : \A t \in Tokens : held[c][t] = Nothing

ContainerInv == ContainerType /\ HeldIsKept /\ HoldsNothingBefore

\* The action of ResolvesAsRegistered.
Resolves(c, t, o) ==
    /\ o.is = "instance" <=> ~Missing(Node(c, t)) /\ ~Cyclic(Node(c, t))
    /\ o.is = "error" => IF o.why = "missing" THEN Missing(Node(c, t)) ELSE Cyclic(Node(c, t))
    /\ overrides[c][t] # Nothing => o.instance = overrides[c][t]
    /\ held[c][t] # Nothing /\ overrides[c][t] = Nothing => o.instance = held[c][t]

\* The state of such a call when it starts.
Begun == [entries |-> entries, resolving |-> resolving, out |-> Returns(Nothing)]

\* A call that is no part of another one.
LEMMA OutermostRight ==
    ASSUME ContainerType, NEW c \in Containers, NEW t \in Tokens
    PROVE  Right(Node(c, t), Node(c, t), Begun, resolved[StackDepth][<<c, t, Begun>>])
  <1> DEFINE r == Node(c, t)
             s == Begun
  <1>1. r \in Nodes
    BY HomeIs
  <1>2. s \in States /\ s.entries = entries /\ s.resolving = [d \in Containers |-> {}]
    <2>1. Returns(Nothing) \in Results
      BY KindsOfResults
    <2>2. QED
      BY <2>1 DEF Begun, States, ContainerType
  <1>3. Near(s)
    BY <1>2 DEF Near
  <1>4. r \in Closure({r})
    BY <1>1, ClosureHas
  <1>5. Under(r, r, s.resolving)
    BY <1>2, <1>4 DEF Under
  <1>6. Room(r, r, StackDepth)
    <2>1. Cardinality({}) + StackDepth >= StackDepth
      BY FS_EmptySet, ContainerAssumption
    <2>2. QED
      BY <2>1 DEF Room
  <1>7. AllRight(StackDepth, r)
    BY <1>1, EveryCallRight, ContainerAssumption
  <1> HIDE DEF r, s
  <1>8. Right(r, r, s, resolved[StackDepth][<<c, t, s>>])
    BY <1>2, <1>3, <1>5, <1>6, <1>7 DEF AllRight, r
  <1>9. QED
    BY <1>8 DEF r, s

\* What the step of a resolve does, with the state that its calls leave.
LEMMA ResolveStep ==
    ASSUME ContainerInv, NEW c \in Containers, NEW t \in Tokens, resolve(c, t)
    PROVE  ContainerInv' /\ last'.c = c /\ last'.token = t /\ Resolves(c, t, last'.out)
  <1> DEFINE r == Node(c, t)
             s == resolved[StackDepth][<<c, t, Begun>>]
  <1>1. /\ s \in States /\ Near(s) /\ s.resolving = Begun.resolving /\ Keeps(Begun, s)
        /\ ReasonIs(r, s.out)
        /\ s.out.is = "instance" => Good(r) /\ GivesOwn(r, s)
    BY OutermostRight DEF Right, ContainerInv
  <1>2. /\ entries' = s.entries /\ resolving' = s.resolving /\ created' = created /\ overrides' = overrides
        /\ last' = [is |-> "resolve", c |-> c, token |-> t, out |-> s.out]
        /\ c \in created
        /\ held' = IF /\ s.out.is = "instance" /\ overrides[c][t] = Nothing
                      /\ s.entries[c][t].is = "value" /\ s.entries[c][t].scope = "singleton"
                   THEN [held EXCEPT ![c][t] = s.out.instance]
                   ELSE held
    BY DEF resolve, Begun
  <1> HIDE DEF s
  <1>3. /\ s.entries \in [Containers -> [Tokens -> Entries]] /\ s.out \in Results
        /\ s.resolving = [d \in Containers |-> {}]
    BY <1>1, StateParts DEF Begun, ContainerInv, ContainerType
  <1>4. \A d \in Containers, u \in Tokens : entries[d][u].is = "value" => s.entries[d][u] = entries[d][u]
    BY <1>1 DEF Keeps, Begun
  <1>5. \A d \in Containers, u \in Tokens : held[d][u] # Nothing => s.entries[d][u] = Value("singleton", held[d][u])
    BY <1>4 DEF ContainerInv, HeldIsKept, Value
  <1>6. s.out.is \in {"instance", "error"} /\ (s.out.is = "instance" => s.out.instance \in Instances \cup {Nothing})
    BY <1>3, KindsOfResults
  <1>7. overrides[c][t] # Nothing \/ s.entries[c][t].is = "value" => r = <<c, t>> /\ r[1] = c /\ r[2] = t
    <2>1. ASSUME overrides[c][t] # Nothing \/ s.entries[c][t].is = "value" PROVE has(c, t)
      <3>1. CASE overrides[c][t] # Nothing
        BY <3>1 DEF has
      <3>2. CASE s.entries[c][t].is = "value"
        <4>1. entries[c][t].is \in {"value", "factory"}
          BY <1>1, <3>2 DEF Near
        <4>2. QED
          BY <4>1 DEF has, Nothing
      <3>3. QED
        BY <2>1, <3>1, <3>2
    <2>2. QED
      BY <2>1, HomeIs
  <1>8. ContainerType'
    <2>1. held' \in [Containers -> [Tokens -> Instances \cup {Nothing}]]
      BY <1>2, <1>6 DEF ContainerInv, ContainerType
    <2>2. QED
      BY <1>2, <1>3, <2>1 DEF ContainerInv, ContainerType
  <1>9. HeldIsKept'
    <2> SUFFICES ASSUME NEW d \in Containers, NEW u \in Tokens, held'[d][u] # Nothing
                 PROVE  s.entries[d][u] = Value("singleton", held'[d][u])
      BY <1>2 DEF HeldIsKept
    <2>1. CASE held'[d][u] = held[d][u]
      BY <1>5, <2>1
    <2>2. CASE held'[d][u] # held[d][u]
      <3>1. /\ d = c /\ u = t /\ held'[d][u] = s.out.instance /\ s.out.is = "instance" /\ overrides[c][t] = Nothing
            /\ s.entries[c][t].is = "value" /\ s.entries[c][t].scope = "singleton"
        BY <1>2, <2>2 DEF ContainerInv, ContainerType
      <3>2. s.out.instance = s.entries[c][t].instance
        BY <1>1, <1>7, <3>1 DEF GivesOwn
      <3>3. s.entries[c][t] = Value("singleton", s.entries[c][t].instance)
        BY <1>3, <3>1, KindsOfEntries
      <3>4. QED
        BY <3>1, <3>2, <3>3
    <2>3. QED
      BY <2>1, <2>2
  <1>10. HoldsNothingBefore'
    BY <1>2 DEF ContainerInv, ContainerType, HoldsNothingBefore
  <1>11. Good(r) => s.out.is = "instance"
    BY <1>1, <1>6 DEF ReasonIs, Good
  <1>12. ASSUME overrides[c][t] # Nothing PROVE s.out.instance = overrides[c][t]
    <2>1. Good(r)
      BY <1>7, <1>12, GoodLeaf, HomeIs DEF ContainerInv, has
    <2>2. QED
      BY <1>1, <1>7, <1>11, <1>12, <2>1 DEF GivesOwn
  <1>13. ASSUME held[c][t] # Nothing, overrides[c][t] = Nothing PROVE s.out.instance = held[c][t]
    <2>1. /\ entries[c][t] = Value("singleton", held[c][t]) /\ entries[c][t].is = "value"
          /\ s.entries[c][t] = entries[c][t] /\ s.entries[c][t].scope = "singleton"
          /\ s.entries[c][t].instance = held[c][t]
      BY <1>5, <1>13 DEF ContainerInv, HeldIsKept, Value
    <2>2. r = <<c, t>> /\ r[1] = c /\ r[2] = t
      BY <1>7, <2>1
    <2>3. Good(r)
      <3>1. has(c, t)
        BY <2>1 DEF has, Nothing, Value
      <3>2. QED
        BY <2>1, <2>2, <3>1, GoodLeaf, HomeIs DEF ContainerInv
    <2>4. QED
      BY <1>1, <1>11, <1>13, <2>1, <2>2, <2>3 DEF GivesOwn
  <1>14. Resolves(c, t, s.out)
    BY <1>1, <1>6, <1>11, <1>12, <1>13 DEF Resolves, Good, ReasonIs
  <1>15. QED
    BY <1>2, <1>8, <1>9, <1>10, <1>14 DEF ContainerInv

\* The step of a call that puts an entry in the place of a token's.
LEMMA RegistersStep ==
    ASSUME ContainerInv, NEW c \in Containers, NEW t \in Tokens, NEW e \in Entries, Registers(c, t, e)
    PROVE  ContainerInv' /\ last' = Nothing
  <1>1. /\ entries' = [entries EXCEPT ![c][t] = e] /\ overrides' = [overrides EXCEPT ![c][t] = Nothing]
        /\ held' = [held EXCEPT ![c][t] = Nothing] /\ created' = created /\ resolving' = resolving
        /\ last' = Nothing
    BY DEF Registers, Changes
  <1>2. ContainerType'
    BY <1>1 DEF ContainerInv, ContainerType
  <1>3. HeldIsKept'
    <2> SUFFICES ASSUME NEW d \in Containers, NEW u \in Tokens, held'[d][u] # Nothing
                 PROVE  entries'[d][u] = Value("singleton", held'[d][u])
      BY DEF HeldIsKept
    <2>1. <<d, u>> # <<c, t>>
      BY <1>1 DEF ContainerInv, ContainerType
    <2>2. held'[d][u] = held[d][u] /\ entries'[d][u] = entries[d][u]
      BY <1>1, <2>1 DEF ContainerInv, ContainerType
    <2>3. QED
      BY <2>2 DEF ContainerInv, HeldIsKept
  <1>4. HoldsNothingBefore'
    BY <1>1 DEF ContainerInv, ContainerType, HoldsNothingBefore
  <1>5. QED
    BY <1>1, <1>2, <1>3, <1>4 DEF ContainerInv

LEMMA OverrideStep ==
    ASSUME ContainerInv, NEW c \in Containers, NEW t \in Tokens, override(c, t)
    PROVE  ContainerInv' /\ last' = Nothing
  <1>1. Instance(t, -1) \in Instances
    BY DEF Instance, Instances
  <1>2. /\ overrides' = [overrides EXCEPT ![c][t] = Instance(t, -1)] /\ entries' = entries /\ held' = held
        /\ created' = created /\ resolving' = resolving /\ last' = Nothing
    BY DEF override, Changes
  <1>3. ContainerType'
    BY <1>1, <1>2 DEF ContainerInv, ContainerType
  <1>4. QED
    BY <1>2, <1>3 DEF ContainerInv, HeldIsKept, HoldsNothingBefore

LEMMA ForkStep ==
    ASSUME ContainerInv, NEW fork \in Forks, createRequestScope(fork)
    PROVE  ContainerInv' /\ last' = Nothing
  <1> DEFINE copied == [t \in Tokens |-> IF entries[Root][t] = Nothing \/ entries[Root][t].scope = "request"
                                         THEN Nothing ELSE entries[Root][t]]
  <1>1. /\ entries' = [entries EXCEPT ![fork] = copied] /\ created' = created \cup {fork} /\ fork \notin created
        /\ overrides' = overrides /\ resolving' = resolving /\ held' = held /\ last' = Nothing
    BY DEF createRequestScope
  <1>2. fork \in Containers /\ Root \in Containers
    BY DEF Containers
  <1>3. copied \in [Tokens -> Entries]
    BY <1>2 DEF ContainerInv, ContainerType, Entries
  <1> HIDE DEF copied
  <1>4. ContainerType'
    BY <1>1, <1>2, <1>3 DEF ContainerInv, ContainerType
  <1>5. HeldIsKept'
    <2> SUFFICES ASSUME NEW d \in Containers, NEW u \in Tokens, held[d][u] # Nothing
                 PROVE  entries'[d][u] = Value("singleton", held[d][u])
      BY <1>1 DEF HeldIsKept
    <2>1. d # fork
      BY <1>1, <1>2 DEF ContainerInv, HoldsNothingBefore
    <2>2. QED
      BY <1>1, <2>1 DEF ContainerInv, ContainerType, HeldIsKept
  <1>6. HoldsNothingBefore'
    BY <1>1 DEF ContainerInv, HoldsNothingBefore
  <1>7. QED
    BY <1>1, <1>4, <1>5, <1>6 DEF ContainerInv

LEMMA ContainerInitInv ==
    ContainerInit => ContainerInv
  <1> SUFFICES ASSUME ContainerInit PROVE ContainerInv
    OBVIOUS
  <1>1. Nothing \in Entries /\ NoTokens \in [Tokens -> Entries] /\ NoTokens \in [Tokens -> Instances \cup {Nothing}]
    BY DEF Entries, NoTokens
  <1>2. ContainerType
    BY <1>1 DEF ContainerInit, ContainerType, Containers
  <1>3. HeldIsKept /\ HoldsNothingBefore
    BY DEF ContainerInit, HeldIsKept, HoldsNothingBefore, NoTokens
  <1>4. QED
    BY <1>2, <1>3 DEF ContainerInv

\* Every step keeps the invariant and is a right resolve or none.
LEMMA ContainerStep ==
    ASSUME ContainerInv, ContainerNext
    PROVE  /\ ContainerInv'
           /\ \/ last' = Nothing
              \/ \E c \in Containers, t \in Tokens :
                    last'.c = c /\ last'.token = t /\ Resolves(c, t, last'.out)
  <1>1. CASE \E c \in Containers, t \in Tokens : resolve(c, t)
    <2>1. PICK c \in Containers, t \in Tokens : resolve(c, t)
      BY <1>1
    <2>2. ContainerInv' /\ last'.c = c /\ last'.token = t /\ Resolves(c, t, last'.out)
      BY <2>1, ResolveStep
    <2>3. QED
      BY <2>2
  <1>2. CASE \E c \in Containers, t \in Tokens : override(c, t)
    BY <1>2, OverrideStep
  <1>3. CASE \E c \in Containers, t \in Tokens, scope \in Scopes : register(c, t, scope)
    <2>1. PICK c \in Containers, t \in Tokens, scope \in Scopes : register(c, t, scope)
      BY <1>3
    <2>2. Value(scope, Instance(t, 0)) \in Entries
      BY DEF Value, Instance, Instances, Entries
    <2>3. QED
      BY <2>1, <2>2, RegistersStep DEF register
  <1>4. CASE \E c \in Containers, t \in Tokens, scope \in Scopes, d \in Dependencies : registerFactory(c, t, scope, d)
    <2>1. PICK c \in Containers, t \in Tokens, scope \in Scopes, d \in Dependencies : registerFactory(c, t, scope, d)
      BY <1>4
    <2>2. Factory(scope, d) \in Entries
      BY ContainerAssumption DEF Factory, Entries
    <2>3. QED
      BY <2>1, <2>2, RegistersStep DEF registerFactory
  <1>5. CASE \E fork \in Forks : createRequestScope(fork)
    BY <1>5, ForkStep
  <1>6. QED
    BY <1>1, <1>2, <1>3, <1>4, <1>5 DEF ContainerNext

\* A resolve returns exactly when everything its token needs is registered and no part
\* of it needs itself, and otherwise throws for a reason there is; an override, and a
\* singleton that was given, are given again.  For every set of tokens, forks and
\* factories, and a stack that has room for one factory of every token and container.
THEOREM ResolvesAsRegisteredHolds == ContainerSpec => ResolvesAsRegistered
  <1> DEFINE Act == last' # Nothing =>
                       LET c == last'.c
                           t == last'.token
                       IN /\ last'.out.is = "instance" <=> ~Missing(Node(c, t)) /\ ~Cyclic(Node(c, t))
                          /\ last'.out.is = "error" =>
                                IF last'.out.why = "missing" THEN Missing(Node(c, t)) ELSE Cyclic(Node(c, t))
                          /\ overrides[c][t] # Nothing => last'.out.instance = overrides[c][t]
                          /\ held[c][t] # Nothing /\ overrides[c][t] = Nothing => last'.out.instance = held[c][t]
  <1>1. ContainerInit => ContainerInv
    BY ContainerInitInv
  <1>2. ContainerInv /\ [ContainerNext]_containerVars => ContainerInv'
    <2>1. CASE UNCHANGED containerVars
      BY <2>1 DEF containerVars, ContainerInv, ContainerType, HeldIsKept, HoldsNothingBefore
    <2>2. QED
      BY <2>1, ContainerStep
  <1>3. ContainerInv /\ [ContainerNext]_containerVars => [Act]_containerVars
    <2> SUFFICES ASSUME ContainerInv, ContainerNext PROVE Act
      OBVIOUS
    <2>1. CASE last' = Nothing
      BY <2>1
    <2>2. CASE last' # Nothing
      BY <2>2, ContainerStep DEF Resolves
    <2>3. QED
      BY <2>1, <2>2
  <1>4. ContainerSpec => [][Act]_containerVars
    <2> HIDE DEF Act
    <2>1. QED
      BY <1>1, <1>2, <1>3, PTL DEF ContainerSpec
  <1>5. QED
    BY <1>4 DEF ResolvesAsRegistered

=============================================================================
