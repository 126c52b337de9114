-------------------------- MODULE RequestLifecycle --------------------------
(***************************************************************************)
(* What a compiled route promises for ONE request, whatever hooks it has   *)
(* and whichever compiled form (full pipeline, fast path) serves it.       *)
(*                                                                         *)
(* A request is guarded (derive ... beforeHandle), may be refused by a     *)
(* guard, is otherwise handled, and gets exactly one reply.  Observers     *)
(* (onAfterResponse) watch it at most once, and never a request whose      *)
(* error was given to the error path.                                      *)
(***************************************************************************)

VARIABLES
    stage,    \* where the request is
    reply,    \* what the caller was given
    watched   \* have the observers been started?

vars == <<stage, reply, watched>>

Stages == {"guarding", "refusing", "handling", "failing", "settled"}
Replies == {"none", "refused", "answered", "failed"}

TypeOK ==
    /\ stage \in Stages
    /\ reply \in Replies
    /\ watched \in BOOLEAN

\* A route without guards starts in its handler.
Init ==
    /\ stage \in {"guarding", "handling"}
    /\ reply = "none"
    /\ watched = FALSE

Settle(r) ==
    /\ stage' = "settled"
    /\ reply' = r

\* Every guard let the request through.
Admit ==
    /\ stage = "guarding"
    /\ stage' = "handling"
    /\ UNCHANGED <<reply, watched>>

\* A guard answered instead of the handler; its answer is still to be mapped.
Deny ==
    /\ stage = "guarding"
    /\ stage' = "refusing"
    /\ UNCHANGED <<reply, watched>>

Refuse ==
    /\ stage \in {"guarding", "refusing"}
    /\ Settle("refused")
    /\ watched' \in {watched, TRUE}

Answer ==
    /\ stage = "handling"
    /\ Settle("answered")
    /\ watched' \in {watched, TRUE}

\* An exception: the error path takes over, and nothing observes the request.
Break ==
    /\ stage \in {"guarding", "handling"}
    /\ ~watched
    /\ stage' = "failing"
    /\ UNCHANGED <<reply, watched>>

\* Only a refused request may already be watched when its mapping fails.
Fail ==
    /\ \/ stage \in {"guarding", "handling", "failing"} /\ ~watched /\ UNCHANGED watched
       \/ stage = "refusing" /\ watched' \in {watched, TRUE}
    /\ Settle("failed")

Watch ==
    /\ stage = "refusing"
    /\ ~watched
    /\ watched' = TRUE
    /\ UNCHANGED <<stage, reply>>

Next == Admit \/ Deny \/ Refuse \/ Answer \/ Break \/ Fail \/ Watch

\* What a request may go through, and the one reply it is eventually given.
Safety == Init /\ [][Next]_vars
Spec == Safety /\ <>(stage = "settled")

=============================================================================
