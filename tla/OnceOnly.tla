------------------------------ MODULE OnceOnly ------------------------------
(***************************************************************************)
(* What an idempotency key promises: while its record lives, the work is   *)
(* done by one request, and every other request that is answered gets the  *)
(* body that work produced.                                                *)
(***************************************************************************)
CONSTANTS Requests, None

VARIABLES
    state,    \* is the work to be done, in progress, or recorded?
    ran,      \* the requests that did the work
    bodies,   \* the results recorded so far, named by who produced them
    reply     \* the result each request was answered with

vars == <<state, ran, bodies, reply>>

Init ==
    /\ state = "open"
    /\ ran = {}
    /\ bodies = {}
    /\ reply = [r \in Requests |-> None]

Start(r) ==
    /\ state = "open"
    /\ r \notin ran
    /\ reply[r] = None
    /\ state' = "running"
    /\ ran' = ran \cup {r}
    /\ UNCHANGED <<bodies, reply>>

Record(r) ==
    /\ state = "running"
    /\ r \in ran \ bodies
    /\ state' = "recorded"
    /\ bodies' = bodies \cup {r}
    /\ UNCHANGED <<ran, reply>>

\* The work failed before it was recorded: another request may do it.
GiveUp ==
    /\ state = "running"
    /\ state' = "open"
    /\ UNCHANGED <<ran, bodies, reply>>

\* The record's time to live is over.
Forget ==
    /\ state = "recorded"
    /\ state' = "open"
    /\ UNCHANGED <<ran, bodies, reply>>

Answer(r, body) ==
    /\ reply[r] = None
    /\ \/ body = r /\ r \in ran
       \/ body \in bodies /\ r \notin ran
    /\ reply' = [reply EXCEPT ![r] = body]
    /\ UNCHANGED <<state, ran, bodies>>

Next ==
    \/ \E r \in Requests : Start(r) \/ Record(r) \/ \E b \in Requests : Answer(r, b)
    \/ GiveUp
    \/ Forget

Spec == Init /\ [][Next]_vars

=============================================================================
