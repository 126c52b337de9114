---------------------------- MODULE Idempotency -----------------------------
(***************************************************************************)
(* The idempotency plugin (packages/idempotency/src/index.ts): an async    *)
(* beforeHandle hook and an async mapResponse hook that run, for every     *)
(* request, on each side of the handler.                                   *)
(*                                                                         *)
(* What the two hooks tell each other they keep in ctx.store, and that is  *)
(* app.store, one object for all requests (OgerContext's constructor, and  *)
(* the options.store that compilePipeline hands it).  Requests interleave  *)
(* wherever a hook or the handler awaits.                                  *)
(*                                                                         *)
(* A body, and a promise of the in-flight table, are named by the request  *)
(* that made them.                                                         *)
(***************************************************************************)
EXTENDS Naturals, Sequences

CONSTANTS
    Requests,
    Keys,
    keyOf,        \* the Idempotency-Key of a request of the deduplicated methods
    Key,          \* any key, the one whose requests Once looks at
    None          \* no key, no promise, no record

ASSUME ConstantsAssumption ==
    /\ None \notin Requests \cup Keys \cup Seq(Requests)
    /\ Key \in Keys
    /\ keyOf \in [Requests -> Keys \cup {None}]

VARIABLES
    phase,        \* where each request is
    found,        \* the fresh record store.get() gave to a request
    awaited,      \* the in-flight promise a request waits for
    target,       \* key and promise captured by a request's mapResponse hook
    reply,        \* the body each request was answered with
    sharedKey,    \* ctx.store._idempotencyKey
    skipStore,    \* ctx.store._idempotencySkipStore
    resolver,     \* ctx.store._idempotencyResolve
    inflight,     \* the module's in-flight table
    settled,      \* the record each in-flight promise was resolved with
    records,      \* the fresh record of each key
    queue         \* requests awaiting a memory store: microtasks are a FIFO;
                  \* None with a store that answers over a network

perRequest == <<phase, found, awaited, target, reply>>
appStore == <<sharedKey, skipStore, resolver>>
tables == <<inflight, settled, records>>
vars == <<perRequest, appStore, tables, queue>>

Phases == {"idle", "looking", "waiting", "handling", "serializing", "saving",
           "answered", "failed"}
Target == [key : Keys \cup {None}, promise : Requests \cup {None}]

TypeOK ==
    /\ phase \in [Requests -> Phases]
    /\ found \in [Requests -> Requests \cup {None}]
    /\ awaited \in [Requests -> Requests \cup {None}]
    /\ target \in [Requests -> Target]
    /\ reply \in [Requests -> Requests \cup {None}]
    /\ sharedKey \in Keys \cup {None}
    /\ skipStore \in BOOLEAN
    /\ resolver \in Requests \cup {None}
    /\ inflight \in [Keys -> Requests \cup {None}]
    /\ settled \in [Requests -> Requests \cup {None}]
    /\ records \in [Keys -> Requests \cup {None}]
    /\ queue \in Seq(Requests) \cup {None}
    /\ \A r \in Requests :
         /\ phase[r] \in {"looking", "waiting"} => keyOf[r] # None
         /\ phase[r] = "waiting" => awaited[r] # None
         /\ phase[r] \in {"serializing", "saving"} =>
                target[r].key # None /\ target[r].promise # None

Init ==
    /\ phase = [r \in Requests |-> "idle"]
    /\ found = [r \in Requests |-> None]
    /\ awaited = [r \in Requests |-> None]
    /\ target = [r \in Requests |-> [key |-> None, promise |-> None]]
    /\ reply = [r \in Requests |-> None]
    /\ sharedKey = None
    /\ skipStore = FALSE
    /\ resolver = None
    /\ inflight = [k \in Keys |-> None]
    /\ settled = [r \in Requests |-> None]
    /\ records = [k \in Keys |-> None]
    /\ queue \in {<<>>, None}

-----------------------------------------------------------------------------
(* The record store: `await store.get(key)`, `await store.set(key, record)`. *)

\* Is the record store createMemoryIdempotencyStore()?
MemoryStore == queue # None

\* The call is made; its continuation is queued.
Awaits(r) == queue' = IF MemoryStore THEN Append(queue, r) ELSE queue

\* The continuation runs: in the order of the calls for a memory store, in
\* any order for a store that answers over a network.
Continues(r) ==
    IF MemoryStore
    THEN queue # <<>> /\ Head(queue) = r /\ queue' = Tail(queue)
    ELSE UNCHANGED queue

Enter(r, p) == phase' = [phase EXCEPT ![r] = p]

Reply(r, body) ==
    /\ Enter(r, "answered")
    /\ reply' = [reply EXCEPT ![r] = body]

-----------------------------------------------------------------------------
(* The beforeHandle hook. *)

\* Another method, or no key: the hook returns and the handler is called.
Pass(r) ==
    /\ phase[r] = "idle"
    /\ keyOf[r] = None
    /\ Enter(r, "handling")
    /\ UNCHANGED <<found, awaited, target, reply, appStore, tables, queue>>

Lookup(r) ==
    /\ phase[r] = "idle"
    /\ keyOf[r] # None
    /\ sharedKey' = keyOf[r]
    /\ found' = [found EXCEPT ![r] = records[keyOf[r]]]
    /\ Enter(r, "looking")
    /\ Awaits(r)
    /\ UNCHANGED <<awaited, target, reply, skipStore, resolver, tables>>

\* The record was found: the handler is not called, and the mapResponse hook
\* returns at its first line.
Replay(r) ==
    /\ phase[r] = "looking"
    /\ found[r] # None
    /\ Continues(r)
    /\ skipStore' = TRUE
    /\ Reply(r, found[r])
    /\ UNCHANGED <<found, awaited, target, sharedKey, resolver, tables>>

\* Another request with the key is in flight.
Join(r) ==
    /\ phase[r] = "looking"
    /\ found[r] = None
    /\ inflight[keyOf[r]] # None
    /\ Continues(r)
    /\ skipStore' = TRUE
    /\ awaited' = [awaited EXCEPT ![r] = inflight[keyOf[r]]]
    /\ Enter(r, "waiting")
    /\ UNCHANGED <<found, target, reply, sharedKey, resolver, tables>>

\* Slip: the promise is entered under the key that ctx.store holds by then.
ClaimShared(r) ==
    /\ phase[r] = "looking"
    /\ found[r] = None
    /\ inflight[keyOf[r]] = None
    /\ Continues(r)
    /\ inflight' = [inflight EXCEPT ![sharedKey] = r]
    /\ resolver' = r
    /\ Enter(r, "handling")
    /\ UNCHANGED <<found, awaited, target, reply, sharedKey, skipStore, settled, records>>

\* Slip: the in-flight table is not consulted.
ClaimUnseen(r) ==
    /\ phase[r] = "looking"
    /\ found[r] = None
    /\ Continues(r)
    /\ inflight' = [inflight EXCEPT ![keyOf[r]] = r]
    /\ resolver' = r
    /\ Enter(r, "handling")
    /\ UNCHANGED <<found, awaited, target, reply, sharedKey, skipStore, settled, records>>

Claim(r) ==
    /\ phase[r] = "looking"
    /\ found[r] = None
    /\ inflight[keyOf[r]] = None
    /\ Continues(r)
    /\ inflight' = [inflight EXCEPT ![keyOf[r]] = r]
    /\ resolver' = r
    /\ Enter(r, "handling")
    /\ UNCHANGED <<found, awaited, target, reply, sharedKey, skipStore, settled, records>>

\* The in-flight promise was resolved.
Wake(r) ==
    /\ phase[r] = "waiting"
    /\ settled[awaited[r]] # None
    /\ Reply(r, settled[awaited[r]])
    /\ UNCHANGED <<found, awaited, target, appStore, tables, queue>>

-----------------------------------------------------------------------------
(* The handler, and the mapResponse hook. *)

\* The handler threw: run() goes to the error path, past mapResponse.
Throw(r) ==
    /\ phase[r] = "handling"
    /\ Enter(r, "failed")
    /\ UNCHANGED <<found, awaited, target, reply, appStore, tables, queue>>

\* An async handler returned a Response: mapResponse is passed over as well.
ReturnDirectly(r) ==
    /\ phase[r] = "handling"
    /\ Reply(r, r)
    /\ UNCHANGED <<found, awaited, target, appStore, tables, queue>>

Stores == ~skipStore /\ sharedKey # None /\ resolver # None

\* mapResponse has nothing to store.
SkipStore(r) ==
    /\ phase[r] = "handling"
    /\ ~Stores
    /\ Reply(r, r)
    /\ UNCHANGED <<found, awaited, target, appStore, tables, queue>>

\* mapResponse reads ctx.store, then awaits the text of the response.
Capture(r) ==
    /\ phase[r] = "handling"
    /\ Stores
    /\ target' = [target EXCEPT ![r] = [key |-> sharedKey, promise |-> resolver]]
    /\ Enter(r, "serializing")
    /\ UNCHANGED <<found, awaited, reply, appStore, tables, queue>>

\* store.set(key, record)
Save(r) ==
    /\ phase[r] = "serializing"
    /\ records' = [records EXCEPT ![target[r].key] = r]
    /\ Enter(r, "saving")
    /\ Awaits(r)
    /\ UNCHANGED <<found, awaited, target, reply, appStore, inflight, settled>>

\* Slip: the finally clause resolves the promise, whatever became of the store.
SaveFailsHeard(r) ==
    /\ phase[r] = "serializing"
    /\ settled' = [settled EXCEPT ![target[r].promise] = r]
    /\ inflight' = [inflight EXCEPT ![target[r].key] = None]
    /\ Enter(r, "failed")
    /\ UNCHANGED <<found, awaited, target, reply, appStore, records, queue>>

\* The response cannot be serialized, or the store rejects: only the finally
\* clause runs, and the response is lost with the rejected promise.
SaveFails(r) ==
    /\ phase[r] = "serializing"
    /\ inflight' = [inflight EXCEPT ![target[r].key] = None]
    /\ Enter(r, "failed")
    /\ UNCHANGED <<found, awaited, target, reply, appStore, settled, records, queue>>

\* Slip: the promise of the in-flight table is not resolved.
SavedUnheard(r) ==
    /\ phase[r] = "saving"
    /\ Continues(r)
    /\ inflight' = [inflight EXCEPT ![target[r].key] = None]
    /\ Reply(r, r)
    /\ UNCHANGED <<found, awaited, target, appStore, settled, records>>

\* resolveInflight(record), and the finally clause.
Saved(r) ==
    /\ phase[r] = "saving"
    /\ Continues(r)
    /\ settled' = [settled EXCEPT ![target[r].promise] = IF @ = None THEN r ELSE @]
    /\ inflight' = [inflight EXCEPT ![target[r].key] = None]
    /\ Reply(r, r)
    /\ UNCHANGED <<found, awaited, target, appStore, records>>

\* now - createdAt > ttlMs from here on.
Expire(k) ==
    /\ records[k] # None
    /\ records' = [records EXCEPT ![k] = None]
    /\ UNCHANGED <<perRequest, appStore, inflight, settled, queue>>

-----------------------------------------------------------------------------

\* What a request does by itself once it was received.
Progress(r) ==
    \/ Replay(r) \/ Join(r) \/ Claim(r) \/ Wake(r)
    \/ Throw(r) \/ ReturnDirectly(r) \/ SkipStore(r) \/ Capture(r)
    \/ Save(r) \/ SaveFails(r) \/ Saved(r)

Next ==
    \/ \E r \in Requests : Pass(r) \/ Lookup(r) \/ Progress(r)
    \/ \E k \in Keys : Expire(k)

\* Fairness: handlers return and the record store answers.
Spec == Init /\ [][Next]_vars /\ \A r \in Requests : WF_vars(Progress(r))

-----------------------------------------------------------------------------
(* Properties. *)

Working(r) == phase[r] \in {"handling", "serializing", "saving"}

Sharing(k) == {r \in Requests : keyOf[r] = k}

\* What the hooks read in the shared ctx.store was right for k so far: a response
\* that was taken up for k, for the promise of a request with k, or by one, is of
\* a request with k that stores it for itself.
KeptApart(k) ==
    \A r \in Requests :
        target[r].promise # None /\ k \in {keyOf[r], target[r].key, keyOf[target[r].promise]} =>
            keyOf[r] = k /\ target[r] = [key |-> k, promise |-> r]

\* Whatever keys are in use and in whatever order the store answers: a key that
\* was kept apart so far is worked on by one request at a time, and no request
\* that waits for one with it is forgotten.
ApartKeysAreServed ==
    \A k \in Keys : KeptApart(k) =>
        /\ \A r, s \in Sharing(k) : Working(r) /\ Working(s) => r = s
        /\ \A r \in Sharing(k) : phase[r] = "waiting" =>
              \/ settled[awaited[r]] # None
              \/ inflight[k] = awaited[r]
              \/ phase[awaited[r]] = "failed"

\* Who joins a request that already stores its response is answered when the store is,
\* while the key is kept apart.
JoinersOfSaversAreAnswered ==
    \A r \in Requests :
        phase[r] = "waiting" /\ phase[awaited[r]] \in {"serializing", "saving"}
            ~> \/ phase[r] = "answered"
               \/ awaited[r] # None /\ phase[awaited[r]] = "failed"
               \/ ~KeptApart(keyOf[r])

\* What the requests with the key did, as the work of OnceOnly.
Once == INSTANCE OnceOnly WITH
    Requests <- Sharing(Key),
    state <-
        IF records[Key] # None THEN "recorded"
        ELSE IF inflight[Key] # None /\ phase[inflight[Key]] # "saving" THEN "running"
        ELSE "open",
    ran <- {r \in Sharing(Key) : Working(r) \/ phase[r] = "failed" \/ reply[r] = r},
    bodies <- {b \in Sharing(Key) : phase[b] = "saving" \/ \E p \in Sharing(Key) : settled[p] = b},
    reply <- [r \in Sharing(Key) |-> reply[r]]

\* With the memory store and any other requests in between: as long as the key is
\* kept apart, every step is one of OnceOnly, or none.
ApartKeyIsServedOnce ==
    Once!Init /\ [][MemoryStore /\ KeptApart(Key)' => [Once!Next]_Once!vars]_vars

\* Whatever keys are in use: a request waits for one that has its key, even
\* when other requests wrote ctx.store while its own lookup was awaited.
WaitersAwaitTheirKey ==
    \A r \in Requests : awaited[r] # None => keyOf[awaited[r]] = keyOf[r]

\* Whatever keys are in use: no request is given the body of another that
\* failed, or that is still being worked on.
RepliesWereStored ==
    \A r \in Requests : reply[r] \notin {None, r} => phase[reply[r]] \in {"saving", "answered"}

\* A replayed body was produced for the key of the request that gets it.
RepliesBelongToKey ==
    \A r \in Requests : reply[r] # None => reply[r] = r \/ keyOf[reply[r]] = keyOf[r]

=============================================================================
