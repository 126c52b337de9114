------------------------- MODULE Idempotency_proofs -------------------------
(***************************************************************************)
(* Theorems about Idempotency, for every set of requests and keys and both *)
(* kinds of record store.                                                  *)
(***************************************************************************)
EXTENDS Idempotency, TLAPS

-----------------------------------------------------------------------------
(* Type correctness. *)

\* A store stays of its kind.
LEMMA QueueType ==
    ASSUME queue \in Seq(Requests) \cup {None}, NEW r \in Requests, Awaits(r) \/ Continues(r)
    PROVE  queue' \in Seq(Requests) \cup {None} /\ MemoryStore' = MemoryStore
  <1> USE ConstantsAssumption DEF MemoryStore
  <1>1. CASE queue = None
    BY <1>1 DEF Awaits, Continues
  <1>2. CASE queue # None
    <2>1. queue' \in Seq(Requests)
      BY <1>2 DEF Awaits, Continues
    <2>2. QED
      BY <1>2, <2>1
  <1>3. QED
    BY <1>1, <1>2

LEMMA InitTypeOK == Init => TypeOK
  <1> SUFFICES ASSUME Init PROVE TypeOK
    OBVIOUS
  <1>1. target \in [Requests -> Target]
    BY DEF Init, Target
  <1>2. queue \in Seq(Requests) \cup {None}
    <2>1. <<>> \in Seq(Requests)
      OBVIOUS
    <2>2. QED
      BY <2>1 DEF Init
  <1>3. phase \in [Requests -> Phases] /\ \A r \in Requests : phase[r] = "idle"
    BY DEF Init, Phases
  <1>4. QED
    BY <1>1, <1>2, <1>3 DEF Init, TypeOK

LEMMA BeforeHandleTypeOK ==
    ASSUME TypeOK, NEW r \in Requests,
           Pass(r) \/ Lookup(r) \/ Replay(r) \/ Join(r) \/ Claim(r) \/ Wake(r)
    PROVE  TypeOK'
  <1> USE ConstantsAssumption DEF TypeOK, Phases, Enter, Reply, appStore, tables
  <1>1. CASE Pass(r)
    BY <1>1 DEF Pass
  <1>2. CASE Lookup(r)
    <2>1. keyOf[r] \in Keys /\ queue' \in Seq(Requests) \cup {None}
      BY <1>2, QueueType DEF Lookup
    <2>2. QED
      BY <1>2, <2>1 DEF Lookup
  <1>3. CASE Replay(r)
    BY <1>3, QueueType DEF Replay
  <1>4. CASE Join(r)
    <2>1. keyOf[r] \in Keys /\ queue' \in Seq(Requests) \cup {None}
      BY <1>4, QueueType DEF Join
    <2>2. QED
      BY <1>4, <2>1 DEF Join
  <1>5. CASE Claim(r)
    <2>1. keyOf[r] \in Keys /\ queue' \in Seq(Requests) \cup {None}
      BY <1>5, QueueType DEF Claim
    <2>2. QED
      BY <1>5, <2>1 DEF Claim
  <1>6. CASE Wake(r)
    <2>1. awaited[r] \in Requests
      BY <1>6 DEF Wake
    <2>2. settled[awaited[r]] \in Requests \cup {None}
      BY <2>1
    <2>3. QED
      BY <1>6, <2>2 DEF Wake
  <1>7. QED
    BY <1>1, <1>2, <1>3, <1>4, <1>5, <1>6

LEMMA MapResponseTypeOK ==
    ASSUME TypeOK, NEW r \in Requests,
           \/ Throw(r) \/ ReturnDirectly(r) \/ SkipStore(r) \/ Capture(r)
           \/ Save(r) \/ SaveFails(r) \/ Saved(r)
    PROVE  TypeOK'
  <1> USE ConstantsAssumption DEF TypeOK, Phases, Enter, Reply, appStore, tables
  <1>1. CASE Throw(r)
    BY <1>1 DEF Throw
  <1>2. CASE ReturnDirectly(r) \/ SkipStore(r)
    BY <1>2 DEF ReturnDirectly, SkipStore
  <1>3. CASE Capture(r)
    BY <1>3 DEF Capture, Stores, Target
  <1>4. CASE Save(r)
    BY <1>4, QueueType DEF Save
  <1>5. CASE SaveFails(r)
    BY <1>5 DEF SaveFails
  <1>6. CASE Saved(r)
    BY <1>6, QueueType DEF Saved, Target
  <1>7. QED
    BY <1>1, <1>2, <1>3, <1>4, <1>5, <1>6

LEMMA TypeInductive == TypeOK /\ [Next]_vars => TypeOK'
  <1> SUFFICES ASSUME TypeOK, [Next]_vars PROVE TypeOK'
    OBVIOUS
  <1>1. CASE \E r \in Requests : Pass(r) \/ Lookup(r) \/ Progress(r)
    BY <1>1, BeforeHandleTypeOK, MapResponseTypeOK DEF Progress
  <1>2. CASE \E k \in Keys : Expire(k)
    BY <1>2, ConstantsAssumption DEF Expire, TypeOK, perRequest, appStore
  <1>3. CASE UNCHANGED vars
    BY <1>3 DEF TypeOK, vars, perRequest, appStore, tables
  <1>4. QED
    BY <1>1, <1>2, <1>3 DEF Next

\* Every reachable state is well typed; in particular a request that stores its
\* response has a key and a promise to store it under.
THEOREM TypeCorrect == Spec => []TypeOK
    BY InitTypeOK, TypeInductive, PTL DEF Spec

-----------------------------------------------------------------------------
(* Whatever keys are in use, and whoever writes ctx.store. *)

\* The promises of the in-flight table were entered under their maker's key.
KeyInv ==
    /\ \A k \in Keys : inflight[k] # None => keyOf[inflight[k]] = k
    /\ WaitersAwaitTheirKey

LEMMA KeyInductive == TypeOK /\ KeyInv /\ [Next]_vars => KeyInv'
  <1> SUFFICES ASSUME TypeOK, KeyInv, [Next]_vars PROVE KeyInv'
    OBVIOUS
  <1> USE ConstantsAssumption DEF TypeOK, KeyInv, WaitersAwaitTheirKey, appStore, tables
  <1>1. CASE \E r \in Requests :
                Pass(r) \/ Lookup(r) \/ Replay(r) \/ Wake(r) \/ Throw(r)
                \/ ReturnDirectly(r) \/ SkipStore(r) \/ Capture(r) \/ Save(r)
    BY <1>1 DEF Pass, Lookup, Replay, Wake, Throw, ReturnDirectly, SkipStore, Capture, Save
  <1>2. CASE \E r \in Requests : Join(r)
    BY <1>2 DEF Join
  <1>3. CASE \E r \in Requests : Claim(r)
    BY <1>3 DEF Claim
  <1>4. CASE \E r \in Requests : SaveFails(r) \/ Saved(r)
    BY <1>4 DEF SaveFails, Saved
  <1>5. CASE \E k \in Keys : Expire(k)
    BY <1>5 DEF Expire, perRequest
  <1>6. CASE UNCHANGED vars
    BY <1>6 DEF vars, perRequest
  <1>7. QED
    BY <1>1, <1>2, <1>3, <1>4, <1>5, <1>6 DEF Next, Progress

\* A request waits for one that has its key, although the shared ctx.store may
\* have been overwritten while its own lookup was awaited.
THEOREM WaitersKey == Spec => []WaitersAwaitTheirKey
  <1>1. Init => KeyInv
    BY DEF Init, KeyInv, WaitersAwaitTheirKey
  <1>2. KeyInv => WaitersAwaitTheirKey
    BY DEF KeyInv
  <1>3. QED
    BY <1>1, <1>2, TypeCorrect, KeyInductive, PTL DEF Spec

\* A body is found in the record store, or in a resolved promise, only once the
\* request that produced it called store.set().
Stored(b) == phase[b] \in {"saving", "answered"}

StoredInv ==
    /\ \A k \in Keys : records[k] # None => Stored(records[k])
    /\ \A r \in Requests :
         /\ found[r] # None => Stored(found[r])
         /\ settled[r] # None => Stored(settled[r])
    /\ RepliesWereStored

\* store.set() is not taken back.
LEMMA StoredStays ==
    ASSUME TypeOK, [Next]_vars, NEW b \in Requests, Stored(b)
    PROVE  Stored(b)'
  <1> USE DEF TypeOK, Stored, Enter, Reply
  <1>1. CASE \E r \in Requests : Pass(r) \/ Lookup(r) \/ Replay(r) \/ Join(r) \/ Claim(r) \/ Wake(r)
    BY <1>1 DEF Pass, Lookup, Replay, Join, Claim, Wake
  <1>2. CASE \E r \in Requests :
                \/ Throw(r) \/ ReturnDirectly(r) \/ SkipStore(r) \/ Capture(r)
                \/ Save(r) \/ SaveFails(r) \/ Saved(r)
    BY <1>2 DEF Throw, ReturnDirectly, SkipStore, Capture, Save, SaveFails, Saved
  <1>3. CASE (\E k \in Keys : Expire(k)) \/ UNCHANGED vars
    BY <1>3 DEF Expire, vars, perRequest
  <1>4. QED
    BY <1>1, <1>2, <1>3 DEF Next, Progress

LEMMA StoredInductive == TypeOK /\ StoredInv /\ [Next]_vars => StoredInv'
  <1> SUFFICES ASSUME TypeOK, StoredInv, [Next]_vars PROVE StoredInv'
    OBVIOUS
  <1>1. \A b \in Requests : Stored(b) => phase'[b] \in {"saving", "answered"}
    BY StoredStays DEF Stored
  <1>2. None \notin Requests
    BY ConstantsAssumption
  <1>3. \A k \in Keys : records'[k] # None => Stored(records[k])'
    <2>1. CASE \E r \in Requests : Save(r)
      <3>1. PICK r \in Requests : Save(r)
        BY <2>1
      <3>2. phase'[r] \in {"saving", "answered"}
        BY <3>1 DEF Save, Stored, Enter, TypeOK
      <3>3. \A k \in Keys : records'[k] = r \/ records'[k] = records[k]
        BY <3>1 DEF Save, TypeOK
      <3>4. QED
        BY <1>1, <3>2, <3>3 DEF StoredInv, TypeOK, Stored
    <2>2. CASE \E k \in Keys : Expire(k)
      BY <1>1, <2>2 DEF Expire, StoredInv, TypeOK, Stored
    <2>3. CASE UNCHANGED records
      BY <1>1, <2>3 DEF StoredInv, TypeOK, Stored
    <2>4. QED
      BY <2>1, <2>2, <2>3
         DEF Next, Progress, Pass, Lookup, Replay, Join, Claim, Wake, Throw, ReturnDirectly,
             SkipStore, Capture, SaveFails, Saved, tables, vars
  <1>4. \A r \in Requests : found'[r] # None => Stored(found[r])'
    <2>1. CASE \E r \in Requests : Lookup(r)
      <3>1. PICK q \in Requests : Lookup(q)
        BY <2>1
      <3>2. keyOf[q] \in Keys
        BY <3>1, ConstantsAssumption DEF Lookup
      <3>3. \A r \in Requests : found'[r] = records[keyOf[q]] \/ found'[r] = found[r]
        BY <3>1 DEF Lookup, TypeOK
      <3>4. QED
        BY <1>1, <3>2, <3>3 DEF StoredInv, TypeOK, Stored
    <2>2. CASE UNCHANGED found
      BY <1>1, <2>2 DEF StoredInv, TypeOK, Stored
    <2>3. QED
      BY <2>1, <2>2
         DEF Next, Progress, Pass, Replay, Join, Claim, Wake, Throw, ReturnDirectly,
             SkipStore, Capture, Save, SaveFails, Saved, Expire, perRequest, vars
  <1>5. \A r \in Requests : settled'[r] # None => Stored(settled[r])'
    <2>1. CASE \E r \in Requests : Saved(r)
      <3>1. PICK q \in Requests : Saved(q)
        BY <2>1
      <3>2. phase'[q] \in {"saving", "answered"}
        BY <3>1 DEF Saved, Stored, Reply, Enter, TypeOK
      <3>3. \A r \in Requests : settled'[r] = q \/ settled'[r] = settled[r]
        BY <3>1 DEF Saved, TypeOK
      <3>4. QED
        BY <1>1, <3>2, <3>3 DEF StoredInv, TypeOK, Stored
    <2>2. CASE UNCHANGED settled
      BY <1>1, <2>2 DEF StoredInv, TypeOK, Stored
    <2>3. QED
      BY <2>1, <2>2
         DEF Next, Progress, Pass, Lookup, Replay, Join, Claim, Wake, Throw, ReturnDirectly,
             SkipStore, Capture, Save, SaveFails, Expire, tables, vars
  <1>6. RepliesWereStored'
    <2>1. CASE \E r \in Requests : Replay(r)
      BY <1>1, <2>1 DEF Replay, Reply, StoredInv, RepliesWereStored, Stored, TypeOK
    <2>2. CASE \E r \in Requests : Wake(r)
      <3>1. PICK q \in Requests : Wake(q)
        BY <2>2
      <3>2. awaited[q] \in Requests
        BY <3>1 DEF Wake, TypeOK
      <3>3. Stored(settled[awaited[q]]) /\ settled[awaited[q]] \in Requests
        BY <3>1, <3>2 DEF Wake, StoredInv, TypeOK
      <3>4. \A r \in Requests : reply'[r] = settled[awaited[q]] \/ reply'[r] = reply[r]
        BY <3>1 DEF Wake, Reply, TypeOK
      <3>5. QED
        BY <1>1, <3>3, <3>4 DEF StoredInv, RepliesWereStored, Stored, TypeOK
    <2>3. CASE \E r \in Requests : ReturnDirectly(r) \/ SkipStore(r) \/ Saved(r)
      <3>1. PICK q \in Requests : ReturnDirectly(q) \/ SkipStore(q) \/ Saved(q)
        BY <2>3
      <3>2. \A r \in Requests : reply'[r] = reply[r] \/ (r = q /\ reply'[r] = q)
        BY <3>1 DEF ReturnDirectly, SkipStore, Saved, Reply, TypeOK
      <3>3. QED
        BY <1>1, <3>2 DEF StoredInv, RepliesWereStored, Stored, TypeOK
    <2>4. CASE UNCHANGED reply
      BY <1>1, <2>4 DEF StoredInv, RepliesWereStored, Stored, TypeOK
    <2>5. QED
      BY <2>1, <2>2, <2>3, <2>4
         DEF Next, Progress, Pass, Lookup, Join, Claim, Throw, Capture, Save, SaveFails,
             Expire, perRequest, vars
  <1>7. QED
    BY <1>3, <1>4, <1>5, <1>6 DEF StoredInv

\* No request is answered with the response of one that failed or that is still
\* being worked on.
THEOREM RepliesStored == Spec => []RepliesWereStored
  <1>1. Init => StoredInv
    BY DEF Init, StoredInv, RepliesWereStored
  <1>2. StoredInv => RepliesWereStored
    BY DEF StoredInv
  <1>3. QED
    BY <1>1, <1>2, TypeCorrect, StoredInductive, PTL DEF Spec

-----------------------------------------------------------------------------
(* A key that is kept apart, whatever the other requests do.                *)

\* A request takes up its response once.
FreshInv ==
    \A r \in Requests :
        phase[r] \in {"idle", "looking", "waiting", "handling"} => target[r].promise = None

LEMMA FreshInductive == TypeOK /\ FreshInv /\ [Next]_vars => FreshInv'
  <1> SUFFICES ASSUME TypeOK, FreshInv, [Next]_vars PROVE FreshInv'
    OBVIOUS
  <1> USE DEF TypeOK, FreshInv, Enter, Reply
  <1>1. CASE \E r \in Requests : Pass(r) \/ Lookup(r) \/ Replay(r) \/ Join(r) \/ Claim(r) \/ Wake(r)
    BY <1>1 DEF Pass, Lookup, Replay, Join, Claim, Wake
  <1>2. CASE \E r \in Requests :
                \/ Throw(r) \/ ReturnDirectly(r) \/ SkipStore(r) \/ Capture(r)
                \/ Save(r) \/ SaveFails(r) \/ Saved(r)
    BY <1>2 DEF Throw, ReturnDirectly, SkipStore, Capture, Save, SaveFails, Saved
  <1>3. CASE (\E k \in Keys : Expire(k)) \/ UNCHANGED vars
    BY <1>3 DEF Expire, vars, perRequest
  <1>4. QED
    BY <1>1, <1>2, <1>3 DEF Next, Progress

\* What does not depend on the key that is looked at.
BaseInv == TypeOK /\ KeyInv /\ FreshInv

LEMMA BaseInductive == BaseInv /\ [Next]_vars => BaseInv'
    BY TypeInductive, KeyInductive, FreshInductive DEF BaseInv

LEMMA BaseInvariant == Spec => []BaseInv
  <1>1. Init => BaseInv
    BY InitTypeOK DEF Init, BaseInv, KeyInv, WaitersAwaitTheirKey, FreshInv
  <1>2. QED
    BY <1>1, BaseInductive, PTL DEF Spec

\* A key that is kept apart has been so from the start.
LEMMA ApartBefore ==
    ASSUME BaseInv, [Next]_vars, NEW k \in Keys, KeptApart(k)'
    PROVE  KeptApart(k)
  <1>1. \A r \in Requests : target[r].promise # None => target'[r] = target[r]
    <2>1. CASE \E q \in Requests : Capture(q)
      <3>1. PICK q \in Requests : Capture(q)
        BY <2>1
      <3>2. target[q].promise = None
        BY <3>1 DEF Capture, BaseInv, FreshInv
      <3>3. QED
        BY <3>1, <3>2 DEF Capture, BaseInv, TypeOK
    <2>2. CASE UNCHANGED target
      BY <2>2
    <2>3. QED
      BY <2>1, <2>2
         DEF Next, Progress, Pass, Lookup, Replay, Join, Claim, Wake, Throw, ReturnDirectly,
             SkipStore, Save, SaveFails, Saved, Expire, perRequest, vars
  <1>2. QED
    BY <1>1 DEF KeptApart

\* The request that is worked on owns the promise of the table, and a promise that
\* is awaited can still be resolved.
OwnerInv(k) ==
    \A r \in Sharing(k) :
        /\ Working(r) => inflight[k] = r
        /\ phase[r] = "waiting" =>
              \/ settled[awaited[r]] # None
              \/ inflight[k] = awaited[r]
              \/ phase[awaited[r]] = "failed"

\* A request that stores a response stores its own, under its own key.
LEMMA OwnTarget ==
    ASSUME TypeOK, NEW k \in Keys, KeptApart(k), NEW q \in Sharing(k),
           phase[q] \in {"serializing", "saving"}
    PROVE  target[q] = [key |-> k, promise |-> q] /\ target[q].key = k /\ target[q].promise = q
  <1>1. target[q].promise # None /\ keyOf[q] = k /\ q \in Requests
    BY DEF TypeOK, Sharing
  <1>2. target[q] = [key |-> k, promise |-> q]
    BY <1>1 DEF KeptApart
  <1>3. QED
    BY <1>2

LEMMA OwnerStep ==
    ASSUME BaseInv, NEW k \in Keys, KeptApart(k), OwnerInv(k), NEW q \in Sharing(k),
           Lookup(q) \/ Progress(q)
    PROVE  OwnerInv(k)'
  <1> USE ConstantsAssumption
      DEF BaseInv, TypeOK, OwnerInv, Sharing, Working, KeyInv, WaitersAwaitTheirKey, Enter, Reply,
          appStore, tables
  <1>2. CASE Lookup(q)
    BY <1>2 DEF Lookup, Awaits
  <1>3. CASE Replay(q)
    BY <1>3 DEF Replay
  <1>4. CASE Join(q)
    BY <1>4 DEF Join
  <1>5. CASE Claim(q)
    BY <1>5 DEF Claim
  <1>6. CASE Wake(q)
    BY <1>6 DEF Wake
  <1>7. CASE Throw(q)
    BY <1>7 DEF Throw
  <1>8. CASE ReturnDirectly(q) \/ SkipStore(q)
    BY <1>8 DEF ReturnDirectly, SkipStore
  <1>9. CASE Capture(q)
    BY <1>9 DEF Capture, Stores
  <1>10. CASE Save(q)
    BY <1>10 DEF Save
  <1>11. CASE SaveFails(q)
    <2>1. target[q].key = k /\ inflight[k] = q
      BY <1>11, OwnTarget DEF SaveFails
    <2>2. QED
      BY <1>11, <2>1 DEF SaveFails
  <1>12. CASE Saved(q)
    <2>1. target[q].key = k /\ target[q].promise = q /\ inflight[k] = q
      BY <1>12, OwnTarget DEF Saved
    <2>2. settled'[q] # None /\ \A r \in Requests : settled[r] # None => settled'[r] # None
      BY <1>12, <2>1 DEF Saved
    <2>3. QED
      BY <1>12, <2>1, <2>2 DEF Saved
  <1>13. QED
    BY <1>2, <1>3, <1>4, <1>5, <1>6, <1>7, <1>8, <1>9, <1>10, <1>11, <1>12 DEF Progress

\* What the requests without the key leave alone.
KeyUnchanged(k) ==
    /\ records'[k] = records[k] /\ inflight'[k] = inflight[k]
    /\ \A r \in Sharing(k) :
        /\ phase'[r] = phase[r] /\ found'[r] = found[r] /\ awaited'[r] = awaited[r]
        /\ target'[r] = target[r] /\ reply'[r] = reply[r] /\ settled'[r] = settled[r]

LEMMA OthersStep ==
    ASSUME BaseInv, NEW k \in Keys, KeptApart(k), NEW q \in Requests, keyOf[q] # k,
           Pass(q) \/ Lookup(q) \/ Progress(q)
    PROVE  KeyUnchanged(k)
  <1> USE ConstantsAssumption
      DEF BaseInv, TypeOK, Sharing, KeyUnchanged, Enter, Reply, tables
  <1>1. phase[q] \in {"serializing", "saving"} =>
            target[q].key # k /\ target[q].promise \notin Sharing(k)
    BY DEF KeptApart
  <1>2. CASE Pass(q) \/ Lookup(q) \/ Replay(q) \/ Join(q) \/ Claim(q) \/ Wake(q)
    BY <1>2 DEF Pass, Lookup, Replay, Join, Claim, Wake
  <1>3. CASE Throw(q) \/ ReturnDirectly(q) \/ SkipStore(q) \/ Capture(q)
    BY <1>3 DEF Throw, ReturnDirectly, SkipStore, Capture
  <1>4. CASE Save(q)
    BY <1>1, <1>4 DEF Save
  <1>5. CASE SaveFails(q)
    BY <1>1, <1>5 DEF SaveFails
  <1>6. CASE Saved(q)
    BY <1>1, <1>6 DEF Saved
  <1>7. QED
    BY <1>2, <1>3, <1>4, <1>5, <1>6 DEF Progress

\* Every step is one of a request with the key, or leaves the key alone but for the
\* end of its record's time to live.
LEMMA StepOfKey ==
    ASSUME BaseInv, NEW k \in Keys, KeptApart(k), [Next]_vars
    PROVE  \/ \E q \in Sharing(k) : Lookup(q) \/ Progress(q)
           \/ KeyUnchanged(k)
           \/ Expire(k)
  <1>1. CASE \E q \in Requests : Pass(q) \/ Lookup(q) \/ Progress(q)
    <2>1. PICK q \in Requests : Pass(q) \/ Lookup(q) \/ Progress(q)
      BY <1>1
    <2>2. CASE keyOf[q] = k
      <3>1. ~Pass(q) /\ q \in Sharing(k)
        BY <2>2, ConstantsAssumption DEF Pass, Sharing
      <3>2. QED
        BY <2>1, <3>1
    <2>3. CASE keyOf[q] # k
      BY <2>1, <2>3, OthersStep
    <2>4. QED
      BY <2>2, <2>3
  <1>2. CASE \E x \in Keys : Expire(x)
    BY <1>2 DEF Expire, KeyUnchanged, Sharing, perRequest, BaseInv, TypeOK
  <1>3. CASE UNCHANGED vars
    BY <1>3 DEF KeyUnchanged, vars, perRequest, tables
  <1>4. QED
    BY <1>1, <1>2, <1>3 DEF Next

LEMMA OwnerInductive ==
    ASSUME NEW k \in Keys
    PROVE  BaseInv /\ (KeptApart(k) => OwnerInv(k)) /\ [Next]_vars => (KeptApart(k) => OwnerInv(k))'
  <1> SUFFICES ASSUME BaseInv, KeptApart(k) => OwnerInv(k), [Next]_vars, KeptApart(k)'
               PROVE  OwnerInv(k)'
    OBVIOUS
  <1>1. KeptApart(k) /\ OwnerInv(k)
    BY ApartBefore
  <1>2. CASE \E q \in Sharing(k) : Lookup(q) \/ Progress(q)
    BY <1>1, <1>2, OwnerStep
  <1>3. CASE KeyUnchanged(k)
    <2>1. \A r \in Sharing(k) : phase[r] = "waiting" => awaited[r] \in Sharing(k)
      BY DEF BaseInv, KeyInv, WaitersAwaitTheirKey, TypeOK, Sharing
    <2>2. QED
      BY <1>1, <1>3, <2>1 DEF KeyUnchanged, OwnerInv, Working
  <1>4. CASE Expire(k)
    BY <1>1, <1>4 DEF Expire, perRequest, OwnerInv, Working
  <1>5. QED
    BY <1>1, <1>2, <1>3, <1>4, StepOfKey

\* Whatever the keys of the requests, in whatever order the store answers, and
\* whoever writes ctx.store: as long as the responses of a key were taken up by the
\* requests that have it, at most one of these is worked on, and the promise of each
\* that waits is resolved or in the table, unless the request that made it failed.
THEOREM ApartServed == Spec => []ApartKeysAreServed
  <1> DEFINE Inv == \A k \in Keys : KeptApart(k) => OwnerInv(k)
  <1>1. Init => Inv
    BY DEF Init, OwnerInv, Working, Sharing
  <1>2. BaseInv /\ Inv /\ [Next]_vars => Inv'
    BY OwnerInductive
  <1>3. Inv => ApartKeysAreServed
    BY DEF OwnerInv, ApartKeysAreServed
  <1>4. QED
    BY <1>1, <1>2, <1>3, BaseInvariant, PTL DEF Spec

-----------------------------------------------------------------------------
(* ... and on the memory store: the work is done once.                      *)

\* store.set() was called with the body of b, or its promise was resolved with it.
Recorded(b) == phase[b] = "saving" \/ settled[b] = b

\* A request stops being answered, or answering, once.
AnsweredInv == \A r \in Requests : reply[r] # None => phase[r] = "answered"

\* Bodies come from requests with the key that recorded them; the promise of the table
\* was made by a request that was called, and who replaces a record is still about to
\* resolve it.
RecordInv(k) ==
    /\ \A r \in Sharing(k) :
         /\ settled[r] # None => settled[r] = r /\ phase[r] = "answered"
         /\ found[r] # None => found[r] \in Sharing(k) /\ Recorded(found[r])
    /\ records[k] # None => records[k] \in Sharing(k) /\ Recorded(records[k])
    /\ inflight[k] # None => phase[inflight[k]] \notin {"idle", "looking", "waiting"}
    /\ records[k] # None /\ inflight[k] # None => phase[inflight[k]] = "saving"

\* The queue holds those who await the store, each once.
QueueInv ==
    /\ \A r \in Requests : phase[r] \in {"looking", "saving"} =>
          \E i \in 1..Len(queue) : queue[i] = r
    /\ \A i \in 1..Len(queue) : phase[queue[i]] \in {"looking", "saving"}
    /\ \A i, j \in 1..Len(queue) : queue[i] = queue[j] => i = j

\* A lookup that found nothing, although there is a record by now, continues before
\* the request that stored it: store.get() was called before store.set().
OrderInv(k) ==
    records[k] # None =>
        \A i \in 1..Len(queue) :
            queue[i] \in Sharing(k) /\ phase[queue[i]] = "looking" /\ found[queue[i]] = None =>
                /\ phase[records[k]] = "saving"
                /\ \A j \in 1..Len(queue) : queue[j] = records[k] => i < j

MemoryInv == BaseInv /\ AnsweredInv /\ QueueInv
ApartInv(k) == OwnerInv(k) /\ RecordInv(k) /\ OrderInv(k)

LEMMA AnsweredInductive == TypeOK /\ AnsweredInv /\ [Next]_vars => AnsweredInv'
  <1> SUFFICES ASSUME TypeOK, AnsweredInv, [Next]_vars PROVE AnsweredInv'
    OBVIOUS
  <1> USE DEF TypeOK, AnsweredInv, Enter, Reply
  <1>1. CASE \E r \in Requests : Pass(r) \/ Lookup(r) \/ Replay(r) \/ Join(r) \/ Claim(r) \/ Wake(r)
    BY <1>1 DEF Pass, Lookup, Replay, Join, Claim, Wake
  <1>2. CASE \E r \in Requests :
                \/ Throw(r) \/ ReturnDirectly(r) \/ SkipStore(r) \/ Capture(r)
                \/ Save(r) \/ SaveFails(r) \/ Saved(r)
    BY <1>2 DEF Throw, ReturnDirectly, SkipStore, Capture, Save, SaveFails, Saved
  <1>3. CASE (\E k \in Keys : Expire(k)) \/ UNCHANGED vars
    BY <1>3 DEF Expire, vars, perRequest
  <1>4. QED
    BY <1>1, <1>2, <1>3 DEF Next, Progress

LEMMA QueueAppend ==
    ASSUME MemoryStore, queue \in Seq(Requests), NEW r \in Requests, Awaits(r)
    PROVE  /\ Len(queue') = Len(queue) + 1 /\ Len(queue) \in Nat
           /\ \A i \in 1..Len(queue) : queue'[i] = queue[i] /\ queue[i] \in Requests
           /\ queue'[Len(queue) + 1] = r
    BY DEF Awaits, MemoryStore

LEMMA QueueTail ==
    ASSUME MemoryStore, queue \in Seq(Requests), NEW r \in Requests, Continues(r)
    PROVE  /\ Len(queue) \in Nat \ {0} /\ queue[1] = r
           /\ Len(queue') = Len(queue) - 1
           /\ \A i \in 1..Len(queue') : queue'[i] = queue[i + 1] /\ i + 1 \in 1..Len(queue)
           /\ \A i \in 1..Len(queue) : queue[i] \in Requests
    BY DEF Continues, MemoryStore

\* A lookup found nothing, and nobody is in flight: there is no record.
LEMMA ClaimFindsNothing ==
    ASSUME MemoryStore, NEW k \in Keys, MemoryInv, ApartInv(k), NEW q \in Sharing(k), Claim(q)
    PROVE  records[k] = None
  <1>1. /\ phase[q] = "looking" /\ found[q] = None /\ inflight[k] = None /\ Continues(q)
        /\ q \in Requests
    BY DEF Claim, Sharing
  <1>2. queue[1] = q /\ 1 \in 1..Len(queue)
    BY <1>1, QueueTail DEF MemoryInv, BaseInv, TypeOK, MemoryStore
  <1>3. ASSUME records[k] # None PROVE FALSE
    <2>1. phase[records[k]] = "saving"
      BY <1>1, <1>2, <1>3 DEF ApartInv, OrderInv
    <2>2. records[k] \in Sharing(k)
      BY <1>3 DEF ApartInv, RecordInv
    <2>3. inflight[k] = records[k]
      BY <2>1, <2>2 DEF ApartInv, OwnerInv, Working
    <2>4. QED
      BY <1>1, <1>3, <2>3
  <1>4. QED
    BY <1>3

\* A response is stored where there is no record.
LEMMA WorkHasNoRecord ==
    ASSUME NEW k \in Keys, ApartInv(k), NEW q \in Sharing(k),
           phase[q] \in {"handling", "serializing"}
    PROVE  records[k] = None /\ inflight[k] = q /\ settled[q] = None
  <1>1. inflight[k] = q /\ q # None
    BY ConstantsAssumption DEF ApartInv, OwnerInv, Working, Sharing
  <1>2. QED
    BY <1>1 DEF ApartInv, RecordInv

LEMMA RecordStep ==
    ASSUME MemoryStore, NEW k \in Keys, KeptApart(k), MemoryInv, ApartInv(k), NEW q \in Sharing(k),
           Lookup(q) \/ Progress(q)
    PROVE  RecordInv(k)'
  <1> USE ConstantsAssumption DEF Sharing, TypeOK, Recorded, Enter, Reply, appStore, tables
  <1>0. RecordInv(k) /\ TypeOK /\ (\A x \in Keys : inflight[x] # None => keyOf[inflight[x]] = x)
    BY DEF ApartInv, MemoryInv, BaseInv, KeyInv
  <1>2. CASE Lookup(q)
    BY <1>0, <1>2 DEF Lookup, RecordInv
  <1>3. CASE Replay(q)
    BY <1>0, <1>3 DEF Replay, RecordInv
  <1>4. CASE Join(q)
    BY <1>0, <1>4 DEF Join, RecordInv
  <1>5. CASE Claim(q)
    <2>1. records[k] = None
      BY <1>5, ClaimFindsNothing
    <2>2. QED
      BY <1>0, <1>5, <2>1 DEF Claim, RecordInv
  <1>6. CASE Wake(q)
    BY <1>0, <1>6 DEF Wake, RecordInv
  <1>7. CASE Throw(q)
    <2>1. records[k] = None /\ inflight[k] = q /\ settled[q] = None
      BY <1>7, WorkHasNoRecord DEF Throw
    <2>2. QED
      BY <1>0, <1>7, <2>1 DEF Throw, RecordInv
  <1>8. CASE ReturnDirectly(q) \/ SkipStore(q)
    <2>1. records[k] = None /\ inflight[k] = q /\ settled[q] = None
      BY <1>8, WorkHasNoRecord DEF ReturnDirectly, SkipStore
    <2>2. QED
      BY <1>0, <1>8, <2>1 DEF ReturnDirectly, SkipStore, RecordInv
  <1>9. CASE Capture(q)
    <2>1. records[k] = None /\ inflight[k] = q /\ settled[q] = None
      BY <1>9, WorkHasNoRecord DEF Capture
    <2>2. QED
      BY <1>0, <1>9, <2>1 DEF Capture, RecordInv
  <1>10. CASE Save(q)
    <2>1. records[k] = None /\ inflight[k] = q /\ settled[q] = None
      BY <1>10, WorkHasNoRecord DEF Save
    <2>2. target[q].key = k
      BY <1>0, <1>10, OwnTarget DEF Save
    <2>3. QED
      BY <1>0, <1>10, <2>1, <2>2 DEF Save, RecordInv
  <1>11. CASE SaveFails(q)
    <2>1. records[k] = None /\ inflight[k] = q /\ settled[q] = None
      BY <1>11, WorkHasNoRecord DEF SaveFails
    <2>2. target[q].key = k
      BY <1>0, <1>11, OwnTarget DEF SaveFails
    <2>3. QED
      BY <1>0, <1>11, <2>1, <2>2 DEF SaveFails, RecordInv
  <1>12. CASE Saved(q)
    <2>1. target[q].key = k /\ target[q].promise = q
      BY <1>0, <1>12, OwnTarget DEF Saved
    <2>2. settled[q] = None
      BY <1>0, <1>12 DEF Saved, RecordInv
    <2>3. /\ phase' = [phase EXCEPT ![q] = "answered"]
          /\ settled' = [settled EXCEPT ![q] = q] /\ inflight' = [inflight EXCEPT ![k] = None]
          /\ UNCHANGED <<found, records>>
      BY <1>12, <2>1, <2>2 DEF Saved
    <2>4. QED
      BY <1>0, <2>3 DEF RecordInv
  <1>13. QED
    BY <1>2, <1>3, <1>4, <1>5, <1>6, <1>7, <1>8, <1>9, <1>10, <1>11, <1>12 DEF Progress

\* A step that awaits nothing: no request enters or leaves the queue.
LEMMA QueueStays ==
    ASSUME MemoryStore, TypeOK, QueueInv, UNCHANGED queue,
           \A r \in Requests :
             phase'[r] = phase[r] \/ {phase[r], phase'[r]} \cap {"looking", "saving"} = {}
    PROVE  /\ QueueInv'
           /\ \A k \in Keys :
                /\ OrderInv(k) /\ found' = found /\ records'[k] \in {records[k], None}
                /\ records[k] \in Requests \cup {None}
                => OrderInv(k)'
  <1>1. \A i \in 1..Len(queue) : queue[i] \in Requests
    BY DEF TypeOK, MemoryStore
  <1>2. \A r \in Requests : phase[r] \in {"looking", "saving"} <=> phase'[r] \in {"looking", "saving"}
    OBVIOUS
  <1>3. \A r \in Requests : phase[r] = "saving" <=> phase'[r] = "saving"
    OBVIOUS
  <1>4. \A r \in Requests : phase[r] = "looking" <=> phase'[r] = "looking"
    OBVIOUS
  <1>5. QueueInv'
    BY <1>1, <1>2 DEF QueueInv
  <1>6. ASSUME NEW k \in Keys, OrderInv(k), found' = found, records'[k] \in {records[k], None},
               records[k] \in Requests \cup {None}
        PROVE  OrderInv(k)'
    BY <1>1, <1>3, <1>4, <1>6 DEF OrderInv, Sharing
  <1>7. QED
    BY <1>5, <1>6

\* The continuation of q ran, and q awaits the store no more.
LEMMA QueueShifts ==
    ASSUME MemoryStore, TypeOK, QueueInv, NEW q \in Requests, Continues(q),
           NEW p \in Phases \ {"looking", "saving"}, phase' = [phase EXCEPT ![q] = p],
           UNCHANGED <<found, records>>, phase[q] \in {"looking", "saving"}
    PROVE  QueueInv' /\ \A k \in Keys : OrderInv(k) => OrderInv(k)'
  <1>1. /\ Len(queue) \in Nat \ {0} /\ queue[1] = q
        /\ Len(queue') = Len(queue) - 1
        /\ \A i \in 1..Len(queue') : queue'[i] = queue[i + 1] /\ i + 1 \in 1..Len(queue)
        /\ \A i \in 1..Len(queue) : queue[i] \in Requests
    BY QueueTail DEF TypeOK, MemoryStore
  <1>2. \A r \in Requests : phase'[r] = IF r = q THEN p ELSE phase[r]
    BY DEF TypeOK
  <1>3. \A i \in 1..Len(queue') : queue'[i] # q /\ queue'[i] \in Requests
    BY <1>1 DEF QueueInv
  <1>4. \A r \in Requests : phase'[r] \in {"looking", "saving"} =>
          \E i \in 1..Len(queue') : queue'[i] = r
    <2> SUFFICES ASSUME NEW r \in Requests, phase'[r] \in {"looking", "saving"}
                 PROVE  \E i \in 1..Len(queue') : queue'[i] = r
      OBVIOUS
    <2>1. r # q /\ phase[r] \in {"looking", "saving"}
      BY <1>2
    <2>2. PICK i \in 1..Len(queue) : queue[i] = r
      BY <2>1 DEF QueueInv
    <2>3. i # 1
      BY <1>1, <2>1, <2>2
    <2>4. i - 1 \in 1..Len(queue') /\ queue'[i - 1] = queue[(i - 1) + 1]
      BY <1>1, <2>2, <2>3
    <2>5. QED
      BY <2>2, <2>4
  <1>5. \A i \in 1..Len(queue') : phase'[queue'[i]] \in {"looking", "saving"}
    BY <1>1, <1>2, <1>3 DEF QueueInv
  <1>6. \A i, j \in 1..Len(queue') : queue'[i] = queue'[j] => i = j
    BY <1>1 DEF QueueInv
  <1>7. ASSUME NEW k \in Keys, OrderInv(k), records[k] # None, NEW i \in 1..Len(queue'),
               queue'[i] \in Sharing(k), phase'[queue'[i]] = "looking", found[queue'[i]] = None
        PROVE  /\ phase'[records[k]] = "saving"
               /\ \A j \in 1..Len(queue') : queue'[j] = records[k] => i < j
    <2>1. /\ phase[queue[i + 1]] = "looking" /\ found[queue[i + 1]] = None /\ i + 1 \in 1..Len(queue)
          /\ queue[i + 1] \in Sharing(k)
      BY <1>1, <1>2, <1>3, <1>7
    <2>2. /\ phase[records[k]] = "saving"
          /\ \A j \in 1..Len(queue) : queue[j] = records[k] => i + 1 < j
      BY <1>7, <2>1 DEF OrderInv
    <2>3. records[k] # q
      BY <1>1, <2>2
    <2>4. records[k] \in Requests
      BY <1>7 DEF TypeOK
    <2>5. \A j \in 1..Len(queue') : queue'[j] = records[k] => i < j
      BY <1>1, <2>2
    <2>6. QED
      BY <1>2, <2>2, <2>3, <2>4, <2>5
  <1>8. ASSUME NEW k \in Keys, OrderInv(k) PROVE OrderInv(k)'
    BY <1>7, <1>8 DEF OrderInv, Sharing
  <1>9. QED
    BY <1>4, <1>5, <1>6, <1>8 DEF QueueInv

\* q awaits a lookup of the record that is there, or the storing of its own.
LEMMA QueueGrows ==
    ASSUME MemoryStore, TypeOK, QueueInv, NEW q \in Requests, Awaits(q),
           phase[q] \notin {"looking", "saving"},
           NEW p \in {"looking", "saving"}, phase' = [phase EXCEPT ![q] = p],
           \A r \in Requests \ {q} : found'[r] = found[r]
    PROVE  /\ QueueInv'
           /\ \A k \in Keys :
                /\ OrderInv(k)
                /\ \/ /\ records'[k] = records[k]
                      /\ p = "looking" /\ q \in Sharing(k) => found'[q] = records[k]
                   \/ records'[k] = q /\ p = "saving"
                => OrderInv(k)'
  <1>1. /\ Len(queue') = Len(queue) + 1 /\ Len(queue) \in Nat
        /\ \A i \in 1..Len(queue) : queue'[i] = queue[i] /\ queue[i] \in Requests
        /\ queue'[Len(queue) + 1] = q
    BY QueueAppend DEF TypeOK, MemoryStore
  <1>2. /\ \A r \in Requests \ {q} : phase'[r] = phase[r] /\ found'[r] = found[r]
        /\ phase'[q] = p
    BY DEF TypeOK
  <1>3. \A i \in 1..Len(queue) : queue[i] # q
    BY DEF QueueInv
  <1>4. \A r \in Requests : phase'[r] \in {"looking", "saving"} =>
          \E i \in 1..Len(queue') : queue'[i] = r
    <2> SUFFICES ASSUME NEW r \in Requests, phase'[r] \in {"looking", "saving"}
                 PROVE  \E i \in 1..Len(queue') : queue'[i] = r
      OBVIOUS
    <2>1. CASE r = q
      BY <1>1, <2>1
    <2>2. CASE r # q
      <3>1. PICK i \in 1..Len(queue) : queue[i] = r
        BY <1>2, <2>2 DEF QueueInv
      <3>2. QED
        BY <1>1, <3>1
    <2>3. QED
      BY <2>1, <2>2
  <1>5. \A i \in 1..Len(queue') : i \in 1..Len(queue) \/ i = Len(queue) + 1
    BY <1>1
  <1>6. \A i \in 1..Len(queue') : phase'[queue'[i]] \in {"looking", "saving"}
    BY <1>1, <1>2, <1>3, <1>5 DEF QueueInv
  <1>7. \A i, j \in 1..Len(queue') : queue'[i] = queue'[j] => i = j
    BY <1>1, <1>3, <1>5 DEF QueueInv
  <1>8. ASSUME NEW k \in Keys, OrderInv(k),
               \/ /\ records'[k] = records[k]
                  /\ p = "looking" /\ q \in Sharing(k) => found'[q] = records[k]
               \/ records'[k] = q /\ p = "saving",
               records'[k] # None, NEW i \in 1..Len(queue'), queue'[i] \in Sharing(k),
               phase'[queue'[i]] = "looking", found'[queue'[i]] = None
        PROVE  /\ phase'[records'[k]] = "saving"
               /\ \A j \in 1..Len(queue') : queue'[j] = records'[k] => i < j
    <2>1. CASE records'[k] = q /\ p = "saving"
      <3>1. i \in 1..Len(queue)
        BY <1>1, <1>2, <1>5, <1>8, <2>1
      <3>2. QED
        BY <1>1, <1>2, <1>3, <1>5, <2>1, <3>1
    <2>2. CASE records'[k] = records[k] /\ (p = "looking" /\ q \in Sharing(k) => found'[q] = records[k])
      <3>1. i \in 1..Len(queue)
        BY <1>1, <1>2, <1>5, <1>8, <2>2
      <3>2. queue'[i] = queue[i] /\ phase[queue[i]] = "looking" /\ found[queue[i]] = None
        BY <1>1, <1>2, <1>3, <1>8, <3>1
      <3>3. /\ phase[records[k]] = "saving"
            /\ \A j \in 1..Len(queue) : queue[j] = records[k] => i < j
        BY <1>8, <2>2, <3>1, <3>2 DEF OrderInv
      <3>4. records[k] # q /\ records[k] \in Requests
        BY <1>8, <2>2, <3>3 DEF TypeOK
      <3>5. QED
        BY <1>1, <1>2, <1>5, <2>2, <3>1, <3>3, <3>4
    <2>3. QED
      BY <1>8, <2>1, <2>2
  <1>9. ASSUME NEW k \in Keys, OrderInv(k),
               \/ /\ records'[k] = records[k]
                  /\ p = "looking" /\ q \in Sharing(k) => found'[q] = records[k]
               \/ records'[k] = q /\ p = "saving"
        PROVE  OrderInv(k)'
    BY <1>8, <1>9 DEF OrderInv, Sharing
  <1>10. QED
    BY <1>4, <1>6, <1>7, <1>9 DEF QueueInv

\* A step of any request leaves the queue in order, for each key that is kept apart.
LEMMA QueueStep ==
    ASSUME MemoryStore, TypeOK, QueueInv, NEW q \in Requests,
           Pass(q) \/ Lookup(q) \/ Progress(q)
    PROVE  QueueInv' /\ \A k \in Keys : KeptApart(k) /\ OrderInv(k) => OrderInv(k)'
  <1>0. \A k \in Keys : records[k] \in Requests \cup {None}
    BY DEF TypeOK
  <1>1. CASE \/ Pass(q) \/ Wake(q) \/ Throw(q) \/ ReturnDirectly(q) \/ SkipStore(q)
             \/ Capture(q) \/ SaveFails(q)
    <2>1. UNCHANGED <<queue, found, records>>
      BY <1>1 DEF Pass, Wake, Throw, ReturnDirectly, SkipStore, Capture, SaveFails, tables
    <2>2. \A r \in Requests :
             phase'[r] = phase[r] \/ {phase[r], phase'[r]} \cap {"looking", "saving"} = {}
      BY <1>1 DEF Pass, Wake, Throw, ReturnDirectly, SkipStore, Capture, SaveFails, Enter, Reply, TypeOK
    <2>3. QED
      BY <1>0, <2>1, <2>2, QueueStays
  <1>2. CASE Replay(q) \/ Join(q) \/ Claim(q) \/ Saved(q)
    <2>1. /\ phase[q] \in {"looking", "saving"} /\ Continues(q)
          /\ UNCHANGED <<found, records>>
      BY <1>2 DEF Replay, Join, Claim, Saved, tables
    <2>2. PICK p \in {"answered", "waiting", "handling"} : phase' = [phase EXCEPT ![q] = p]
      BY <1>2 DEF Replay, Join, Claim, Saved, Enter, Reply
    <2>3. p \in Phases \ {"looking", "saving"}
      BY DEF Phases
    <2>4. QED
      BY <2>1, <2>2, <2>3, QueueShifts
  <1>3. CASE Lookup(q)
    <2>1. /\ phase[q] \notin {"looking", "saving"} /\ Awaits(q)
          /\ phase' = [phase EXCEPT ![q] = "looking"]
          /\ \A r \in Requests \ {q} : found'[r] = found[r]
          /\ found'[q] = records[keyOf[q]]
          /\ records' = records
      BY <1>3 DEF Lookup, Enter, tables, TypeOK
    <2>2. \A k \in Keys : q \in Sharing(k) => found'[q] = records[k]
      BY <2>1 DEF Sharing
    <2>3. QED
      BY <2>1, <2>2, QueueGrows
  <1>4. CASE Save(q)
    <2>1. /\ phase[q] \notin {"looking", "saving"} /\ Awaits(q)
          /\ phase' = [phase EXCEPT ![q] = "saving"]
          /\ \A r \in Requests \ {q} : found'[r] = found[r]
          /\ \A k \in Keys : records'[k] \in {records[k], q}
      BY <1>4 DEF Save, Enter, TypeOK
    <2>2. QED
      BY <2>1, QueueGrows
  <1>5. QED
    BY <1>1, <1>2, <1>3, <1>4 DEF Progress

LEMMA StoreStays == TypeOK /\ [Next]_vars => MemoryStore' = MemoryStore
  <1> SUFFICES ASSUME TypeOK, [Next]_vars PROVE MemoryStore' = MemoryStore
    OBVIOUS
  <1>1. ASSUME NEW r \in Requests, Awaits(r) \/ Continues(r) PROVE MemoryStore' = MemoryStore
    BY <1>1, QueueType DEF TypeOK
  <1>2. UNCHANGED queue => MemoryStore' = MemoryStore
    BY DEF MemoryStore
  <1>3. CASE \E r \in Requests : Pass(r) \/ Lookup(r) \/ Replay(r) \/ Join(r) \/ Claim(r) \/ Wake(r)
    BY <1>1, <1>2, <1>3 DEF Pass, Lookup, Replay, Join, Claim, Wake
  <1>4. CASE \E r \in Requests :
                \/ Throw(r) \/ ReturnDirectly(r) \/ SkipStore(r) \/ Capture(r)
                \/ Save(r) \/ SaveFails(r) \/ Saved(r)
    BY <1>1, <1>2, <1>4 DEF Throw, ReturnDirectly, SkipStore, Capture, Save, SaveFails, Saved
  <1>5. CASE (\E k \in Keys : Expire(k)) \/ UNCHANGED vars
    BY <1>2, <1>5 DEF Expire, vars
  <1>6. QED
    BY <1>3, <1>4, <1>5 DEF Next, Progress

LEMMA MemoryInductive ==
    ASSUME MemoryStore
    PROVE  MemoryInv /\ [Next]_vars => MemoryInv'
  <1> SUFFICES ASSUME MemoryInv, [Next]_vars PROVE MemoryInv'
    OBVIOUS
  <1>1. BaseInv' /\ AnsweredInv' /\ TypeOK /\ QueueInv
    BY BaseInductive, AnsweredInductive DEF MemoryInv, BaseInv
  <1>2. CASE \E q \in Requests : Pass(q) \/ Lookup(q) \/ Progress(q)
    BY <1>1, <1>2, QueueStep DEF MemoryInv
  <1>3. CASE (\E x \in Keys : Expire(x)) \/ UNCHANGED vars
    BY <1>1, <1>3 DEF Expire, vars, perRequest, QueueInv, MemoryInv
  <1>4. QED
    BY <1>2, <1>3 DEF Next

LEMMA ApartInductive ==
    ASSUME MemoryStore, NEW k \in Keys
    PROVE  MemoryInv /\ (KeptApart(k) => ApartInv(k)) /\ [Next]_vars => (KeptApart(k) => ApartInv(k))'
  <1> SUFFICES ASSUME MemoryInv, KeptApart(k) => ApartInv(k), [Next]_vars, KeptApart(k)'
               PROVE  ApartInv(k)'
    OBVIOUS
  <1>1. /\ BaseInv /\ TypeOK /\ QueueInv
        /\ KeptApart(k) /\ ApartInv(k) /\ OwnerInv(k) /\ RecordInv(k) /\ OrderInv(k)
        /\ records[k] \in Requests \cup {None}
    BY ApartBefore DEF MemoryInv, ApartInv, BaseInv, TypeOK
  <1>2. OwnerInv(k)'
    BY <1>1, OwnerInductive
  <1>3. OrderInv(k)'
    <2>1. CASE \E q \in Requests : Pass(q) \/ Lookup(q) \/ Progress(q)
      BY <1>1, <2>1, QueueStep
    <2>2. CASE (\E x \in Keys : Expire(x)) \/ UNCHANGED vars
      <3>1. UNCHANGED <<queue, phase, found>> /\ records'[k] \in {records[k], None}
        BY <1>1, <2>2 DEF Expire, vars, perRequest, tables, TypeOK
      <3>2. QED
        BY <1>1, <3>1, QueueStays
    <2>3. QED
      BY <2>1, <2>2 DEF Next
  <1>4. RecordInv(k)'
    <2>1. CASE \E q \in Sharing(k) : Lookup(q) \/ Progress(q)
      BY <1>1, <2>1, RecordStep
    <2>2. CASE KeyUnchanged(k)
      <3>1. inflight[k] # None => inflight[k] \in Sharing(k)
        BY <1>1 DEF BaseInv, KeyInv, TypeOK, Sharing
      <3>2. QED
        BY <1>1, <2>2, <3>1 DEF KeyUnchanged, RecordInv, Recorded
    <2>3. CASE Expire(k)
      BY <1>1, <2>3 DEF Expire, perRequest, RecordInv, Recorded, TypeOK
    <2>4. QED
      BY <1>1, <2>1, <2>2, <2>3, StepOfKey
  <1>5. QED
    BY <1>2, <1>3, <1>4 DEF ApartInv

-----------------------------------------------------------------------------
(* The steps of the plugin, as steps of OnceOnly.                           *)

Ours == Sharing(Key)
State ==
    IF records[Key] # None THEN "recorded"
    ELSE IF inflight[Key] # None /\ phase[inflight[Key]] # "saving" THEN "running"
    ELSE "open"
Ran == {r \in Ours : Working(r) \/ phase[r] = "failed" \/ reply[r] = r}
Bodies == {b \in Ours : phase[b] = "saving" \/ \E p \in Ours : settled[p] = b}
Replies == [r \in Ours |-> reply[r]]

\* What is known before and after a step, of a key that is kept apart.
KeyInvariants == MemoryInv /\ ApartInv(Key)

LEMMA KeyFacts ==
    ASSUME KeyInvariants
    PROVE  /\ Key \in Keys /\ TypeOK /\ AnsweredInv /\ RecordInv(Key) /\ OwnerInv(Key)
           /\ Ours \subseteq Requests /\ None \notin Requests /\ None \notin Ours
           /\ \A r \in Ours : keyOf[r] = Key
           /\ inflight[Key] # None => inflight[Key] \in Ours
    BY ConstantsAssumption
       DEF KeyInvariants, MemoryInv, ApartInv, BaseInv, KeyInv, TypeOK, Ours, Sharing

LEMMA BodiesAreRecorded ==
    ASSUME KeyInvariants
    PROVE  Bodies = {b \in Ours : Recorded(b)}
    BY KeyFacts DEF RecordInv, Recorded, Bodies, Ours

\* What q does changes neither the others' work nor the bodies they recorded.
LEMMA BodiesStep ==
    ASSUME KeyInvariants, KeyInvariants', NEW q \in Ours,
           \A b \in Ours \ {q} : phase'[b] = phase[b] /\ settled'[b] = settled[b]
    PROVE  /\ Recorded(q)' => Bodies' = Bodies \cup {q}
           /\ (Recorded(q)' <=> Recorded(q)) => Bodies' = Bodies
  <1>1. Bodies = {b \in Ours : Recorded(b)}
    BY BodiesAreRecorded
  <1>2. Bodies' = {b \in Ours : Recorded(b)'}
    <2>1. RecordInv(Key)' /\ None \notin Ours
      BY KeyFacts DEF KeyInvariants, ApartInv
    <2>2. QED
      BY <2>1 DEF RecordInv, Recorded, Bodies, Ours
  <1>3. QED
    BY <1>1, <1>2 DEF Recorded

\* A request that is looked up, waits or joins leaves the work as it is.
LEMMA OnceStays ==
    ASSUME State' = State, Ran' = Ran, Bodies' = Bodies, Replies' = Replies
    PROVE  UNCHANGED Once!vars
    BY DEF State, Ran, Bodies, Replies, Ours, Once!vars

\* A request is answered with what it did itself, or with a recorded body.
LEMMA OnceAnswers ==
    ASSUME State' = State, Ran' = Ran, Bodies' = Bodies, NEW r \in Ours, reply[r] = None,
           NEW body \in Ours, Ours \subseteq Requests, TypeOK, reply' = [reply EXCEPT ![r] = body],
           \/ body = r /\ r \in Ran
           \/ body \in Bodies /\ r \notin Ran
    PROVE  Once!Next
  <1>1. Replies' = [Replies EXCEPT ![r] = body] /\ Replies[r] = None
    BY DEF Replies, TypeOK
  <1>2. Once!Answer(r, body)
    BY <1>1 DEF State, Ran, Bodies, Replies, Ours, Once!Answer
  <1>3. QED
    BY <1>2 DEF Once!Next, Ours

LEMMA RanStep ==
    ASSUME NEW q \in Ours,
           \A b \in Ours \ {q} : phase'[b] = phase[b] /\ reply'[b] = reply[b]
    PROVE  /\ q \in Ran' => Ran' = Ran \cup {q}
           /\ (q \in Ran' <=> q \in Ran) => Ran' = Ran
  <1>1. Ran' = {r \in Ours : Working(r)' \/ phase'[r] = "failed" \/ reply'[r] = r}
    BY DEF Ran, Ours, Sharing
  <1>2. QED
    BY <1>1 DEF Ran, Working

LEMMA StateStep ==
    ASSUME KeyInvariants, NEW q \in Ours, UNCHANGED <<records, inflight>>,
           \A b \in Ours \ {q} : phase'[b] = phase[b],
           inflight[Key] = q => (phase'[q] = "saving" <=> phase[q] = "saving")
    PROVE  State' = State
  <1>1. inflight[Key] # None => inflight[Key] \in Ours
    BY KeyFacts
  <1>2. inflight[Key] # None =>
            (phase'[inflight[Key]] = "saving" <=> phase[inflight[Key]] = "saving")
    BY <1>1
  <1>3. QED
    BY <1>2 DEF State

\* What the steps before the handler have in common.
LEMMA NotCalled ==
    ASSUME KeyInvariants, NEW q \in Ours, phase[q] \in {"idle", "looking", "waiting"}
    PROVE  /\ reply[q] = None /\ q \notin Ran /\ q \notin Bodies /\ inflight[Key] # q
           /\ settled[q] = None /\ Key \in Keys
  <1>1. /\ reply[q] = None /\ settled[q] = None /\ inflight[Key] # q /\ Key \in Keys /\ q # None
    BY KeyFacts DEF RecordInv, AnsweredInv, Ours
  <1>2. q \notin Ran
    BY <1>1 DEF Ran, Working
  <1>3. q \notin Bodies
    BY <1>1, BodiesAreRecorded DEF Recorded
  <1>4. QED
    BY <1>1, <1>2, <1>3

\* A request that works, or just stopped to, is one that ran.
LEMMA Called ==
    ASSUME KeyInvariants, NEW q \in Ours, Working(q)
    PROVE  /\ reply[q] = None /\ q \in Ran /\ inflight[Key] = q /\ Key \in Keys
           /\ q # None /\ q \in Requests
  <1>1. reply[q] = None /\ q # None /\ q \in Requests /\ Key \in Keys
    BY KeyFacts DEF AnsweredInv, Working
  <1>2. inflight[Key] = q
    BY KeyFacts DEF OwnerInv, Ours
  <1>3. QED
    BY <1>1, <1>2 DEF Ran

\* Looking up, and joining another request.
LEMMA WaitOnce ==
    ASSUME KeyInvariants, KeyInvariants', NEW q \in Ours, Lookup(q) \/ Join(q)
    PROVE  UNCHANGED Once!vars
  <1>1. /\ phase[q] \in {"idle", "looking"} /\ phase'[q] \in {"looking", "waiting"}
        /\ \A b \in Ours \ {q} : phase'[b] = phase[b]
        /\ UNCHANGED <<reply, records, inflight, settled>>
    BY KeyFacts DEF Lookup, Join, Enter, tables, TypeOK
  <1>2. reply[q] = None /\ q \notin Ran /\ settled[q] = None /\ inflight[Key] # q /\ q # None
    BY <1>1, NotCalled, KeyFacts
  <1>3. State' = State
    BY <1>1, <1>2, StateStep
  <1>4. Ran' = Ran
    <2>1. q \notin Ran'
      BY <1>1, <1>2 DEF Ran, Working
    <2>2. QED
      BY <1>1, <1>2, <2>1, RanStep
  <1>5. Bodies' = Bodies
    <2>1. ~Recorded(q) /\ ~Recorded(q)'
      BY <1>1, <1>2 DEF Recorded
    <2>2. QED
      BY <1>1, <2>1, BodiesStep
  <1>6. Replies' = Replies
    BY <1>1 DEF Replies, Ours, Sharing
  <1>7. QED
    BY <1>3, <1>4, <1>5, <1>6, OnceStays

\* A recorded body is given to a request that did not do the work.
LEMMA AnswerOnce ==
    ASSUME KeyInvariants, KeyInvariants', NEW q \in Ours, Replay(q) \/ Wake(q)
    PROVE  Once!Next
  <1>0. /\ q \in Requests /\ TypeOK /\ Ours \subseteq Requests /\ RecordInv(Key)
        /\ \A r \in Ours : awaited[r] # None => awaited[r] \in Ours
    <2>1. TypeOK /\ WaitersAwaitTheirKey
      BY DEF KeyInvariants, MemoryInv, BaseInv, KeyInv
    <2>2. QED
      BY <2>1, KeyFacts DEF WaitersAwaitTheirKey, TypeOK, Ours, Sharing
  <1>1. PICK body \in Ours : Recorded(body) /\ Reply(q, body)
    <2>1. CASE Replay(q)
      BY <1>0, <2>1 DEF Replay, RecordInv, Ours
    <2>2. CASE Wake(q)
      <3>1. awaited[q] \in Ours /\ settled[awaited[q]] # None
        BY <1>0, <2>2 DEF Wake, TypeOK
      <3>2. settled[awaited[q]] = awaited[q]
        BY <1>0, <3>1 DEF RecordInv, Ours
      <3>3. QED
        BY <2>2, <3>1, <3>2 DEF Wake, Recorded
    <2>3. QED
      BY <2>1, <2>2
  <1>2. /\ phase[q] \in {"looking", "waiting"} /\ phase'[q] = "answered"
        /\ \A b \in Ours \ {q} : phase'[b] = phase[b] /\ reply'[b] = reply[b]
        /\ reply' = [reply EXCEPT ![q] = body] /\ reply'[q] = body
        /\ UNCHANGED <<records, inflight, settled>>
    BY <1>0, <1>1 DEF Replay, Wake, Reply, Enter, tables, TypeOK
  <1>3. /\ reply[q] = None /\ q \notin Ran /\ q \notin Bodies /\ inflight[Key] # q
        /\ settled[q] = None /\ q # None
    BY <1>2, NotCalled, KeyFacts
  <1>4. body \in Bodies /\ body # q
    BY <1>1, <1>3, BodiesAreRecorded
  <1>5. State' = State
    BY <1>2, <1>3, StateStep
  <1>6. Ran' = Ran
    <2>1. q \notin Ran'
      BY <1>2, <1>4 DEF Ran, Working
    <2>2. QED
      BY <1>2, <1>3, <2>1, RanStep
  <1>7. Bodies' = Bodies
    <2>1. ~Recorded(q) /\ ~Recorded(q)'
      BY <1>2, <1>3 DEF Recorded
    <2>2. QED
      BY <1>2, <2>1, BodiesStep
  <1>8. QED
    BY <1>0, <1>2, <1>3, <1>4, <1>5, <1>6, <1>7, OnceAnswers

\* Nobody is in flight and there is no record: the work is started.
LEMMA ClaimOnce ==
    ASSUME MemoryStore, KeyInvariants, KeyInvariants', NEW q \in Ours, Claim(q)
    PROVE  Once!Next
  <1>1. /\ phase[q] = "looking" /\ phase'[q] = "handling"
        /\ \A b \in Ours \ {q} : phase'[b] = phase[b]
        /\ UNCHANGED <<reply, records, settled>>
    BY KeyFacts DEF Claim, Enter, TypeOK
  <1>2. inflight[Key] = None /\ inflight'[Key] = q /\ records[Key] = None /\ q # None
    <2>1. records[Key] = None
      BY ClaimFindsNothing, KeyFacts DEF KeyInvariants, Ours
    <2>2. QED
      BY <2>1, KeyFacts DEF Claim, TypeOK
  <1>3. State = "open" /\ State' = "running"
    BY <1>1, <1>2 DEF State
  <1>4. reply[q] = None /\ q \notin Ran /\ settled[q] = None
    BY <1>1, NotCalled
  <1>5. Ran' = Ran \cup {q}
    <2>1. q \in Ran'
      BY <1>1 DEF Ran, Working, Ours, Sharing
    <2>2. QED
      BY <1>1, <2>1, RanStep
  <1>6. Bodies' = Bodies /\ Replies' = Replies
    <2>1. ~Recorded(q) /\ ~Recorded(q)'
      BY <1>1, <1>2, <1>4 DEF Recorded
    <2>2. QED
      BY <1>1, <2>1, BodiesStep DEF Replies, Ours, Sharing
  <1>7. Once!Start(q)
    <2>1. Replies[q] = None
      BY <1>4 DEF Replies
    <2>2. QED
      BY <1>3, <1>4, <1>5, <1>6, <2>1 DEF State, Ran, Bodies, Replies, Ours, Once!Start
  <1>8. QED
    BY <1>7 DEF Once!Next, Ours

\* The handler threw, or its response is taken up: nothing is recorded yet.
LEMMA WorkOnce ==
    ASSUME KeyInvariants, KeyInvariants', NEW q \in Ours, Throw(q) \/ Capture(q)
    PROVE  UNCHANGED Once!vars
  <1>1. /\ phase[q] = "handling" /\ phase'[q] \in {"failed", "serializing"}
        /\ \A b \in Ours \ {q} : phase'[b] = phase[b]
        /\ UNCHANGED <<reply, records, inflight, settled>>
    BY KeyFacts DEF Throw, Capture, Enter, tables, TypeOK
  <1>2. q \in Ran /\ Key \in Keys /\ settled[q] = None /\ q # None
    BY <1>1, Called, WorkHasNoRecord DEF Working, KeyInvariants, Ours
  <1>3. State' = State
    BY <1>1, <1>2, StateStep
  <1>4. Ran' = Ran
    <2>1. q \in Ran'
      BY <1>1 DEF Ran, Working, Ours, Sharing
    <2>2. QED
      BY <1>1, <1>2, <2>1, RanStep
  <1>5. Bodies' = Bodies
    <2>1. ~Recorded(q) /\ ~Recorded(q)'
      BY <1>1, <1>2 DEF Recorded
    <2>2. QED
      BY <1>1, <2>1, BodiesStep
  <1>6. Replies' = Replies
    BY <1>1 DEF Replies, Ours, Sharing
  <1>7. QED
    BY <1>3, <1>4, <1>5, <1>6, OnceStays

\* The request that did the work is answered: its promise stays in the table when
\* mapResponse was passed over, and is taken out once its record is stored.
LEMMA OwnAnswerOnce ==
    ASSUME KeyInvariants, KeyInvariants', KeptApart(Key), NEW q \in Ours,
           ReturnDirectly(q) \/ SkipStore(q) \/ Saved(q)
    PROVE  Once!Next
  <1>0. TypeOK /\ Ours \subseteq Requests /\ Key \in Keys
    BY KeyFacts
  <1>1. /\ phase[q] \in {"handling", "saving"} /\ phase'[q] = "answered" /\ Working(q)
        /\ \A b \in Ours \ {q} : phase'[b] = phase[b] /\ reply'[b] = reply[b]
        /\ reply' = [reply EXCEPT ![q] = q] /\ reply'[q] = q
        /\ records' = records
    BY <1>0 DEF ReturnDirectly, SkipStore, Saved, Reply, Enter, tables, TypeOK, Working
  <1>2. reply[q] = None /\ q \in Ran /\ inflight[Key] = q /\ q # None
    BY <1>1, Called
  <1>3. Ran' = Ran
    <2>1. q \in Ran'
      BY <1>1 DEF Ran, Ours, Sharing
    <2>2. QED
      BY <1>1, <1>2, <2>1, RanStep
  <1>4. State' = State /\ Bodies' = Bodies
    <2>1. CASE ReturnDirectly(q) \/ SkipStore(q)
      <3>1. UNCHANGED <<inflight, settled>> /\ phase[q] = "handling"
        BY <2>1 DEF ReturnDirectly, SkipStore, tables
      <3>2. State' = State
        BY <1>1, <1>2, <3>1, StateStep
      <3>3. ~Recorded(q) /\ ~Recorded(q)'
        BY <1>0, <1>1, <1>2, <3>1, WorkHasNoRecord DEF Recorded, KeyInvariants, Ours
      <3>4. QED
        BY <1>1, <3>1, <3>2, <3>3, BodiesStep
    <2>2. CASE Saved(q)
      <3>1. target[q].key = Key /\ target[q].promise = q /\ phase[q] = "saving"
        BY <1>0, <2>2, OwnTarget DEF Saved, Ours
      <3>2. settled[q] = None
        BY <3>1, KeyFacts DEF RecordInv, Ours
      <3>3. /\ settled' = [settled EXCEPT ![q] = q] /\ settled'[q] = q
            /\ inflight'[Key] = None
        BY <1>0, <1>2, <2>2, <3>1, <3>2 DEF Saved, TypeOK
      <3>4. State' = State
        BY <1>1, <1>2, <3>1, <3>3 DEF State
      <3>5. Recorded(q) /\ Recorded(q)'
        BY <3>1, <3>3 DEF Recorded
      <3>6. \A b \in Ours \ {q} : settled'[b] = settled[b]
        BY <1>0, <3>3 DEF TypeOK
      <3>7. QED
        BY <1>1, <3>4, <3>5, <3>6, BodiesStep
    <2>3. QED
      BY <1>1, <2>1, <2>2
  <1>5. QED
    BY <1>0, <1>1, <1>2, <1>3, <1>4, OnceAnswers

\* store.set() records the work, or fails: the work may then be done again.
LEMMA StoreOnce ==
    ASSUME KeyInvariants, KeyInvariants', KeptApart(Key), NEW q \in Ours, Save(q) \/ SaveFails(q)
    PROVE  Once!Next
  <1>0. TypeOK /\ Ours \subseteq Requests /\ Key \in Keys
    BY KeyFacts
  <1>1. /\ phase[q] = "serializing" /\ Working(q)
        /\ phase'[q] \in {"saving", "failed"}
        /\ \A b \in Ours \ {q} : phase'[b] = phase[b]
        /\ UNCHANGED <<reply, settled>>
    BY <1>0 DEF Save, SaveFails, Enter, TypeOK, Working
  <1>2. /\ records[Key] = None /\ inflight[Key] = q /\ settled[q] = None /\ q # None
        /\ q \in Ran /\ target[q].key = Key
    BY <1>0, <1>1, Called, WorkHasNoRecord, OwnTarget DEF KeyInvariants, Ours
  <1>3. State = "running" /\ ~Recorded(q)
    BY <1>1, <1>2 DEF State, Recorded
  <1>4. Ran' = Ran /\ Replies' = Replies
    <2>1. q \in Ran'
      BY <1>1 DEF Ran, Working, Ours, Sharing
    <2>2. QED
      BY <1>1, <1>2, <2>1, RanStep DEF Replies, Ours, Sharing
  <1>5. CASE Save(q)
    <2>1. records'[Key] = q /\ phase'[q] = "saving"
      BY <1>0, <1>2, <1>5 DEF Save, Enter, TypeOK
    <2>2. State' = "recorded" /\ Recorded(q)'
      BY <1>2, <2>1 DEF State, Recorded
    <2>3. Bodies' = Bodies \cup {q} /\ q \notin Bodies
      BY <1>1, <1>3, <2>2, BodiesStep, BodiesAreRecorded
    <2>4. Once!Record(q)
      BY <1>2, <1>3, <1>4, <2>2, <2>3 DEF State, Ran, Bodies, Replies, Ours, Once!Record
    <2>5. QED
      BY <2>4 DEF Once!Next, Ours
  <1>6. CASE SaveFails(q)
    <2>1. records'[Key] = None /\ inflight'[Key] = None /\ phase'[q] = "failed"
      BY <1>0, <1>2, <1>6 DEF SaveFails, Enter, TypeOK
    <2>2. State' = "open" /\ ~Recorded(q)'
      BY <1>1, <1>2, <2>1 DEF State, Recorded
    <2>3. Bodies' = Bodies
      BY <1>1, <1>3, <2>2, BodiesStep
    <2>4. Once!GiveUp
      BY <1>3, <1>4, <2>2, <2>3 DEF State, Ran, Bodies, Replies, Ours, Once!GiveUp
    <2>5. QED
      BY <2>4 DEF Once!Next
  <1>7. QED
    BY <1>5, <1>6

\* The record's time to live is over.
LEMMA ExpireOnce ==
    ASSUME KeyInvariants, Expire(Key)
    PROVE  Once!Next
  <1>1. UNCHANGED <<phase, reply, settled, inflight>> /\ Key \in Keys /\ TypeOK
    BY KeyFacts DEF Expire, perRequest
  <1>2. Ran' = Ran /\ Bodies' = Bodies /\ Replies' = Replies
    BY <1>1 DEF Ran, Bodies, Working, Replies, Ours, Sharing
  <1>3. records[Key] # None /\ records'[Key] = None
    BY <1>1 DEF Expire, TypeOK
  <1>4. State = "recorded" /\ State' = "open"
    BY <1>1, <1>3, KeyFacts DEF State, RecordInv
  <1>5. Once!Forget
    BY <1>2, <1>4 DEF State, Ran, Bodies, Replies, Ours, Once!Forget
  <1>6. QED
    BY <1>5 DEF Once!Next

\* What other requests do is not seen.
LEMMA OthersOnce ==
    ASSUME KeyInvariants, KeyUnchanged(Key)
    PROVE  UNCHANGED Once!vars
  <1>1. State' = State
    BY KeyFacts DEF KeyUnchanged, State, Ours
  <1>2. Ran' = Ran
    BY DEF KeyUnchanged, Ran, Working, Ours, Sharing
  <1>3. Bodies' = Bodies
    BY DEF KeyUnchanged, Bodies, Ours, Sharing
  <1>4. Replies' = Replies
    BY DEF KeyUnchanged, Replies, Ours, Sharing
  <1>5. QED
    BY <1>1, <1>2, <1>3, <1>4, OnceStays

\* On the memory store, whose continuations run in the order of the calls, and with
\* any other requests in between: while a key is kept apart every step of the plugin
\* is a step of OnceOnly, or none.  The work is started by one request for each
\* lifetime of the record, and every other request that is answered gets a recorded
\* body.  Nothing is known of Key but that it is one of the keys.
THEOREM ApartServedOnce == Spec => ApartKeyIsServedOnce
  <1> DEFINE Inv == TypeOK /\ (MemoryStore => MemoryInv /\ (KeptApart(Key) => ApartInv(Key)))
  <1>0. Key \in Keys
    BY ConstantsAssumption
  <1>1. Init => Once!Init
    <2> SUFFICES ASSUME Init PROVE Once!Init
      OBVIOUS
    <2>1. State = "open"
      BY <1>0 DEF Init, State
    <2>2. Ran = {} /\ Bodies = {} /\ Replies = [r \in Ours |-> None]
      BY ConstantsAssumption DEF Init, Ran, Bodies, Replies, Working, Ours, Sharing
    <2>3. QED
      BY <2>1, <2>2 DEF State, Ran, Bodies, Replies, Ours, Once!Init
  <1>2. Init => Inv
    <2> SUFFICES ASSUME Init PROVE Inv
      OBVIOUS
    <2>1. BaseInv
      BY InitTypeOK DEF Init, BaseInv, KeyInv, WaitersAwaitTheirKey, FreshInv
    <2>2. AnsweredInv /\ (MemoryStore => QueueInv)
      BY DEF Init, AnsweredInv, QueueInv, MemoryStore
    <2>3. ApartInv(Key)
      BY <1>0 DEF Init, ApartInv, OwnerInv, RecordInv, OrderInv, Working, Sharing
    <2>4. QED
      BY <2>1, <2>2, <2>3 DEF MemoryInv, BaseInv
  <1>3. Inv /\ [Next]_vars => Inv'
    <2> SUFFICES ASSUME Inv, [Next]_vars PROVE Inv'
      OBVIOUS
    <2>1. TypeOK' /\ MemoryStore' = MemoryStore
      BY TypeInductive, StoreStays
    <2>2. ASSUME MemoryStore PROVE MemoryInv' /\ (KeptApart(Key) => ApartInv(Key))'
      BY <1>0, <2>2, MemoryInductive, ApartInductive
    <2>3. QED
      BY <2>1, <2>2
  <1>4. Inv /\ Inv' /\ [Next]_vars => (MemoryStore /\ KeptApart(Key)' => [Once!Next]_Once!vars)
    <2> SUFFICES ASSUME Inv, Inv', [Next]_vars, MemoryStore, KeptApart(Key)'
                 PROVE  Once!Next \/ UNCHANGED Once!vars
      OBVIOUS
    <2>1. BaseInv /\ KeptApart(Key) /\ KeyInvariants /\ KeyInvariants'
      BY <1>0, ApartBefore, StoreStays DEF KeyInvariants, MemoryInv
    <2>2. ASSUME NEW q \in Ours, Lookup(q) \/ Progress(q)
          PROVE  Once!Next \/ UNCHANGED Once!vars
      <3>1. CASE Lookup(q) \/ Join(q)
        BY <2>1, <3>1, WaitOnce
      <3>2. CASE Replay(q) \/ Wake(q)
        BY <2>1, <3>2, AnswerOnce
      <3>3. CASE Claim(q)
        BY <2>1, <3>3, ClaimOnce
      <3>4. CASE Throw(q) \/ Capture(q)
        BY <2>1, <3>4, WorkOnce
      <3>5. CASE ReturnDirectly(q) \/ SkipStore(q) \/ Saved(q)
        BY <2>1, <3>5, OwnAnswerOnce
      <3>6. CASE Save(q) \/ SaveFails(q)
        BY <2>1, <3>6, StoreOnce
      <3>7. QED
        BY <2>2, <3>1, <3>2, <3>3, <3>4, <3>5, <3>6 DEF Progress
    <2>3. CASE KeyUnchanged(Key)
      BY <2>1, <2>3, OthersOnce
    <2>4. CASE Expire(Key)
      BY <2>1, <2>4, ExpireOnce
    <2>5. QED
      BY <1>0, <2>1, <2>2, <2>3, <2>4, StepOfKey DEF Ours
  <1>5. QED
    BY <1>1, <1>2, <1>3, <1>4, PTL DEF Spec, ApartKeyIsServedOnce

=============================================================================
