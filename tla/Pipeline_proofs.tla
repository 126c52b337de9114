-------------------------- MODULE Pipeline_proofs ---------------------------
(***************************************************************************)
(* Theorems about Pipeline for every set of routes.                        *)
(***************************************************************************)
EXTENDS Pipeline, TLAPS

-----------------------------------------------------------------------------
(* Building blocks: what each shared piece of control flow assigns.         *)

MainPlaces == (Steps \ {"onAfterResponse"}) \cup {"settled"}

LEMMA StepSets ==
    /\ ContextSteps \subseteq GuardSteps
    /\ GuardSteps \subseteq MainPlaces
    /\ "settled" \notin Steps
    /\ "handler" \in MainPlaces /\ "afterHandle" \in MainPlaces
    /\ "mapResponse" \in MainPlaces /\ "onError" \in MainPlaces
    /\ "settled" \in MainPlaces
    BY DEF ContextSteps, GuardSteps, ResultSteps, Steps, MainPlaces

\* Moving on stays among the guards, or enters the handler.
LEMMA ProceedType ==
    ASSUME pc \in GuardSteps, hook \in Nat, Proceed
    PROVE  pc' \in GuardSteps \cup {"handler"} /\ hook' \in Nat
    BY DEF Proceed, Goto

\* While a hook of the main chain runs, Here is an origin.
LEMMA HereType ==
    ASSUME pc \in Steps, hook \in Nat
    PROVE  Here \in Origin
    BY DEF Here, Origin, Places

LEMMA SettleType ==
    ASSUME NEW kind \in Replies, NEW by \in Origin, Settle(kind, by)
    PROVE  pc' = "settled" /\ hook' \in Nat /\ reply' \in Reply
    BY DEF Settle, Goto, Reply

LEMMA HandleErrorType ==
    ASSUME reply \in Reply, NEW by \in Origin, HandleError(by)
    PROVE  /\ pc' \in {"onError", "settled"}
           /\ hook' \in Nat
           /\ error' \in Origin
           /\ reply' \in Reply
    BY DEF HandleError, Settle, Goto, Reply, Replies

LEMMA StartObserversType ==
    ASSUME watch \in {"off", "due", "run", "wait", "done"}, watchHook \in Nat, StartObservers
    PROVE  watch' \in {"off", "due", "run", "wait", "done"} /\ watchHook' \in Nat
    BY DEF StartObservers, observers

LEMMA SerializationFailsType ==
    ASSUME reply \in Reply, error \in Origin, NEW mode, SerializationFails(mode)
    PROVE  /\ pc' \in {"onError", "settled"}
           /\ hook' \in Nat
           /\ error' \in Origin
           /\ reply' \in Reply
  <1> DEFINE by == [step |-> "toResponse", hook |-> 0]
  <1>1. by \in Origin
    BY DEF Origin, Places
  <1>2. CASE mode = "sync"
    BY <1>1, <1>2, HandleErrorType DEF SerializationFails
  <1>3. CASE mode # "sync"
    BY <1>1, <1>3, SettleType DEF SerializationFails, Replies
  <1>4. QED
    BY <1>2, <1>3

LEMMA FinalizeType ==
    ASSUME TypeOK, NEW value \in Result, NEW mode, NEW deny \in BOOLEAN,
           Finalize(value, mode, deny)
    PROVE  /\ pc' \in {"mapResponse", "onError", "settled"}
           /\ hook' \in Nat
           /\ result' \in Result
           /\ denied' \in BOOLEAN
           /\ error' \in Origin
           /\ reply' \in Reply
           /\ watch' \in {"off", "due", "run", "wait", "done"}
           /\ watchHook' \in Nat
  <1>1. CASE route["mapResponse"] > 0
    BY <1>1 DEF Finalize, Goto, TypeOK
  <1>2. CASE ~(route["mapResponse"] > 0) /\ value.kind = "bad"
    BY <1>2, SerializationFailsType DEF Finalize, TypeOK, observers
  <1>3. CASE ~(route["mapResponse"] > 0) /\ value.kind # "bad"
    <2>1. value.by \in Origin
      BY DEF Result
    <2>2. QED
      BY <1>3, <2>1, SettleType, StartObserversType DEF Finalize, TypeOK, Replies
  <1>4. QED
    BY <1>1, <1>2, <1>3

LEMMA ProducedType ==
    ASSUME pc \in Steps, hook \in Nat, NEW o \in Values
    PROVE  Produced(o) \in Result
    BY HereType DEF Produced, Result

LEMMA OverrideType ==
    ASSUME NEW old \in Result, NEW new \in Result
    PROVE  Override(old, new) \in Result
    BY DEF Override

LEMMA InvokeType ==
    ASSUME pc \in Steps, calls \in [Steps -> Nat], set \in BOOLEAN, Invoke
    PROVE  calls' \in [Steps -> Nat] /\ set' \in BOOLEAN
  <1>1. calls' \in [Steps -> Nat]
    <2>1. calls[pc] + 1 \in Nat
      OBVIOUS
    <2>2. calls' = [calls EXCEPT ![pc] = calls[pc] + 1]
      BY DEF Invoke
    <2>3. QED
      BY <2>1, <2>2
  <1>2. set' \in BOOLEAN
    BY DEF Invoke
  <1>3. QED
    BY <1>1, <1>2

\* What every completed hook assigns.
LEMMA FinishesType ==
    ASSUME TypeOK, NEW s \in Steps, NEW mode, NEW o, Finishes(s, mode, o)
    PROVE  /\ pc = s
           /\ Here \in Origin
           /\ route' \in Routes
           /\ calls' \in [Steps -> Nat]
           /\ set' \in BOOLEAN
           /\ wait' \in BOOLEAN
           /\ thrown' \in Origin
  <1>1. pc = s /\ Here \in Origin
    BY HereType DEF Finishes, TypeOK
  <1>2. calls \in [Steps -> Nat] /\ set \in BOOLEAN
    BY DEF TypeOK
  <1>3. calls' \in [Steps -> Nat] /\ set' \in BOOLEAN
    <2>1. CASE mode = "sync"
      BY <1>1, <1>2, <2>1, InvokeType DEF Finishes
    <2>2. CASE mode # "sync"
      BY <1>2, <2>2 DEF Finishes
    <2>3. QED
      BY <2>1, <2>2
  <1>5. thrown' \in Origin
    <2>1. thrown \in Origin
      BY DEF TypeOK
    <2>2. QED
      BY <1>1, <2>1 DEF Finishes
  <1>6. route' \in Routes /\ wait' \in BOOLEAN
    BY DEF Finishes, TypeOK
  <1>7. QED
    BY <1>1, <1>3, <1>5, <1>6

LEMMA RecordsType ==
    ASSUME writers \subseteq Origin, Here \in Origin, NEW o, Records(o)
    PROVE  writers' \subseteq Origin
    BY DEF Records

-----------------------------------------------------------------------------
(* Type correctness, one lemma per action. *)

LEMMA InitTypeOK == Init => TypeOK
  <1> SUFFICES ASSUME Init PROVE TypeOK
    OBVIOUS
  <1>1. pc \in MainPlaces
    BY StepSets DEF Init
  <1>2. Nowhere \in Origin
    BY DEF Nowhere, Origin, Places
  <1>3. result \in Result /\ reply \in Reply
    BY <1>2 DEF Init, Result, Values, Reply, Replies, NoReply
  <1>4. QED
    BY <1>1, <1>2, <1>3 DEF Init, TypeOK, MainPlaces

LEMMA ContextHookTypeOK ==
    ASSUME TypeOK, NEW s, NEW mode, NEW o, ContextHook(s, mode, o)
    PROVE  TypeOK'
  <1>1. s \in ContextSteps /\ s \in Steps /\ s \in GuardSteps
    BY DEF ContextHook, ContextSteps, GuardSteps, Steps
  <1>2. Finishes(s, mode, o)
    BY DEF ContextHook
  <1>3. /\ pc = s /\ Here \in Origin /\ route' \in Routes
        /\ calls' \in [Steps -> Nat] /\ set' \in BOOLEAN
        /\ wait' \in BOOLEAN /\ thrown' \in Origin
    BY <1>1, <1>2, FinishesType
  <1>4. pc' \in MainPlaces /\ hook' \in Nat /\ error' \in Origin /\ reply' \in Reply
    <2>1. hook \in Nat /\ reply \in Reply /\ error \in Origin
      BY DEF TypeOK
    <2>2. CASE o = "throw"
      BY <1>3, <2>1, <2>2, HandleErrorType, StepSets DEF ContextHook
    <2>3. CASE o # "throw"
      BY <1>1, <1>3, <2>1, <2>3, ProceedType, StepSets DEF ContextHook
    <2>4. QED
      BY <2>2, <2>3
  <1>5. bodyBy' \in {"nobody", "hook", "request"}
    BY DEF ContextHook, TypeOK
  <1>6. UNCHANGED <<result, denied, writers, watch, watchHook>>
    BY DEF ContextHook, observers
  <1>7. QED
    BY <1>3, <1>4, <1>5, <1>6 DEF TypeOK, MainPlaces

LEMMA BodyLimitTypeOK ==
    ASSUME TypeOK, NEW o, BodyLimit(o)
    PROVE  TypeOK'
  <1>1. "bodyLimit" \in Steps /\ "bodyLimit" \in GuardSteps
    BY DEF GuardSteps, Steps
  <1>2. Finishes("bodyLimit", "sync", o)
    BY DEF BodyLimit
  <1>3. /\ pc = "bodyLimit" /\ Here \in Origin /\ route' \in Routes
        /\ calls' \in [Steps -> Nat] /\ set' \in BOOLEAN
        /\ wait' \in BOOLEAN /\ thrown' \in Origin
    BY <1>1, <1>2, FinishesType
  <1>4. pc' \in MainPlaces /\ hook' \in Nat /\ error' \in Origin /\ reply' \in Reply
    <2>1. hook \in Nat /\ reply \in Reply /\ error \in Origin
      BY DEF TypeOK
    <2>2. CASE o = "throw"
      BY <1>3, <2>1, <2>2, HandleErrorType, StepSets DEF BodyLimit
    <2>3. CASE o # "throw"
      BY <1>1, <1>3, <2>1, <2>3, ProceedType, StepSets DEF BodyLimit
    <2>4. QED
      BY <2>2, <2>3
  <1>5. UNCHANGED <<bodyBy, result, denied, writers, watch, watchHook>>
    BY DEF BodyLimit, observers
  <1>6. QED
    BY <1>3, <1>4, <1>5 DEF TypeOK, MainPlaces

LEMMA SkipBodyTypeOK ==
    ASSUME TypeOK, SkipBody
    PROVE  TypeOK'
  <1>1. pc \in GuardSteps
    BY DEF SkipBody, GuardSteps
  <1>2. pc' \in MainPlaces /\ hook' \in Nat
    BY <1>1, ProceedType, StepSets DEF SkipBody, TypeOK
  <1>3. QED
    BY <1>2 DEF SkipBody, TypeOK, MainPlaces, history, observers

LEMMA SuspendTypeOK ==
    ASSUME TypeOK, NEW s \in Steps, Suspend(s)
    PROVE  TypeOK'
  <1>1. calls' \in [Steps -> Nat] /\ set' \in BOOLEAN
    BY InvokeType DEF Suspend, TypeOK
  <1>2. watch' \in {"off", "due", "run", "wait", "done"} /\ watchHook' \in Nat
    BY StartObserversType DEF Suspend, TypeOK, observers
  <1>3. QED
    BY <1>1, <1>2 DEF Suspend, TypeOK

LEMMA BodyReadTypeOK ==
    ASSUME TypeOK, NEW o, BodyRead(o)
    PROVE  TypeOK'
  <1>1. "body" \in Steps /\ "body" \in GuardSteps
    BY DEF GuardSteps, Steps
  <1>2. Finishes("body", "async", o)
    BY DEF BodyRead
  <1>3. /\ pc = "body" /\ Here \in Origin /\ route' \in Routes
        /\ calls' \in [Steps -> Nat] /\ set' \in BOOLEAN
        /\ wait' \in BOOLEAN /\ thrown' \in Origin
    BY <1>1, <1>2, FinishesType
  <1>4. pc' \in MainPlaces /\ hook' \in Nat /\ error' \in Origin /\ reply' \in Reply
    <2>1. hook \in Nat /\ reply \in Reply /\ error \in Origin
      BY DEF TypeOK
    <2>2. CASE o = "throw"
      BY <1>3, <2>1, <2>2, HandleErrorType, StepSets DEF BodyRead
    <2>3. CASE o # "throw"
      BY <1>1, <1>3, <2>1, <2>3, ProceedType, StepSets DEF BodyRead
    <2>4. QED
      BY <2>2, <2>3
  <1>5. bodyBy' \in {"nobody", "hook", "request"}
    BY DEF BodyRead, TypeOK
  <1>6. UNCHANGED <<result, denied, writers, watch, watchHook>>
    BY DEF BodyRead, observers
  <1>7. QED
    BY <1>3, <1>4, <1>5, <1>6 DEF TypeOK, MainPlaces

LEMMA ValidateTypeOK ==
    ASSUME TypeOK, NEW v, Validate(v)
    PROVE  TypeOK'
  <1>1. "validators" \in Steps /\ "validators" \in GuardSteps
    BY DEF GuardSteps, Steps
  <1>2. Finishes("validators", "sync", v)
    BY DEF Validate
  <1>3. /\ pc = "validators" /\ Here \in Origin /\ route' \in Routes
        /\ calls' \in [Steps -> Nat] /\ set' \in BOOLEAN
        /\ wait' \in BOOLEAN /\ thrown' \in Origin
    BY <1>1, <1>2, FinishesType
  <1>4. /\ pc' \in MainPlaces /\ hook' \in Nat /\ error' \in Origin /\ reply' \in Reply
        /\ watch' \in {"off", "due", "run", "wait", "done"} /\ watchHook' \in Nat
    <2>1. /\ hook \in Nat /\ reply \in Reply /\ error \in Origin /\ watchHook \in Nat
          /\ watch \in {"off", "due", "run", "wait", "done"}
      BY DEF TypeOK
    <2>2. CASE v = "throw"
      BY <1>3, <2>1, <2>2, HandleErrorType, StepSets DEF Validate, observers
    <2>3. CASE v = "invalid"
      BY <1>3, <2>1, <2>3, SettleType, StartObserversType, StepSets DEF Validate, Replies
    <2>4. CASE v = "valid"
      BY <1>1, <1>3, <2>1, <2>4, ProceedType, StepSets DEF Validate, observers
    <2>5. QED
      BY <2>2, <2>3, <2>4 DEF Validate
  <1>5. UNCHANGED <<bodyBy, result, denied, writers>>
    BY DEF Validate
  <1>6. QED
    BY <1>3, <1>4, <1>5 DEF TypeOK, MainPlaces

LEMMA BeforeHandleTypeOK ==
    ASSUME TypeOK, NEW mode, NEW o, BeforeHandle(mode, o)
    PROVE  TypeOK'
  <1>1. "beforeHandle" \in Steps /\ "beforeHandle" \in GuardSteps
    BY DEF GuardSteps, Steps
  <1>2. Finishes("beforeHandle", mode, o)
    BY DEF BeforeHandle
  <1>3. /\ pc = "beforeHandle" /\ Here \in Origin /\ route' \in Routes
        /\ calls' \in [Steps -> Nat] /\ set' \in BOOLEAN
        /\ wait' \in BOOLEAN /\ thrown' \in Origin
    BY <1>1, <1>2, FinishesType
  <1>4. /\ hook \in Nat /\ reply \in Reply /\ error \in Origin /\ watchHook \in Nat
        /\ watch \in {"off", "due", "run", "wait", "done"}
        /\ result \in Result /\ denied \in BOOLEAN /\ writers \subseteq Origin
    BY DEF TypeOK
  <1>5. /\ pc' \in MainPlaces /\ hook' \in Nat /\ result' \in Result
        /\ denied' \in BOOLEAN /\ error' \in Origin /\ reply' \in Reply
        /\ watch' \in {"off", "due", "run", "wait", "done"} /\ watchHook' \in Nat
    <2>1. CASE /\ o = "throw"
               /\ HandleError(Here)
               /\ UNCHANGED <<result, denied, observers>>
      BY <1>3, <1>4, <2>1, HandleErrorType, StepSets DEF observers
    <2>2. CASE /\ o \in {"undefined", "object"}
               /\ Proceed
               /\ UNCHANGED <<result, denied, error, reply, observers>>
      BY <1>1, <1>3, <1>4, <2>2, ProceedType, StepSets DEF observers
    <2>3. CASE o \in {"scalar", "response", "bad"} /\ Finalize(Produced(o), mode, TRUE)
      <3>1. Produced(o) \in Result
        BY <1>1, <1>3, <1>4, <2>3, ProducedType DEF Values
      <3>2. QED
        BY <2>3, <3>1, FinalizeType, StepSets
    <2>4. QED
      BY <2>1, <2>2, <2>3 DEF BeforeHandle
  <1>6. writers' \subseteq Origin
    BY <1>3, <1>4, RecordsType DEF BeforeHandle
  <1>7. bodyBy' \in {"nobody", "hook", "request"}
    BY DEF BeforeHandle, TypeOK
  <1>8. QED
    BY <1>3, <1>5, <1>6, <1>7 DEF TypeOK, MainPlaces

LEMMA HandleTypeOK ==
    ASSUME TypeOK, NEW mode, NEW o, Handle(mode, o)
    PROVE  TypeOK'
  <1>1. "handler" \in Steps
    BY DEF ResultSteps, Steps
  <1>2. Finishes("handler", mode, o)
    BY DEF Handle
  <1>3. /\ pc = "handler" /\ Here \in Origin /\ route' \in Routes
        /\ calls' \in [Steps -> Nat] /\ set' \in BOOLEAN
        /\ wait' \in BOOLEAN /\ thrown' \in Origin
    BY <1>1, <1>2, FinishesType
  <1>4. /\ hook \in Nat /\ reply \in Reply /\ error \in Origin /\ watchHook \in Nat
        /\ watch \in {"off", "due", "run", "wait", "done"}
        /\ result \in Result /\ denied \in BOOLEAN /\ writers \subseteq Origin
    BY DEF TypeOK
  <1>5. o \in Values => Produced(o) \in Result
    BY <1>1, <1>3, <1>4, ProducedType
  <1>6. /\ pc' \in MainPlaces /\ hook' \in Nat /\ result' \in Result
        /\ denied' \in BOOLEAN /\ error' \in Origin /\ reply' \in Reply
        /\ watch' \in {"off", "due", "run", "wait", "done"} /\ watchHook' \in Nat
    <2>1. CASE /\ o = "throw"
               /\ HandleError(Here)
               /\ UNCHANGED <<result, denied, observers>>
      BY <1>3, <1>4, <2>1, HandleErrorType, StepSets DEF observers
    <2>2. CASE /\ o \in Values
               /\ result' = Produced(o)
               /\ Settle("value", Here)
               /\ UNCHANGED <<denied, error, observers>>
      BY <1>3, <1>4, <1>5, <2>2, SettleType, StepSets DEF observers, Replies
    <2>3. CASE /\ o \in Values
               /\ result' = Produced(o)
               /\ Goto("afterHandle", 1)
               /\ UNCHANGED <<denied, error, reply, observers>>
      BY <1>4, <1>5, <2>3, StepSets DEF Goto, observers
    <2>4. CASE o \in Values /\ Finalize(Produced(o), mode, FALSE)
      BY <1>5, <2>4, FinalizeType, StepSets
    <2>5. QED
      BY <2>1, <2>2, <2>3, <2>4 DEF Handle
  <1>7. writers' \subseteq Origin
    BY <1>3, <1>4, RecordsType DEF Handle
  <1>8. bodyBy' \in {"nobody", "hook", "request"}
    BY DEF Handle, TypeOK
  <1>9. QED
    BY <1>3, <1>6, <1>7, <1>8 DEF TypeOK, MainPlaces

LEMMA AfterHandleTypeOK ==
    ASSUME TypeOK, NEW mode, NEW o \in Outcomes, AfterHandle(mode, o)
    PROVE  TypeOK'
  <1>1. "afterHandle" \in Steps
    BY DEF ResultSteps, Steps
  <1>2. Finishes("afterHandle", mode, o)
    BY DEF AfterHandle
  <1>3. /\ pc = "afterHandle" /\ Here \in Origin /\ route' \in Routes
        /\ calls' \in [Steps -> Nat] /\ set' \in BOOLEAN
        /\ wait' \in BOOLEAN /\ thrown' \in Origin
    BY <1>1, <1>2, FinishesType
  <1>4. /\ hook \in Nat /\ reply \in Reply /\ error \in Origin /\ watchHook \in Nat
        /\ watch \in {"off", "due", "run", "wait", "done"}
        /\ result \in Result /\ denied \in BOOLEAN /\ writers \subseteq Origin
    BY DEF TypeOK
  <1>5. /\ pc' \in MainPlaces /\ hook' \in Nat /\ result' \in Result
        /\ denied' \in BOOLEAN /\ error' \in Origin /\ reply' \in Reply
        /\ watch' \in {"off", "due", "run", "wait", "done"} /\ watchHook' \in Nat
    <2>1. CASE o = "throw"
      BY <1>3, <1>4, <2>1, HandleErrorType, StepSets DEF AfterHandle, observers
    <2>2. CASE o # "throw"
      <3> DEFINE next == Override(result, Produced(o))
      <3>1. next \in Result
        BY <1>1, <1>3, <1>4, <2>2, ProducedType, OverrideType DEF Outcomes
      <3>2. CASE hook < route["afterHandle"]
        BY <1>4, <2>2, <3>1, <3>2, StepSets DEF AfterHandle, Goto, observers
      <3>3. CASE ~(hook < route["afterHandle"])
        <4>1. Finalize(next, mode, FALSE)
          BY <2>2, <3>3 DEF AfterHandle
        <4>2. QED
          BY <3>1, <4>1, FinalizeType, StepSets
      <3>4. QED
        BY <3>2, <3>3
    <2>3. QED
      BY <2>1, <2>2
  <1>6. writers' \subseteq Origin
    BY <1>3, <1>4, RecordsType DEF AfterHandle
  <1>7. bodyBy' \in {"nobody", "hook", "request"}
    BY DEF AfterHandle, TypeOK
  <1>8. QED
    BY <1>3, <1>5, <1>6, <1>7 DEF TypeOK, MainPlaces

LEMMA MapResponseTypeOK ==
    ASSUME TypeOK, NEW mode, NEW o \in Outcomes, MapResponse(mode, o)
    PROVE  TypeOK'
  <1>1. "mapResponse" \in Steps
    BY DEF ResultSteps, Steps
  <1>2. Finishes("mapResponse", mode, o)
    BY DEF MapResponse
  <1>3. /\ pc = "mapResponse" /\ Here \in Origin /\ route' \in Routes
        /\ calls' \in [Steps -> Nat] /\ set' \in BOOLEAN
        /\ wait' \in BOOLEAN /\ thrown' \in Origin
    BY <1>1, <1>2, FinishesType
  <1>4. /\ hook \in Nat /\ reply \in Reply /\ error \in Origin /\ watchHook \in Nat
        /\ watch \in {"off", "due", "run", "wait", "done"}
        /\ result \in Result /\ denied \in BOOLEAN /\ writers \subseteq Origin
    BY DEF TypeOK
  <1>5. \A ok \in BOOLEAN : ObserveMapped(ok) =>
            watch' \in {"off", "due", "run", "wait", "done"} /\ watchHook' \in Nat
    BY <1>4, StartObserversType DEF ObserveMapped, observers
  <1>6. /\ pc' \in MainPlaces /\ hook' \in Nat /\ result' \in Result /\ reply' \in Reply
        /\ watch' \in {"off", "due", "run", "wait", "done"} /\ watchHook' \in Nat
    <2>1. CASE o = "throw"
      BY <1>3, <1>4, <1>5, <2>1, SettleType, StepSets DEF MapResponse, Replies
    <2>2. CASE o # "throw"
      <3> DEFINE next == Override(result, Produced(o))
      <3>1. next \in Result /\ next.by \in Origin
        BY <1>1, <1>3, <1>4, <2>2, ProducedType, OverrideType DEF Outcomes, Result
      <3>2. result' = next
        BY <2>2 DEF MapResponse
      <3>3. CASE hook < route["mapResponse"]
        BY <1>4, <2>2, <3>1, <3>2, <3>3, StepSets DEF MapResponse, Goto, observers
      <3>4. CASE ~(hook < route["mapResponse"]) /\ next.kind = "bad"
        <4>1. [step |-> "toResponse", hook |-> 0] \in Origin
          BY DEF Origin, Places
        <4>2. QED
          BY <1>5, <2>2, <3>1, <3>2, <3>4, <4>1, SettleType, StepSets DEF MapResponse, Replies
      <3>5. CASE ~(hook < route["mapResponse"]) /\ next.kind # "bad"
        BY <1>5, <2>2, <3>1, <3>2, <3>5, SettleType, StepSets DEF MapResponse, Replies
      <3>6. QED
        BY <3>3, <3>4, <3>5
    <2>3. QED
      BY <2>1, <2>2
  <1>7. writers' \subseteq Origin
    BY <1>3, <1>4, RecordsType DEF MapResponse
  <1>8. UNCHANGED <<bodyBy, denied, error>>
    BY DEF MapResponse
  <1>9. QED
    BY <1>3, <1>6, <1>7, <1>8 DEF TypeOK, MainPlaces

LEMMA OnErrorTypeOK ==
    ASSUME TypeOK, NEW mode, NEW o, OnError(mode, o)
    PROVE  TypeOK'
  <1>1. "onError" \in Steps
    BY DEF Steps
  <1>2. Finishes("onError", mode, o)
    BY DEF OnError
  <1>3. /\ pc = "onError" /\ Here \in Origin /\ route' \in Routes
        /\ calls' \in [Steps -> Nat] /\ set' \in BOOLEAN
        /\ wait' \in BOOLEAN /\ thrown' \in Origin
    BY <1>1, <1>2, FinishesType
  <1>4. pc' \in MainPlaces /\ hook' \in Nat /\ reply' \in Reply
    <2>1. hook \in Nat /\ reply \in Reply /\ error \in Origin
      BY DEF TypeOK
    <2>2. CASE \E kind \in {"value", "problem", "rejected"}, by \in {Here, error} : Settle(kind, by)
      BY <1>3, <2>1, <2>2, SettleType, StepSets DEF Replies
    <2>3. CASE Goto("onError", hook + 1) /\ UNCHANGED reply
      BY <2>1, <2>3, StepSets DEF Goto
    <2>4. QED
      BY <2>2, <2>3 DEF OnError
  <1>5. UNCHANGED <<bodyBy, result, denied, error, writers, watch, watchHook>>
    BY DEF OnError, observers
  <1>6. QED
    BY <1>3, <1>4, <1>5 DEF TypeOK, MainPlaces

LEMMA ObserverTypeOK ==
    ASSUME TypeOK, Observe \/ ObserverResumes
    PROVE  TypeOK'
  <1>1. watch' \in {"off", "due", "run", "wait", "done"} /\ watchHook' \in Nat
    BY DEF TypeOK, Observe, ObserverResumes, NextObserver
  <1>2. calls' \in [Steps -> Nat]
    <2>1. calls \in [Steps -> Nat] /\ "onAfterResponse" \in Steps
      BY DEF TypeOK, Steps
    <2>2. CASE Observe
      <3>1. calls["onAfterResponse"] + 1 \in Nat
        BY <2>1
      <3>2. QED
        BY <2>1, <2>2, <3>1 DEF Observe
    <2>3. CASE ObserverResumes
      BY <2>1, <2>3 DEF ObserverResumes, history
    <2>4. QED
      BY <2>2, <2>3
  <1>3. UNCHANGED <<route, main, writers, thrown>>
    BY DEF Observe, ObserverResumes, history
  <1>4. QED
    BY <1>1, <1>2, <1>3 DEF TypeOK, main

\* Every variable of an invocation keeps its type, for every set of routes.
THEOREM TypeCorrect == Spec => []TypeOK
  <1>1. TypeOK /\ [Next]_vars => TypeOK'
    <2> SUFFICES ASSUME TypeOK, [Next]_vars PROVE TypeOK'
      OBVIOUS
    <2>1. CASE MainStep
      <3>1. CASE \E s \in Steps : Suspend(s)
        BY <3>1, SuspendTypeOK
      <3>2. CASE \E s \in ContextSteps, m \in Modes, o \in Outcomes : ContextHook(s, m, o)
        BY <3>2, ContextHookTypeOK
      <3>3. CASE (\E o \in Outcomes : BodyLimit(o)) \/ SkipBody \/ (\E o \in Outcomes : BodyRead(o))
        BY <3>3, BodyLimitTypeOK, SkipBodyTypeOK, BodyReadTypeOK
      <3>4. CASE \E v \in {"valid", "invalid", "throw"} : Validate(v)
        BY <3>4, ValidateTypeOK
      <3>5. CASE \E m \in Modes, o \in Outcomes : BeforeHandle(m, o)
        BY <3>5, BeforeHandleTypeOK
      <3>6. CASE \E m \in Modes, o \in Outcomes : Handle(m, o)
        BY <3>6, HandleTypeOK
      <3>7. CASE \E m \in Modes, o \in Outcomes : AfterHandle(m, o)
        BY <3>7, AfterHandleTypeOK
      <3>8. CASE \E m \in Modes, o \in Outcomes : MapResponse(m, o)
        BY <3>8, MapResponseTypeOK
      <3>9. CASE \E m \in Modes, o \in Outcomes : OnError(m, o)
        BY <3>9, OnErrorTypeOK
      <3>10. ReadBody => \E s \in Steps : Suspend(s)
        BY DEF ReadBody, Steps, GuardSteps
      <3>11. QED
        BY <2>1, <3>1, <3>2, <3>3, <3>4, <3>5, <3>6, <3>7, <3>8, <3>9, <3>10 DEF MainStep
    <2>2. CASE Observe \/ ObserverResumes
      BY <2>2, ObserverTypeOK
    <2>3. CASE UNCHANGED vars
      BY <2>3 DEF vars, main, history, observers, TypeOK
    <2>4. QED
      BY <2>1, <2>2, <2>3 DEF Next, Work, Finished
  <1>2. QED
    BY InitTypeOK, <1>1, PTL DEF Spec

-----------------------------------------------------------------------------
(* The error path and the observers exclude each other.                     *)

\* ErrorXorObserved is not inductive: that a hook about to throw is not being
\* observed follows from where the main chain is.
WatchInv ==
    /\ pc \in GuardSteps \cup {"handler", "afterHandle"} => error = Nowhere /\ watch = "off"
    /\ pc = "mapResponse" => error = Nowhere
    /\ pc = "onError" => watch = "off"
    /\ watch = "due" => pc = "mapResponse" /\ denied /\ route["onAfterResponse"] > 0
    /\ ErrorXorObserved
    /\ ObservedAfterReply

\* A settled invocation has its reply.
LEMMA SettleReplies ==
    ASSUME NEW kind, NEW by, kind # "none", Settle(kind, by)
    PROVE  pc' = "settled" /\ reply' # NoReply
    BY DEF Settle, Goto, NoReply

\* handleError is called where nothing observes the request.
LEMMA HandleErrorWatch ==
    ASSUME watch = "off", UNCHANGED observers, NEW by, HandleError(by)
    PROVE  WatchInv'
  <1>1. watch' = "off"
    BY DEF observers
  <1>2. pc' \in {"onError", "settled"}
    BY DEF HandleError, Settle, Goto
  <1>3. QED
    BY <1>1, <1>2 DEF WatchInv, ErrorXorObserved, ObservedAfterReply, GuardSteps, ContextSteps

\* Moving among the guards, or from them into the handler, observes nothing.
LEMMA ProceedWatch ==
    ASSUME pc \in GuardSteps, WatchInv, Proceed, UNCHANGED <<error, observers>>
    PROVE  WatchInv'
  <1>1. pc' \in GuardSteps \cup {"handler"}
    BY DEF Proceed, Goto
  <1>2. error' = Nowhere /\ watch' = "off"
    BY DEF WatchInv, observers
  <1>3. QED
    BY <1>1, <1>2 DEF WatchInv, ErrorXorObserved, ObservedAfterReply, GuardSteps, ContextSteps

LEMMA FinalizeWatch ==
    ASSUME error = Nowhere, watch = "off", NEW value, NEW mode, NEW deny,
           Finalize(value, mode, deny), UNCHANGED route
    PROVE  WatchInv'
  <1>1. CASE route["mapResponse"] > 0
    BY <1>1 DEF Finalize, Goto, WatchInv, ErrorXorObserved, ObservedAfterReply, GuardSteps, ContextSteps
  <1>2. CASE ~(route["mapResponse"] > 0) /\ value.kind = "bad" /\ mode = "sync"
    <2>1. UNCHANGED observers /\ HandleError([step |-> "toResponse", hook |-> 0])
      BY <1>2 DEF Finalize, SerializationFails
    <2>2. QED
      BY <2>1, HandleErrorWatch
  <1>3. CASE ~(route["mapResponse"] > 0) /\ value.kind = "bad" /\ mode # "sync"
    <2>1. pc' = "settled" /\ UNCHANGED <<observers, error>>
      BY <1>3 DEF Finalize, SerializationFails, Settle, Goto
    <2>2. QED
      BY <2>1 DEF WatchInv, ErrorXorObserved, ObservedAfterReply, GuardSteps, ContextSteps, observers
  <1>4. CASE ~(route["mapResponse"] > 0) /\ value.kind # "bad"
    <2>1. pc' = "settled" /\ reply' # NoReply /\ error' = Nowhere
      BY <1>4, SettleReplies DEF Finalize
    <2>2. watch' # "due"
      BY <1>4 DEF Finalize, StartObservers, observers
    <2>3. QED
      BY <2>1, <2>2 DEF WatchInv, ErrorXorObserved, ObservedAfterReply, GuardSteps, ContextSteps
  <1>5. QED
    BY <1>1, <1>2, <1>3, <1>4

LEMMA GuardStepWatch ==
    ASSUME TypeOK, WatchInv,
           \/ \E s \in ContextSteps, m \in Modes, o \in Outcomes : ContextHook(s, m, o)
           \/ \E o \in Outcomes : BodyLimit(o)
           \/ SkipBody
           \/ \E o \in Outcomes : BodyRead(o)
    PROVE  WatchInv'
  <1>1. pc \in GuardSteps
    BY DEF ContextHook, BodyLimit, SkipBody, BodyRead, Finishes, GuardSteps, ContextSteps
  <1>2. error = Nowhere /\ watch = "off" /\ UNCHANGED observers
    BY <1>1 DEF WatchInv, ContextHook, BodyLimit, SkipBody, BodyRead
  <1>3. CASE HandleError(Here)
    BY <1>2, <1>3, HandleErrorWatch
  <1>4. CASE Proceed /\ UNCHANGED <<error, reply>>
    BY <1>1, <1>2, <1>4, ProceedWatch
  <1>5. QED
    BY <1>3, <1>4 DEF ContextHook, BodyLimit, SkipBody, BodyRead

LEMMA ValidateWatch ==
    ASSUME TypeOK, WatchInv, NEW v, Validate(v)
    PROVE  WatchInv'
  <1>1. pc = "validators" /\ pc \in GuardSteps
    BY DEF Validate, Finishes, GuardSteps
  <1>2. error = Nowhere /\ watch = "off"
    BY <1>1 DEF WatchInv
  <1>3. CASE HandleError(Here) /\ UNCHANGED observers
    BY <1>2, <1>3, HandleErrorWatch
  <1>4. CASE Settle("invalid", Here) /\ StartObservers /\ UNCHANGED error
    <2>1. pc' = "settled" /\ reply' # NoReply /\ error' = Nowhere
      BY <1>2, <1>4, SettleReplies
    <2>2. watch' # "due"
      BY <1>2, <1>4 DEF StartObservers, observers
    <2>3. QED
      BY <2>1, <2>2 DEF WatchInv, ErrorXorObserved, ObservedAfterReply, GuardSteps, ContextSteps
  <1>5. CASE Proceed /\ UNCHANGED <<error, reply, observers>>
    BY <1>1, <1>5, ProceedWatch
  <1>6. QED
    BY <1>3, <1>4, <1>5 DEF Validate

LEMMA BeforeHandleWatch ==
    ASSUME TypeOK, WatchInv, NEW m, NEW o, BeforeHandle(m, o)
    PROVE  WatchInv'
  <1>1. pc = "beforeHandle" /\ pc \in GuardSteps
    BY DEF BeforeHandle, Finishes, GuardSteps
  <1>2. error = Nowhere /\ watch = "off"
    BY <1>1 DEF WatchInv
  <1>3. CASE HandleError(Here) /\ UNCHANGED <<result, denied, observers>>
    BY <1>2, <1>3, HandleErrorWatch
  <1>4. CASE Proceed /\ UNCHANGED <<result, denied, error, reply, observers>>
    BY <1>1, <1>4, ProceedWatch
  <1>5. CASE Finalize(Produced(o), m, TRUE)
    BY <1>2, <1>5, FinalizeWatch DEF BeforeHandle, Finishes
  <1>6. QED
    BY <1>3, <1>4, <1>5 DEF BeforeHandle

LEMMA HandleWatch ==
    ASSUME TypeOK, WatchInv, NEW m, NEW o, Handle(m, o)
    PROVE  WatchInv'
  <1>1. pc = "handler" /\ error = Nowhere /\ watch = "off"
    BY DEF Handle, Finishes, WatchInv
  <1>2. CASE HandleError(Here) /\ UNCHANGED <<result, denied, observers>>
    BY <1>1, <1>2, HandleErrorWatch
  <1>3. CASE Settle("value", Here) /\ UNCHANGED <<denied, error, observers>>
    BY <1>1, <1>3 DEF Settle, Goto, observers, WatchInv, ErrorXorObserved, ObservedAfterReply,
                      GuardSteps, ContextSteps
  <1>4. CASE Goto("afterHandle", 1) /\ UNCHANGED <<denied, error, reply, observers>>
    BY <1>1, <1>4 DEF Goto, observers, WatchInv, ErrorXorObserved, ObservedAfterReply,
                      GuardSteps, ContextSteps
  <1>5. CASE Finalize(Produced(o), m, FALSE)
    BY <1>1, <1>5, FinalizeWatch DEF Handle, Finishes
  <1>6. QED
    BY <1>2, <1>3, <1>4, <1>5 DEF Handle

LEMMA AfterHandleWatch ==
    ASSUME TypeOK, WatchInv, NEW m, NEW o, AfterHandle(m, o)
    PROVE  WatchInv'
  <1>1. pc = "afterHandle" /\ error = Nowhere /\ watch = "off"
    BY DEF AfterHandle, Finishes, WatchInv
  <1>2. CASE HandleError(Here) /\ UNCHANGED <<result, denied, observers>>
    BY <1>1, <1>2, HandleErrorWatch
  <1>3. CASE Goto("afterHandle", hook + 1) /\ UNCHANGED <<denied, error, reply, observers>>
    BY <1>1, <1>3 DEF Goto, observers, WatchInv, ErrorXorObserved, ObservedAfterReply,
                      GuardSteps, ContextSteps
  <1>4. CASE Finalize(Override(result, Produced(o)), m, FALSE)
    BY <1>1, <1>4, FinalizeWatch DEF AfterHandle, Finishes
  <1>5. QED
    BY <1>2, <1>3, <1>4 DEF AfterHandle

LEMMA MapResponseWatch ==
    ASSUME TypeOK, WatchInv, NEW m, NEW o, MapResponse(m, o)
    PROVE  WatchInv'
  <1>1. pc = "mapResponse" /\ error = Nowhere /\ UNCHANGED <<route, error, denied>>
    BY DEF MapResponse, Finishes, WatchInv
  <1>2. CASE pc' = "mapResponse" /\ UNCHANGED <<reply, observers>>
    <2>1. calls["mapResponse"] \in Nat
      BY DEF TypeOK, Steps, ResultSteps
    <2>2. calls'["mapResponse"] >= calls["mapResponse"]
      <3>1. calls' = [calls EXCEPT !["mapResponse"] = calls["mapResponse"] + 1] \/ calls' = calls
        BY <1>1 DEF MapResponse, Finishes, Invoke
      <3>2. QED
        BY <2>1, <3>1 DEF TypeOK, Steps, ResultSteps
    <2>3. calls'["mapResponse"] \in Nat
      BY <1>1, FinishesType DEF MapResponse, Steps, ResultSteps
    <2>4. watch \in {"run", "wait", "done"} /\ reply = NoReply => denied /\ calls'["mapResponse"] > 0
      BY <2>1, <2>2, <2>3 DEF WatchInv, ObservedAfterReply
    <2>5. QED
      BY <1>1, <1>2, <2>4 DEF observers, WatchInv, ErrorXorObserved, ObservedAfterReply,
                              NoReply, GuardSteps, ContextSteps
  <1>3. CASE pc' = "settled" /\ reply' # NoReply /\ watch' # "due"
    BY <1>1, <1>3 DEF WatchInv, ErrorXorObserved, ObservedAfterReply, GuardSteps, ContextSteps
  <1>4. \/ pc' = "mapResponse" /\ UNCHANGED <<reply, observers>>
        \/ pc' = "settled" /\ reply' # NoReply /\ watch' # "due"
    <2>1. ASSUME NEW ok, ObserveMapped(ok) PROVE watch' # "due"
      BY <2>1 DEF ObserveMapped, StartObservers, observers, WatchInv
    <2>2. ASSUME NEW kind \in {"value", "rejected"}, NEW by, Settle(kind, by)
          PROVE  pc' = "settled" /\ reply' # NoReply
      BY <2>2, SettleReplies
    <2>3. CASE o = "throw"
      BY <2>1, <2>2, <2>3 DEF MapResponse
    <2>4. CASE o # "throw"
      BY <2>1, <2>2, <2>4 DEF MapResponse, Goto
    <2>5. QED
      BY <2>3, <2>4
  <1>5. QED
    BY <1>2, <1>3, <1>4

LEMMA OnErrorWatch ==
    ASSUME TypeOK, WatchInv, NEW m, NEW o, OnError(m, o)
    PROVE  WatchInv'
  <1>1. watch = "off" /\ watch' = "off"
    BY DEF OnError, Finishes, WatchInv, observers
  <1>2. pc' \in {"onError", "settled"}
    BY DEF OnError, Settle, Goto
  <1>3. QED
    BY <1>1, <1>2 DEF WatchInv, ErrorXorObserved, ObservedAfterReply, GuardSteps, ContextSteps

LEMMA SuspendWatch ==
    ASSUME TypeOK, WatchInv, NEW s \in Steps, Suspend(s)
    PROVE  WatchInv'
  <1>1. UNCHANGED <<route, pc, denied, error, reply>> /\ watch # "run"
    BY DEF Suspend, MainMayRun
  <1>2. CASE watch # "due"
    <2>1. watch' = watch
      BY <1>2 DEF Suspend, observers
    <2>2. calls["mapResponse"] \in Nat /\ calls'["mapResponse"] \in Nat
          /\ calls'["mapResponse"] >= calls["mapResponse"]
      <3>1. calls \in [Steps -> Nat] /\ "mapResponse" \in Steps /\ pc \in Steps
        BY DEF TypeOK, Steps, ResultSteps, Suspend
      <3>2. calls' = [calls EXCEPT ![pc] = calls[pc] + 1]
        BY DEF Suspend, Invoke
      <3>3. QED
        BY <3>1, <3>2
    <2>3. ObservedAfterReply'
      BY <1>1, <2>1, <2>2 DEF WatchInv, ObservedAfterReply, NoReply
    <2>4. QED
      BY <1>1, <2>1, <2>3 DEF WatchInv, ErrorXorObserved, Nowhere
  <1>3. CASE watch = "due"
    <2>1. pc = "mapResponse" /\ denied /\ watch' = "run" /\ error = Nowhere
      BY <1>3 DEF WatchInv, Suspend, StartObservers
    <2>2. calls'["mapResponse"] > 0
      <3>1. calls \in [Steps -> Nat] /\ "mapResponse" \in Steps
        BY DEF TypeOK, Steps, ResultSteps
      <3>2. calls' = [calls EXCEPT !["mapResponse"] = calls["mapResponse"] + 1]
        BY <2>1 DEF Suspend, Invoke
      <3>3. QED
        BY <3>1, <3>2
    <2>3. QED
      BY <1>1, <2>1, <2>2 DEF WatchInv, ErrorXorObserved, ObservedAfterReply, GuardSteps, ContextSteps
  <1>4. QED
    BY <1>2, <1>3

LEMMA ObserverWatch ==
    ASSUME TypeOK, WatchInv, Observe \/ ObserverResumes
    PROVE  WatchInv'
  <1>1. watch \in {"run", "wait"} /\ watch' \in {"run", "wait", "done"}
    BY DEF Observe, ObserverResumes, NextObserver
  <1>2. UNCHANGED <<route, pc, denied, error, reply>>
    BY DEF Observe, ObserverResumes, main
  <1>3. calls'["mapResponse"] = calls["mapResponse"]
    BY DEF Observe, ObserverResumes, history, TypeOK, Steps, ResultSteps
  <1>4. QED
    BY <1>1, <1>2, <1>3 DEF WatchInv, ErrorXorObserved, ObservedAfterReply, NoReply, Nowhere

LEMMA WatchInductive ==
    TypeOK /\ WatchInv /\ [Next]_vars => WatchInv'
  <1> SUFFICES ASSUME TypeOK, WatchInv, [Next]_vars PROVE WatchInv'
    OBVIOUS
  <1>1. CASE MainStep
    <2>1. CASE \E s \in Steps : Suspend(s)
      BY <2>1, SuspendWatch
    <2>2. CASE \/ \E s \in ContextSteps, m \in Modes, o \in Outcomes : ContextHook(s, m, o)
               \/ \E o \in Outcomes : BodyLimit(o)
               \/ SkipBody
               \/ \E o \in Outcomes : BodyRead(o)
      BY <2>2, GuardStepWatch
    <2>3. CASE \E v \in {"valid", "invalid", "throw"} : Validate(v)
      BY <2>3, ValidateWatch
    <2>4. CASE \E m \in Modes, o \in Outcomes : BeforeHandle(m, o)
      BY <2>4, BeforeHandleWatch
    <2>5. CASE \E m \in Modes, o \in Outcomes : Handle(m, o)
      BY <2>5, HandleWatch
    <2>6. CASE \E m \in Modes, o \in Outcomes : AfterHandle(m, o)
      BY <2>6, AfterHandleWatch
    <2>7. CASE \E m \in Modes, o \in Outcomes : MapResponse(m, o)
      BY <2>7, MapResponseWatch
    <2>8. CASE \E m \in Modes, o \in Outcomes : OnError(m, o)
      BY <2>8, OnErrorWatch
    <2>9. ReadBody => \E s \in Steps : Suspend(s)
      BY DEF ReadBody, Steps, GuardSteps
    <2>10. QED
      BY <1>1, <2>1, <2>2, <2>3, <2>4, <2>5, <2>6, <2>7, <2>8, <2>9 DEF MainStep
  <1>2. CASE Observe \/ ObserverResumes
    BY <1>2, ObserverWatch
  <1>3. CASE UNCHANGED vars
    BY <1>3 DEF vars, main, history, observers, WatchInv, ErrorXorObserved, ObservedAfterReply,
                NoReply, Nowhere
  <1>4. QED
    BY <1>1, <1>2, <1>3 DEF Next, Work, Finished

LEMMA WatchInvariant == Spec => []WatchInv
  <1>1. Init => WatchInv
    BY DEF Init, WatchInv, ErrorXorObserved, ObservedAfterReply
  <1>2. QED
    BY <1>1, WatchInductive, TypeCorrect, PTL DEF Spec

\* A request given to the error path is never observed, and an observed request
\* never reaches the error path.
THEOREM ErrorsAreNotObserved == Spec => []ErrorXorObserved
  <1>1. WatchInv => ErrorXorObserved
    BY DEF WatchInv
  <1>2. QED
    BY <1>1, WatchInvariant, PTL

\* onAfterResponse hooks start only after the reply is decided, or during the
\* mapping of a short-circuit.
THEOREM ObserversFollowReply == Spec => []ObservedAfterReply
  <1>1. WatchInv => ObservedAfterReply
    BY DEF WatchInv
  <1>2. QED
    BY <1>1, WatchInvariant, PTL

-----------------------------------------------------------------------------
(* The handler runs behind all its guards.                                  *)

\* GuardsBeforeHandler becomes inductive once the guards count their calls:
\* the steps behind the current one are complete, the current one is complete
\* up to its hook, and the steps ahead were not entered.
GuardInv ==
    /\ pc \in GuardSteps \cup {"handler"} =>
         /\ thrown = Nowhere
         /\ ~denied
         /\ \A s \in GuardSteps : Rank[s] < Rank[pc] => RunInFull(s)
    /\ pc \in GuardSteps =>
         /\ hook \in 1..route[pc]
         /\ calls[pc] = IF wait THEN hook ELSE hook - 1
         /\ \A s \in Steps : Rank[s] > Rank[pc] => calls[s] = 0
    /\ pc = "body" /\ wait => bodyBy = "nobody"
    /\ GuardsBeforeHandler

LEMMA RankFacts ==
    /\ \A s \in Steps : Rank[s] \in Nat
    /\ \A s, t \in Steps : Rank[s] = Rank[t] => s = t
    /\ \A s \in GuardSteps : Rank[s] < Rank["handler"]
    /\ GuardSteps \subseteq Steps
    /\ "handler" \in Steps /\ "handler" \notin GuardSteps
    BY DEF Rank, Steps, GuardSteps, ContextSteps, ResultSteps

LEMMA RouteFacts ==
    ASSUME TypeOK
    PROVE  /\ \A s \in Steps : route[s] \in Nat
           /\ route["body"] <= 1
  <1>1. IsRoute(route)
    BY RoutesAssumption DEF TypeOK
  <1>2. route["bodyLimit"] \in Nat /\ route["body"] \in Nat
    BY <1>1 DEF IsRoute, Steps, GuardSteps
  <1>3. QED
    BY <1>1, <1>2 DEF IsRoute

\* Leaving the guards for an error or an early reply.
LEMMA ExitGuards ==
    ASSUME TypeOK, GuardInv, pc \in GuardSteps,
           calls' = calls \/ calls' = [calls EXCEPT ![pc] = calls[pc] + 1],
           pc' \notin GuardSteps \cup {"handler"}
    PROVE  GuardInv'
  <1>1. Rank["handler"] > Rank[pc] /\ "handler" # pc
    BY RankFacts
  <1>2. calls["handler"] = 0
    BY <1>1, RankFacts DEF GuardInv
  <1>3. calls'["handler"] = 0
    BY <1>1, <1>2, RankFacts DEF TypeOK
  <1>4. pc' # "body"
    BY DEF GuardSteps
  <1>5. QED
    BY <1>3, <1>4 DEF GuardInv, GuardsBeforeHandler

\* Moving on from a hook that was called, or from a body that need not be read.
LEMMA ProceedGuards ==
    ASSUME TypeOK, GuardInv, pc \in GuardSteps, Proceed,
           \/ calls' = [calls EXCEPT ![pc] = hook]
           \/ pc = "body" /\ bodyBy = "hook" /\ calls' = calls,
           bodyBy = "hook" => bodyBy' = "hook",
           wait' = FALSE,
           UNCHANGED <<route, thrown, denied>>
    PROVE  GuardInv'
  <1>1. /\ calls \in [Steps -> Nat] /\ pc \in Steps
        /\ hook \in 1..route[pc] /\ route[pc] \in Nat
        /\ \A s \in Steps : Rank[s] > Rank[pc] => calls[s] = 0
        /\ \A s \in GuardSteps : Rank[s] < Rank[pc] => RunInFull(s)
        /\ thrown = Nowhere /\ ~denied
    BY RankFacts, RouteFacts DEF TypeOK, GuardInv
  <1>2. \A s \in Steps : s # pc => calls'[s] = calls[s]
    BY <1>1
  <1>3. calls'["handler"] = 0
    BY <1>1, <1>2, RankFacts
  <1>4. \A s \in GuardSteps : Rank[s] < Rank[pc] => RunInFull(s)'
    <2> SUFFICES ASSUME NEW s \in GuardSteps, Rank[s] < Rank[pc] PROVE RunInFull(s)'
      OBVIOUS
    <2>1. s # pc /\ s \in Steps
      BY RankFacts
    <2>2. RunInFull(s) /\ calls'[s] = calls[s]
      BY <1>1, <1>2, <2>1
    <2>3. QED
      BY <2>2 DEF RunInFull
  <1>5. CASE hook < route[pc]
    <2>1. pc' = pc /\ hook' = hook + 1
      BY <1>5 DEF Proceed, Goto
    <2>2. calls'[pc] = hook
      <3>1. pc = "body" => route[pc] <= 1
        BY RouteFacts
      <3>2. ~(pc = "body" /\ bodyBy = "hook" /\ calls' = calls)
        BY <1>1, <1>5, <3>1
      <3>3. QED
        BY <1>1, <3>2
    <2>3. hook' \in 1..route[pc]
      BY <1>1, <1>5, <2>1
    <2>4. \A s \in Steps : Rank[s] > Rank[pc] => calls'[s] = 0
      <3> SUFFICES ASSUME NEW s \in Steps, Rank[s] > Rank[pc] PROVE calls'[s] = 0
        OBVIOUS
      <3>1. s # pc
        BY <1>1, RankFacts
      <3>2. QED
        BY <1>1, <1>2, <3>1
    <2>5. calls'[pc] = IF wait' THEN hook' ELSE hook' - 1
      BY <1>1, <2>1, <2>2
    <2>6. QED
      BY <1>1, <1>3, <1>4, <2>1, <2>3, <2>4, <2>5 DEF GuardInv, GuardsBeforeHandler
  <1>6. CASE ~(hook < route[pc])
    <2>1. PICK t \in GuardSteps \cup {"handler"} : FirstStepAbove(route, Rank[pc], t) /\ Goto(t, 1)
      BY <1>6 DEF Proceed
    <2>2. /\ t \in Steps /\ Rank[pc] < Rank[t] /\ route[t] > 0 /\ t # pc
          /\ pc' = t /\ hook' = 1 /\ route[t] \in Nat
      BY <2>1, RankFacts, RouteFacts DEF FirstStepAbove, Goto
    <2>3. ASSUME NEW s \in GuardSteps, s = pc PROVE RunInFull(s)'
      <3>1. CASE calls' = [calls EXCEPT ![pc] = hook]
        <4>1. calls'[s] = hook /\ hook = route'[s]
          BY <1>1, <1>6, <2>3, <3>1
        <4>2. QED
          BY <4>1 DEF RunInFull
      <3>2. CASE pc = "body" /\ bodyBy = "hook" /\ calls' = calls
        BY <2>3, <3>2 DEF RunInFull
      <3>3. QED
        BY <3>1, <3>2
    <2>4. \A s \in GuardSteps : Rank[s] < Rank[t] => RunInFull(s)'
      <3> SUFFICES ASSUME NEW s \in GuardSteps, Rank[s] < Rank[t] PROVE RunInFull(s)'
        OBVIOUS
      <3>1. s \in Steps /\ Rank[s] \in Nat /\ Rank[pc] \in Nat
        BY <1>1, RankFacts
      <3>2. CASE Rank[s] < Rank[pc]
        BY <1>4, <3>2
      <3>3. CASE Rank[s] = Rank[pc]
        BY <1>1, <2>3, <3>1, <3>3, RankFacts
      <3>4. CASE Rank[s] > Rank[pc]
        <4>1. route[s] = 0
          BY <2>1, <3>1, <3>4 DEF FirstStepAbove
        <4>2. calls'[s] = 0
          BY <1>1, <1>2, <3>1, <3>4
        <4>3. QED
          BY <4>1, <4>2 DEF RunInFull
      <3>5. QED
        BY <3>1, <3>2, <3>3, <3>4
    <2>5. \A s \in Steps : Rank[s] >= Rank[t] => calls'[s] = 0
      <3> SUFFICES ASSUME NEW s \in Steps, Rank[s] >= Rank[t] PROVE calls'[s] = 0
        OBVIOUS
      <3>1. Rank[s] > Rank[pc] /\ s # pc
        BY <1>1, <2>2, RankFacts
      <3>2. QED
        BY <1>1, <1>2, <3>1
    <2>6. calls'[t] = IF wait' THEN hook' ELSE hook' - 1
      BY <2>2, <2>5, RankFacts
    <2>7. hook' \in 1..route[t]
      BY <2>2
    <2>8. \A s \in Steps : Rank[s] > Rank[t] => calls'[s] = 0
      BY <2>2, <2>5, RankFacts
    <2>9. QED
      BY <1>1, <1>3, <2>2, <2>4, <2>6, <2>7, <2>8 DEF GuardInv, GuardsBeforeHandler
  <1>7. QED
    BY <1>5, <1>6

\* What a completed guard hook did to the call count.
LEMMA GuardCalls ==
    ASSUME TypeOK, GuardInv, NEW s \in GuardSteps, NEW mode, NEW o, Finishes(s, mode, o)
    PROVE  /\ pc = s
           /\ calls' = [calls EXCEPT ![pc] = hook]
           /\ calls' = calls \/ calls' = [calls EXCEPT ![pc] = calls[pc] + 1]
           /\ wait' = FALSE /\ route' = route
           /\ o # "throw" => thrown' = thrown
  <1>1. pc = s /\ pc \in Steps /\ calls \in [Steps -> Nat] /\ hook \in Nat
    BY RankFacts DEF Finishes, TypeOK
  <1>2. calls[pc] = IF wait THEN hook ELSE hook - 1
    BY <1>1 DEF GuardInv
  <1>3. CASE mode = "sync"
    <2>1. ~wait /\ calls' = [calls EXCEPT ![pc] = calls[pc] + 1]
      BY <1>3 DEF Finishes, Invoke
    <2>2. calls[pc] + 1 = hook
      BY <1>1, <1>2, <2>1
    <2>3. QED
      BY <1>1, <2>1, <2>2 DEF Finishes
  <1>4. CASE mode # "sync"
    <2>1. wait /\ calls' = calls
      BY <1>4 DEF Finishes
    <2>2. calls[pc] = hook
      BY <1>2, <2>1
    <2>3. calls = [calls EXCEPT ![pc] = hook]
      BY <1>1, <2>2
    <2>4. QED
      BY <1>1, <2>1, <2>3 DEF Finishes
  <1>5. QED
    BY <1>3, <1>4

LEMMA ErrorLeavesGuards ==
    ASSUME NEW by, HandleError(by)
    PROVE  pc' \notin GuardSteps \cup {"handler"}
    BY DEF HandleError, Settle, Goto, GuardSteps, ContextSteps

LEMMA FinalizeLeavesGuards ==
    ASSUME NEW value, NEW mode, NEW deny, Finalize(value, mode, deny)
    PROVE  pc' \notin GuardSteps \cup {"handler"}
    BY ErrorLeavesGuards
       DEF Finalize, SerializationFails, Settle, Goto, GuardSteps, ContextSteps

\* A guard hook that ends in an error, or lets the request proceed.
LEMMA GuardOutcome ==
    ASSUME TypeOK, GuardInv, NEW s \in GuardSteps, NEW mode, NEW o, Finishes(s, mode, o),
           UNCHANGED denied, bodyBy = "hook" => bodyBy' = "hook",
           \/ HandleError(Here)
           \/ o # "throw" /\ Proceed
    PROVE  GuardInv'
  <1>1. CASE HandleError(Here)
    BY <1>1, GuardCalls, ErrorLeavesGuards, ExitGuards
  <1>2. CASE o # "throw" /\ Proceed
    BY <1>2, GuardCalls, ProceedGuards
  <1>3. QED
    BY <1>1, <1>2

LEMMA GuardStepGuards ==
    ASSUME TypeOK, GuardInv,
           \/ \E s \in ContextSteps, m \in Modes, o \in Outcomes : ContextHook(s, m, o)
           \/ \E o \in Outcomes : BodyLimit(o)
           \/ \E o \in Outcomes : BodyRead(o)
    PROVE  GuardInv'
  <1>1. CASE \E s \in ContextSteps, m \in Modes, o \in Outcomes : ContextHook(s, m, o)
    <2>1. PICK s \in ContextSteps, m \in Modes, o \in Outcomes : ContextHook(s, m, o)
      BY <1>1
    <2>2. s \in GuardSteps /\ Finishes(s, m, o) /\ UNCHANGED denied
          /\ (bodyBy = "hook" => bodyBy' = "hook")
      BY <2>1 DEF ContextHook, GuardSteps
    <2>3. HandleError(Here) \/ (o # "throw" /\ Proceed)
      BY <2>1 DEF ContextHook
    <2>4. QED
      BY <2>2, <2>3, GuardOutcome
  <1>2. CASE \E o \in Outcomes : BodyLimit(o)
    <2>1. PICK o \in Outcomes : BodyLimit(o)
      BY <1>2
    <2>2. /\ "bodyLimit" \in GuardSteps /\ Finishes("bodyLimit", "sync", o)
          /\ UNCHANGED denied /\ bodyBy' = bodyBy
      BY <2>1 DEF BodyLimit, GuardSteps
    <2>3. HandleError(Here) \/ (o # "throw" /\ Proceed)
      BY <2>1 DEF BodyLimit
    <2>4. QED
      BY <2>2, <2>3, GuardOutcome
  <1>3. CASE \E o \in Outcomes : BodyRead(o)
    <2>1. PICK o \in Outcomes : BodyRead(o)
      BY <1>3
    <2>2. pc = "body" /\ wait /\ bodyBy = "nobody"
      BY <2>1 DEF BodyRead, Finishes, GuardInv
    <2>3. "body" \in GuardSteps /\ Finishes("body", "async", o) /\ UNCHANGED denied
      BY <2>1 DEF BodyRead, GuardSteps
    <2>4. HandleError(Here) \/ (o # "throw" /\ Proceed)
      BY <2>1 DEF BodyRead
    <2>5. QED
      BY <2>2, <2>3, <2>4, GuardOutcome
  <1>4. QED
    BY <1>1, <1>2, <1>3

LEMMA SkipBodyGuards ==
    ASSUME TypeOK, GuardInv, SkipBody
    PROVE  GuardInv'
  <1>1. /\ pc = "body" /\ pc \in GuardSteps /\ bodyBy = "hook" /\ bodyBy' = "hook"
        /\ wait' = FALSE /\ calls' = calls /\ Proceed
        /\ UNCHANGED <<route, thrown, denied>>
    BY DEF SkipBody, GuardSteps, history, TypeOK
  <1>2. QED
    BY <1>1, ProceedGuards

LEMMA ValidateGuards ==
    ASSUME TypeOK, GuardInv, NEW v, Validate(v)
    PROVE  GuardInv'
  <1>1. /\ "validators" \in GuardSteps /\ Finishes("validators", "sync", v)
        /\ UNCHANGED denied /\ bodyBy' = bodyBy
    BY DEF Validate, GuardSteps
  <1>2. CASE HandleError(Here)
    BY <1>1, <1>2, GuardOutcome
  <1>3. CASE Settle("invalid", Here)
    <2>1. pc' \notin GuardSteps \cup {"handler"}
      BY <1>3 DEF Settle, Goto, GuardSteps, ContextSteps
    <2>2. QED
      BY <1>1, <2>1, GuardCalls, ExitGuards
  <1>4. CASE v = "valid" /\ Proceed
    BY <1>1, <1>4, GuardOutcome
  <1>5. QED
    BY <1>2, <1>3, <1>4 DEF Validate

LEMMA BeforeHandleGuards ==
    ASSUME TypeOK, GuardInv, NEW m, NEW o, BeforeHandle(m, o)
    PROVE  GuardInv'
  <1>1. "beforeHandle" \in GuardSteps /\ Finishes("beforeHandle", m, o) /\ bodyBy' = bodyBy
    BY DEF BeforeHandle, GuardSteps
  <1>2. CASE HandleError(Here) /\ UNCHANGED denied
    BY <1>1, <1>2, GuardOutcome
  <1>3. CASE o # "throw" /\ Proceed /\ UNCHANGED denied
    BY <1>1, <1>3, GuardOutcome
  <1>4. CASE Finalize(Produced(o), m, TRUE)
    BY <1>1, <1>4, GuardCalls, FinalizeLeavesGuards, ExitGuards
  <1>5. QED
    BY <1>2, <1>3, <1>4 DEF BeforeHandle

\* The result steps and the error hooks: behind the guards, nothing of theirs
\* changes any more.
LEMMA BehindGuards ==
    ASSUME TypeOK, GuardInv, pc \in Steps \ GuardSteps, pc' \notin GuardSteps \cup {"handler"},
           \/ calls' = calls
           \/ calls' = [calls EXCEPT ![pc] = calls[pc] + 1],
           \/ calls["handler"] > 0
           \/ pc = "handler"
           \/ calls'["handler"] = 0,
           thrown' = thrown \/ thrown'.step = pc,
           calls'["handler"] > 0 => ~denied',
           UNCHANGED <<route, bodyBy>>
    PROVE  GuardInv'
  <1>1. pc' # "body"
    BY DEF GuardSteps
  <1>2. SUFFICES ASSUME calls'["handler"] > 0 PROVE GuardsBeforeHandler'
    BY <1>1 DEF GuardInv, GuardsBeforeHandler
  <1>3. \A s \in GuardSteps : RunInFull(s) /\ thrown.step \notin GuardSteps
    <2>1. CASE pc = "handler"
      BY <2>1, RankFacts DEF GuardInv, Nowhere, GuardSteps, ContextSteps
    <2>2. CASE calls["handler"] > 0
      BY <2>2 DEF GuardInv, GuardsBeforeHandler
    <2>3. QED
      BY <1>2, <2>1, <2>2 DEF TypeOK
  <1>4. \A s \in GuardSteps : RunInFull(s)'
    <2> SUFFICES ASSUME NEW s \in GuardSteps PROVE RunInFull(s)'
      OBVIOUS
    <2>1. calls'[s] = calls[s]
      BY RankFacts DEF TypeOK
    <2>2. QED
      BY <1>3, <2>1 DEF RunInFull
  <1>5. thrown'.step \notin GuardSteps
    BY <1>3, RankFacts DEF GuardSteps
  <1>6. QED
    BY <1>2, <1>4, <1>5 DEF GuardsBeforeHandler

\* What a completed hook behind the guards did to the histories.
LEMMA BehindCalls ==
    ASSUME TypeOK, NEW s \in {"handler", "afterHandle", "mapResponse", "onError"},
           NEW mode, NEW o, Finishes(s, mode, o)
    PROVE  /\ pc = s /\ pc \in Steps \ GuardSteps
           /\ calls' = calls \/ calls' = [calls EXCEPT ![pc] = calls[pc] + 1]
           /\ pc # "handler" => calls'["handler"] = calls["handler"]
           /\ calls["handler"] \in Nat
           /\ thrown' = thrown \/ thrown'.step = pc
           /\ route' = route
  <1>1. pc = s /\ pc \in Steps \ GuardSteps
    BY DEF Finishes, Steps, ResultSteps, GuardSteps, ContextSteps
  <1>2. calls' = calls \/ calls' = [calls EXCEPT ![pc] = calls[pc] + 1]
    BY DEF Finishes, Invoke
  <1>3. pc # "handler" => calls'["handler"] = calls["handler"]
    BY <1>1, <1>2, RankFacts DEF TypeOK
  <1>4. thrown' = thrown \/ thrown'.step = pc
    BY DEF Finishes, Here
  <1>5. calls["handler"] \in Nat
    BY RankFacts DEF TypeOK
  <1>6. QED
    BY <1>1, <1>2, <1>3, <1>4, <1>5 DEF Finishes

\* The short-circuit flag where the handler is, or was, reached.
LEMMA NotDenied ==
    ASSUME GuardInv, pc = "handler" \/ calls["handler"] > 0
    PROVE  ~denied
    BY DEF GuardInv, GuardsBeforeHandler

LEMMA FinalizeDenies ==
    ASSUME NEW value, NEW mode, NEW deny, Finalize(value, mode, deny)
    PROVE  denied' = deny
    BY DEF Finalize

LEMMA HandleGuards ==
    ASSUME TypeOK, GuardInv, NEW m, NEW o, Handle(m, o)
    PROVE  GuardInv'
  <1>1. Finishes("handler", m, o) /\ bodyBy' = bodyBy
    BY DEF Handle
  <1>2. pc' \notin GuardSteps \cup {"handler"} /\ (denied' = denied \/ denied' = FALSE)
    <2>1. CASE HandleError(Here) /\ UNCHANGED denied
      BY <2>1, ErrorLeavesGuards
    <2>2. CASE Settle("value", Here) /\ UNCHANGED denied
      BY <2>2 DEF Settle, Goto, GuardSteps, ContextSteps
    <2>3. CASE Goto("afterHandle", 1) /\ UNCHANGED denied
      BY <2>3 DEF Goto, GuardSteps, ContextSteps
    <2>4. CASE Finalize(Produced(o), m, FALSE)
      BY <2>4, FinalizeLeavesGuards, FinalizeDenies
    <2>5. QED
      BY <2>1, <2>2, <2>3, <2>4 DEF Handle
  <1>3. QED
    BY <1>1, <1>2, BehindCalls, NotDenied, BehindGuards

LEMMA AfterHandleGuards ==
    ASSUME TypeOK, GuardInv, NEW m, NEW o, AfterHandle(m, o)
    PROVE  GuardInv'
  <1>1. Finishes("afterHandle", m, o) /\ bodyBy' = bodyBy
    BY DEF AfterHandle
  <1>2. pc' \notin GuardSteps \cup {"handler"} /\ (denied' = denied \/ denied' = FALSE)
    <2>1. CASE HandleError(Here) /\ UNCHANGED denied
      BY <2>1, ErrorLeavesGuards
    <2>2. CASE Goto("afterHandle", hook + 1) /\ UNCHANGED denied
      BY <2>2 DEF Goto, GuardSteps, ContextSteps
    <2>3. CASE Finalize(Override(result, Produced(o)), m, FALSE)
      BY <2>3, FinalizeLeavesGuards, FinalizeDenies
    <2>4. QED
      BY <2>1, <2>2, <2>3 DEF AfterHandle
  <1>3. pc = "afterHandle"
    BY <1>1 DEF Finishes
  <1>4. calls'["handler"] = calls["handler"] /\ calls["handler"] \in Nat
    BY <1>1, <1>3, BehindCalls
  <1>5. QED
    BY <1>1, <1>2, <1>4, BehindCalls, NotDenied, BehindGuards

LEMMA MapResponseGuards ==
    ASSUME TypeOK, GuardInv, NEW m, NEW o, MapResponse(m, o)
    PROVE  GuardInv'
  <1>1. Finishes("mapResponse", m, o) /\ bodyBy' = bodyBy /\ denied' = denied
    BY DEF MapResponse
  <1>2. pc' \notin GuardSteps \cup {"handler"}
    BY DEF MapResponse, Settle, Goto, GuardSteps, ContextSteps
  <1>3. pc = "mapResponse"
    BY <1>1 DEF Finishes
  <1>4. calls'["handler"] = calls["handler"] /\ calls["handler"] \in Nat
    BY <1>1, <1>3, BehindCalls
  <1>5. QED
    BY <1>1, <1>2, <1>4, BehindCalls, NotDenied, BehindGuards

LEMMA OnErrorGuards ==
    ASSUME TypeOK, GuardInv, NEW m, NEW o, OnError(m, o)
    PROVE  GuardInv'
  <1>1. Finishes("onError", m, o) /\ bodyBy' = bodyBy /\ denied' = denied
    BY DEF OnError
  <1>2. pc' \notin GuardSteps \cup {"handler"}
    BY DEF OnError, Settle, Goto, GuardSteps, ContextSteps
  <1>3. pc = "onError"
    BY <1>1 DEF Finishes
  <1>4. calls'["handler"] = calls["handler"] /\ calls["handler"] \in Nat
    BY <1>1, <1>3, BehindCalls
  <1>5. QED
    BY <1>1, <1>2, <1>4, BehindCalls, NotDenied, BehindGuards

LEMMA SuspendGuards ==
    ASSUME TypeOK, GuardInv, NEW s \in Steps, Suspend(s), s = "body" => bodyBy = "nobody"
    PROVE  GuardInv'
  <1>1. /\ pc = s /\ ~wait /\ wait' = TRUE
        /\ calls' = [calls EXCEPT ![pc] = calls[pc] + 1]
        /\ UNCHANGED <<route, pc, hook, bodyBy, denied, thrown>>
    BY DEF Suspend, Invoke
  <1>2. calls \in [Steps -> Nat] /\ \A u \in Steps : u # pc => calls'[u] = calls[u]
    BY <1>1 DEF TypeOK
  <1>3. \A u \in GuardSteps : Rank[u] < Rank[pc] /\ RunInFull(u) => RunInFull(u)'
    <2> SUFFICES ASSUME NEW u \in GuardSteps, Rank[u] < Rank[pc], RunInFull(u)
                 PROVE  RunInFull(u)'
      OBVIOUS
    <2>1. calls'[u] = calls[u]
      BY <1>1, <1>2, RankFacts
    <2>2. QED
      BY <1>1, <2>1 DEF RunInFull
  <1>4. CASE pc \in GuardSteps
    <2>1. hook \in 1..route[pc] /\ calls[pc] = hook - 1
      BY <1>1, <1>4 DEF GuardInv
    <2>2. calls'[pc] = hook
      BY <1>1, <1>2, <2>1, hook \in Nat DEF TypeOK
    <2>3. \A u \in Steps : Rank[u] > Rank[pc] => calls'[u] = 0
      BY <1>1, <1>2, <1>4, RankFacts DEF GuardInv
    <2>4. calls'["handler"] = 0
      BY <1>4, <2>3, RankFacts
    <2>5. \A u \in GuardSteps : Rank[u] < Rank[pc] => RunInFull(u)'
      BY <1>3, <1>4 DEF GuardInv
    <2>6. QED
      BY <1>1, <1>4, <2>1, <2>2, <2>3, <2>4, <2>5 DEF GuardInv, GuardsBeforeHandler
  <1>5. CASE pc = "handler"
    <2>1. \A u \in GuardSteps : RunInFull(u)'
      BY <1>3, <1>5, RankFacts DEF GuardInv
    <2>2. thrown = Nowhere /\ ~denied /\ pc \notin GuardSteps
      BY <1>5, RankFacts DEF GuardInv
    <2>3. "none" \notin GuardSteps
      BY DEF GuardSteps, ContextSteps
    <2>4. QED
      BY <1>1, <1>5, <2>1, <2>2, <2>3, RankFacts DEF GuardInv, GuardsBeforeHandler, Nowhere
  <1>6. CASE pc \notin GuardSteps \cup {"handler"}
    <2>1. calls'["handler"] = calls["handler"] /\ calls["handler"] \in Nat
      BY <1>2, <1>6, RankFacts
    <2>2. QED
      BY <1>1, <1>6, <2>1, NotDenied, BehindGuards
  <1>7. QED
    BY <1>4, <1>5, <1>6

\* The observers count their own calls only.
LEMMA ObserverGuards ==
    ASSUME TypeOK, GuardInv, WatchInv, Observe \/ ObserverResumes
    PROVE  GuardInv'
  <1>1. /\ UNCHANGED <<route, pc, hook, wait, bodyBy, denied, thrown>>
        /\ \/ calls' = calls
           \/ calls' = [calls EXCEPT !["onAfterResponse"] = calls["onAfterResponse"] + 1]
    BY DEF Observe, ObserverResumes, main, history
  <1>2. \A u \in GuardSteps \cup {"handler"} : calls'[u] = calls[u]
    <2>1. "onAfterResponse" \in Steps /\ "onAfterResponse" \notin GuardSteps \cup {"handler"}
      BY DEF Steps, GuardSteps, ContextSteps
    <2>2. calls \in [Steps -> Nat]
      BY DEF TypeOK
    <2>3. QED
      BY <1>1, <2>1, <2>2, RankFacts
  <1>3. \A u \in GuardSteps : RunInFull(u) => RunInFull(u)'
    BY <1>1, <1>2 DEF RunInFull
  <1>4. pc \notin GuardSteps
    BY DEF Observe, ObserverResumes, WatchInv
  <1>5. QED
    BY <1>1, <1>2, <1>3, <1>4 DEF GuardInv, GuardsBeforeHandler

LEMMA GuardInit == Init => GuardInv
  <1> SUFFICES ASSUME Init PROVE GuardInv
    OBVIOUS
  <1>1. /\ FirstStepAbove(route, 0, pc) /\ hook = 1 /\ ~wait /\ ~denied
        /\ thrown = Nowhere /\ calls = [s \in Steps |-> 0]
    BY DEF Init
  <1>2. \A s \in Steps : calls[s] = 0 /\ Rank[s] > 0
    BY <1>1 DEF Rank, Steps, GuardSteps, ContextSteps, ResultSteps
  <1>3. \A s \in GuardSteps : Rank[s] < Rank[pc] => RunInFull(s)
    <2> SUFFICES ASSUME NEW s \in GuardSteps, Rank[s] < Rank[pc] PROVE RunInFull(s)
      OBVIOUS
    <2>1. route[s] = 0
      BY <1>1, <1>2, RankFacts DEF FirstStepAbove
    <2>2. QED
      BY <1>2, <2>1, RankFacts DEF RunInFull
  <1>4. TypeOK
    BY InitTypeOK
  <1>5. pc \in GuardSteps => hook \in 1..route[pc]
    BY <1>1, <1>4, RankFacts, RouteFacts DEF FirstStepAbove
  <1>6. QED
    BY <1>1, <1>2, <1>3, <1>5, RankFacts DEF GuardInv, GuardsBeforeHandler

LEMMA GuardInductive ==
    TypeOK /\ WatchInv /\ GuardInv /\ [Next]_vars => GuardInv'
  <1> SUFFICES ASSUME TypeOK, WatchInv, GuardInv, [Next]_vars PROVE GuardInv'
    OBVIOUS
  <1>1. CASE MainStep
    <2>1. CASE \E s \in Steps \ {"bodyLimit", "body", "validators", "onAfterResponse"} : Suspend(s)
      BY <2>1, SuspendGuards
    <2>2. CASE ReadBody
      BY <2>2, SuspendGuards DEF ReadBody, Steps, GuardSteps
    <2>3. CASE \/ \E s \in ContextSteps, m \in Modes, o \in Outcomes : ContextHook(s, m, o)
               \/ \E o \in Outcomes : BodyLimit(o)
               \/ \E o \in Outcomes : BodyRead(o)
      BY <2>3, GuardStepGuards
    <2>4. CASE SkipBody
      BY <2>4, SkipBodyGuards
    <2>5. CASE \E v \in {"valid", "invalid", "throw"} : Validate(v)
      BY <2>5, ValidateGuards
    <2>6. CASE \E m \in Modes, o \in Outcomes : BeforeHandle(m, o)
      BY <2>6, BeforeHandleGuards
    <2>7. CASE \E m \in Modes, o \in Outcomes : Handle(m, o)
      BY <2>7, HandleGuards
    <2>8. CASE \E m \in Modes, o \in Outcomes : AfterHandle(m, o)
      BY <2>8, AfterHandleGuards
    <2>9. CASE \E m \in Modes, o \in Outcomes : MapResponse(m, o)
      BY <2>9, MapResponseGuards
    <2>10. CASE \E m \in Modes, o \in Outcomes : OnError(m, o)
      BY <2>10, OnErrorGuards
    <2>11. QED
      BY <1>1, <2>1, <2>2, <2>3, <2>4, <2>5, <2>6, <2>7, <2>8, <2>9, <2>10 DEF MainStep
  <1>2. CASE Observe \/ ObserverResumes
    BY <1>2, ObserverGuards
  <1>3. CASE UNCHANGED vars
    BY <1>3 DEF vars, main, history, observers, GuardInv, GuardsBeforeHandler, RunInFull
  <1>4. QED
    BY <1>1, <1>2, <1>3 DEF Next, Work, Finished

\* Whatever the hooks return, throw or wait for, and however many a route has,
\* the handler is called only after every guard of the route ran to its end
\* and let the request pass.
THEOREM HandlerIsGuarded == Spec => []GuardsBeforeHandler
  <1>1. GuardInv => GuardsBeforeHandler
    BY DEF GuardInv
  <1>2. QED
    BY <1>1, TypeCorrect, WatchInvariant, GuardInit, GuardInductive, PTL DEF Spec

(***************************************************************************)
(* The replies: who decides a reply, that it is mapped, that an exception  *)
(* is answered, and that run() implements the lifecycle of                 *)
(* RequestLifecycle step by step.                                          *)
(***************************************************************************)

\* The steps whose hooks produce a result.
Producers == {"beforeHandle", "handler", "afterHandle", "mapResponse"}

\* The steps whose exceptions are given to the error path.
Caught == GuardSteps \cup {"handler", "afterHandle"}

\* No result in W is later than the one by b.
Latest(W, b) == \A w \in W :
    Rank[w.step] < Rank[b.step] \/ (w.step = b.step /\ w.hook <= b.hook)

\* Every result in W was recorded before hook n of step s.
Before(W, s, n) == \A w \in W :
    w.step \in Producers /\ (Rank[w.step] < Rank[s] \/ (w.step = s /\ w.hook < n))

\* Where the results stand before the reply is decided.
ResultInv ==
    /\ pc \in GuardSteps \cup {"handler"} => writers = {}
    /\ pc = "handler" => hook = 1
    /\ pc \in {"handler", "afterHandle"} => calls["mapResponse"] = 0 /\ ~denied
    /\ pc \in {"afterHandle", "mapResponse"} =>
          /\ Before(writers, pc, hook)
          /\ result.by.step \in Producers
          /\ Latest(writers, result.by)
    /\ pc = "mapResponse" =>
          /\ hook \in 1..route["mapResponse"]
          /\ calls["mapResponse"] = IF wait THEN hook ELSE hook - 1
          /\ ~denied => watch = "off"

\* What a reply, or the error path, owes to the first exception.
ThrownInv ==
    /\ pc \in Caught \cup {"mapResponse"} => thrown = Nowhere
    /\ pc = "onError" => thrown \in {Nowhere, error}
    /\ pc # "settled" => reply = NoReply
    /\ pc = "settled" => reply.kind # "none"

ReplyInv == ResultInv /\ ThrownInv /\ ThrowsAreAnswered /\ LastResultWins /\ MappedBeforeSent

-----------------------------------------------------------------------------
(* The ways a reply is decided, or left open.                               *)

LEMMA Positions ==
    /\ Rank["beforeHandle"] < Rank["handler"] /\ Rank["handler"] < Rank["afterHandle"]
    /\ Rank["afterHandle"] < Rank["mapResponse"]
    /\ \A s \in Producers : Rank[s] \in Nat /\ s # "onError" /\ s \in Steps
    /\ "none" \notin Caught /\ "onError" \notin Caught /\ "mapResponse" \notin Caught
    /\ "settled" \notin Caught /\ "beforeHandle" \in GuardSteps
    BY DEF Rank, Producers, Caught, Steps, GuardSteps, ContextSteps, ResultSteps

\* No reply yet, and no exception that the error path does not have.
LEMMA ReplyIsOpen ==
    ASSUME reply' = NoReply, pc' # "settled", ResultInv',
           pc' \in Caught \cup {"mapResponse"} => thrown' = Nowhere,
           pc' = "onError" => thrown' \in {Nowhere, error'}
    PROVE  ReplyInv'
    BY DEF ReplyInv, ThrownInv, ThrowsAreAnswered, LastResultWins, MappedBeforeSent, NoReply

\* A reply that is no result of the main chain.
LEMMA ReplyIsNoResult ==
    ASSUME pc' = "settled", reply'.kind # "none",
           reply'.kind # "value" \/ reply'.by.step = "onError", ThrowsAreAnswered'
    PROVE  ReplyInv'
    BY Positions DEF ReplyInv, ResultInv, ThrownInv, LastResultWins, MappedBeforeSent, GuardSteps,
       ContextSteps, Caught

LEMMA NothingThrown == ASSUME thrown' = Nowhere PROVE ThrowsAreAnswered'
    BY Positions DEF ThrowsAreAnswered, Nowhere, Caught

\* handleError: of the first exception, or of a result that cannot be serialized.
LEMMA ErrorReplied ==
    ASSUME NEW by, HandleError(by), thrown' \in {Nowhere, by}, reply = NoReply
    PROVE  ReplyInv'
  <1>1. error' = by
    BY DEF HandleError
  <1>2. CASE Goto("onError", 1) /\ UNCHANGED reply
    <2>1. ResultInv'
      BY <1>2 DEF Goto, ResultInv, GuardSteps, ContextSteps
    <2>2. QED
      BY <1>1, <1>2, <2>1, ReplyIsOpen, Positions DEF Goto
  <1>3. CASE Settle("problem", by)
    <2>1. pc' = "settled" /\ reply'.kind = "problem" /\ reply'.by = by
      BY <1>3 DEF Settle, Goto
    <2>2. ThrowsAreAnswered'
      <3>1. CASE thrown' = Nowhere
        BY <3>1, NothingThrown
      <3>2. CASE thrown' = by
        BY <1>1, <2>1, <3>2 DEF ThrowsAreAnswered
      <3>3. QED
        BY <3>1, <3>2
    <2>3. QED
      BY <2>1, <2>2, ReplyIsNoResult
  <1>4. QED
    BY <1>2, <1>3 DEF HandleError

\* A result of the main chain is sent.
LEMMA ResultSent ==
    ASSUME NEW by, Settle("value", by), by.step \in Producers, Latest(writers', by),
           thrown' = Nowhere,
           \/ calls'["mapResponse"] = route'["mapResponse"]
           \/ /\ result' = [kind |-> "response", by |-> [step |-> "handler", hook |-> 1]]
              /\ route'["afterHandle"] = 0
              /\ ~set'
    PROVE  ReplyInv'
  <1>1. pc' = "settled" /\ reply'.kind = "value" /\ reply'.by = by
    BY DEF Settle, Goto
  <1>2. LastResultWins'
    BY <1>1 DEF LastResultWins, Latest
  <1>3. MappedBeforeSent'
    BY DEF MappedBeforeSent
  <1>4. ResultInv'
    BY <1>1 DEF ResultInv, GuardSteps, ContextSteps
  <1>5. ThrownInv'
    BY <1>1, Positions DEF ThrownInv
  <1>6. QED
    BY <1>2, <1>3, <1>4, <1>5, NothingThrown DEF ReplyInv

\* Moving on among the guards, or from them into the handler.
LEMMA ProceedReplies ==
    ASSUME TypeOK, GuardInv, ReplyInv, GuardInv', pc \in GuardSteps, Proceed,
           calls'["mapResponse"] = calls["mapResponse"],
           UNCHANGED <<reply, writers>>
    PROVE  ReplyInv'
  <1>1. pc' \in GuardSteps \cup {"handler"} /\ (pc' = "handler" => hook' = 1)
    BY RankFacts DEF Proceed, Goto
  <1>2. thrown' = Nowhere /\ ~denied'
    BY <1>1 DEF GuardInv
  <1>3. calls'["mapResponse"] = 0
    <2>1. Rank["mapResponse"] > Rank[pc] /\ "mapResponse" \in Steps
      BY DEF Rank, GuardSteps, ContextSteps, Steps, ResultSteps
    <2>2. QED
      BY <2>1 DEF GuardInv
  <1>4. pc # "settled" /\ pc' # "settled" /\ pc' # "onError" /\ pc' # "afterHandle" /\ pc' # "mapResponse"
    BY <1>1 DEF GuardSteps, ContextSteps
  <1>5. ResultInv'
    BY <1>1, <1>2, <1>3, <1>4 DEF ReplyInv, ResultInv
  <1>6. reply' = NoReply
    BY <1>4 DEF ReplyInv, ThrownInv
  <1>7. QED
    BY <1>2, <1>4, <1>5, <1>6, ReplyIsOpen

\* finalizeSync and finalize take over the latest result.
LEMMA FinalizeReplies ==
    ASSUME TypeOK, NEW value, NEW mode, NEW deny, Finalize(value, mode, deny),
           value.by.step \in Producers, Latest(writers', value.by), Before(writers', "mapResponse", 1),
           thrown' = Nowhere, reply = NoReply, watch = "off", calls'["mapResponse"] = 0,
           wait' = FALSE, UNCHANGED route
    PROVE  ReplyInv'
  <1>0. route["mapResponse"] \in Nat
    BY RouteFacts, Positions DEF Producers
  <1>1. CASE route["mapResponse"] > 0
    <2>1. /\ pc' = "mapResponse" /\ hook' = 1 /\ reply' = NoReply /\ result' = value
          /\ ~denied' => watch' = "off"
      BY <1>1 DEF Finalize, Goto
    <2>2. ResultInv'
      BY <1>0, <1>1, <2>1 DEF ResultInv, GuardSteps, ContextSteps
    <2>3. QED
      BY <2>1, <2>2, ReplyIsOpen
  <1>2. CASE ~(route["mapResponse"] > 0) /\ value.kind = "bad" /\ mode = "sync"
    <2>1. HandleError([step |-> "toResponse", hook |-> 0])
      BY <1>2 DEF Finalize, SerializationFails
    <2>2. QED
      BY <2>1, ErrorReplied
  <1>3. CASE ~(route["mapResponse"] > 0) /\ value.kind = "bad" /\ mode # "sync"
    <2>1. pc' = "settled" /\ reply'.kind = "rejected"
      BY <1>3 DEF Finalize, SerializationFails, Settle, Goto
    <2>2. QED
      BY <2>1, NothingThrown, ReplyIsNoResult
  <1>4. CASE ~(route["mapResponse"] > 0) /\ value.kind # "bad"
    <2>1. Settle("value", value.by)
      BY <1>4 DEF Finalize
    <2>2. calls'["mapResponse"] = route'["mapResponse"]
      BY <1>0, <1>4
    <2>3. QED
      BY <2>1, <2>2, ResultSent
  <1>5. QED
    BY <1>1, <1>2, <1>3, <1>4

-----------------------------------------------------------------------------
(* The steps of the main chain.                                             *)

\* What a completed hook leaves in the histories.
LEMMA FinishedHook ==
    ASSUME TypeOK, NEW s \in Steps, NEW mode, NEW o, Finishes(s, mode, o), thrown = Nowhere
    PROVE  /\ pc = s /\ wait' = FALSE /\ route' = route
           /\ thrown' \in {Nowhere, Here}
           /\ o # "throw" => thrown' = Nowhere
           /\ s # "mapResponse" => calls'["mapResponse"] = calls["mapResponse"]
  <1>1. /\ pc = s /\ wait' = FALSE /\ route' = route
        /\ thrown' \in {Nowhere, Here}
        /\ o # "throw" => thrown' = Nowhere
    BY DEF Finishes
  <1>2. ASSUME s # "mapResponse" PROVE calls'["mapResponse"] = calls["mapResponse"]
    <2>1. calls' = calls \/ calls' = [calls EXCEPT ![s] = calls[s] + 1]
      BY <1>1 DEF Finishes, Invoke
    <2>2. calls \in [Steps -> Nat] /\ "mapResponse" \in Steps
      BY Positions DEF TypeOK, Producers
    <2>3. QED
      BY <1>2, <2>1, <2>2
  <1>3. QED
    BY <1>1, <1>2

\* Among the guards nothing is decided, recorded or thrown.
LEMMA AmongGuards ==
    ASSUME TypeOK, WatchInv, GuardInv, ReplyInv, pc \in GuardSteps
    PROVE  /\ reply = NoReply /\ thrown = Nowhere /\ writers = {} /\ watch = "off"
           /\ calls["mapResponse"] = 0
  <1>1. Rank["mapResponse"] > Rank[pc] /\ "mapResponse" \in Steps /\ pc # "settled"
    BY DEF Rank, GuardSteps, ContextSteps, Steps, ResultSteps
  <1>2. QED
    BY <1>1 DEF WatchInv, GuardInv, ReplyInv, ResultInv, ThrownInv

LEMMA GuardStepReplies ==
    ASSUME TypeOK, WatchInv, GuardInv, ReplyInv, GuardInv',
           \/ \E s \in ContextSteps, m \in Modes, o \in Outcomes : ContextHook(s, m, o)
           \/ \E o \in Outcomes : BodyLimit(o)
           \/ \E o \in Outcomes : BodyRead(o)
    PROVE  ReplyInv'
  <1>1. PICK s \in GuardSteps, m \in Modes, o \in Outcomes :
            /\ Finishes(s, m, o)
            /\ HandleError(Here) \/ (Proceed /\ UNCHANGED reply)
            /\ UNCHANGED writers
    BY Zenon DEF ContextHook, BodyLimit, BodyRead, GuardSteps, Modes
  <1>2. pc \in GuardSteps /\ s \in Steps /\ s # "mapResponse"
    BY <1>1 DEF Finishes, GuardSteps, Steps, ContextSteps
  <1>3. reply = NoReply /\ thrown = Nowhere /\ thrown' \in {Nowhere, Here}
    BY <1>1, <1>2, AmongGuards, FinishedHook
  <1>4. CASE HandleError(Here)
    BY <1>3, <1>4, ErrorReplied
  <1>5. CASE Proceed /\ UNCHANGED reply
    BY <1>1, <1>2, <1>3, <1>5, FinishedHook, ProceedReplies
  <1>6. QED
    BY <1>1, <1>4, <1>5

LEMMA SkipBodyReplies ==
    ASSUME TypeOK, GuardInv, ReplyInv, GuardInv', SkipBody
    PROVE  ReplyInv'
  <1>1. pc \in GuardSteps
    BY DEF SkipBody, GuardSteps
  <1>2. QED
    BY <1>1, ProceedReplies DEF SkipBody, history

LEMMA ValidateReplies ==
    ASSUME TypeOK, WatchInv, GuardInv, ReplyInv, GuardInv', NEW v, Validate(v)
    PROVE  ReplyInv'
  <1>1. /\ Finishes("validators", "sync", v) /\ pc = "validators" /\ UNCHANGED writers
        /\ "validators" \in GuardSteps /\ "validators" \in Steps
    BY DEF Validate, Finishes, GuardSteps, Steps
  <1>2. /\ reply = NoReply /\ thrown = Nowhere /\ thrown' \in {Nowhere, Here}
        /\ v # "throw" => thrown' = Nowhere
        /\ calls'["mapResponse"] = calls["mapResponse"]
    BY <1>1, AmongGuards, FinishedHook
  <1>3. CASE HandleError(Here)
    BY <1>2, <1>3, ErrorReplied
  <1>4. CASE v = "invalid" /\ Settle("invalid", Here)
    <2>1. pc' = "settled" /\ reply'.kind = "invalid"
      BY <1>4 DEF Settle, Goto
    <2>2. QED
      BY <1>2, <1>4, <2>1, NothingThrown, ReplyIsNoResult
  <1>5. CASE Proceed /\ UNCHANGED reply
    BY <1>1, <1>2, <1>5, ProceedReplies
  <1>6. QED
    BY <1>3, <1>4, <1>5 DEF Validate

LEMMA BeforeHandleReplies ==
    ASSUME TypeOK, WatchInv, GuardInv, ReplyInv, GuardInv', NEW m, NEW o, BeforeHandle(m, o)
    PROVE  ReplyInv'
  <1>1. /\ Finishes("beforeHandle", m, o) /\ pc = "beforeHandle"
        /\ "beforeHandle" \in GuardSteps /\ "beforeHandle" \in Steps
    BY DEF BeforeHandle, Finishes, GuardSteps, Steps
  <1>2. /\ reply = NoReply /\ thrown = Nowhere /\ thrown' \in {Nowhere, Here} /\ watch = "off"
        /\ o # "throw" => thrown' = Nowhere
        /\ calls["mapResponse"] = 0 /\ calls'["mapResponse"] = 0
        /\ writers = {} /\ wait' = FALSE /\ UNCHANGED route
    BY <1>1, AmongGuards, FinishedHook
  <1>3. CASE HandleError(Here)
    BY <1>2, <1>3, ErrorReplied
  <1>4. CASE o \in {"undefined", "object"} /\ Proceed /\ UNCHANGED reply
    <2>1. writers' = writers
      BY <1>4 DEF BeforeHandle, Records
    <2>2. QED
      BY <1>1, <1>2, <1>4, <2>1, ProceedReplies
  <1>5. CASE o \in {"scalar", "response", "bad"} /\ Finalize(Produced(o), m, TRUE)
    <2>1. writers' = {Here}
      BY <1>2, <1>5 DEF BeforeHandle, Records
    <2>2. Here.step = "beforeHandle" /\ Here.hook = hook /\ hook \in Nat
      BY <1>1 DEF Here, TypeOK
    <2>3. Produced(o).by = Here
      BY DEF Produced
    <2>4. /\ Produced(o).by.step \in Producers /\ Latest(writers', Produced(o).by)
          /\ Before(writers', "mapResponse", 1)
      BY <2>1, <2>2, <2>3, Positions DEF Latest, Before, Producers
    <2>5. thrown' = Nowhere
      BY <1>2, <1>5
    <2>6. QED
      BY <1>2, <1>5, <2>4, <2>5, FinalizeReplies
  <1>6. QED
    BY <1>3, <1>4, <1>5 DEF BeforeHandle

LEMMA HandleReplies ==
    ASSUME TypeOK, WatchInv, GuardInv, ReplyInv, NEW m, NEW o, Handle(m, o)
    PROVE  ReplyInv'
  <1>1. Finishes("handler", m, o) /\ pc = "handler" /\ "handler" \in Steps /\ Records(o)
    BY RankFacts DEF Handle, Finishes
  <1>2. /\ reply = NoReply /\ thrown = Nowhere /\ watch = "off" /\ hook = 1
        /\ writers = {} /\ calls["mapResponse"] = 0 /\ ~denied
    BY <1>1 DEF WatchInv, ReplyInv, ResultInv, ThrownInv, Caught
  <1>3. /\ thrown' \in {Nowhere, Here}
        /\ o # "throw" => thrown' = Nowhere
        /\ calls'["mapResponse"] = 0
        /\ wait' = FALSE
        /\ UNCHANGED route
    <2>1. TypeOK /\ "handler" \in Steps /\ Finishes("handler", m, o) /\ thrown = Nowhere
      BY <1>1, <1>2
    <2>2. calls'["mapResponse"] = calls["mapResponse"]
      BY <2>1, FinishedHook
    <2>3. wait' = FALSE /\ route' = route
      BY <2>1, FinishedHook
    <2>4. thrown' \in {Nowhere, Here}
      BY <2>1, FinishedHook
    <2>5. o # "throw" => thrown' = Nowhere
      BY <2>1 DEF Finishes
    <2>6. QED
      BY <1>2, <2>2, <2>3, <2>4, <2>5
  <1>4. Here = [step |-> "handler", hook |-> 1]
    BY <1>1, <1>2 DEF Here
  <1>5. Produced(o) = [kind |-> o, by |-> Here] /\ Produced(o).by = Here
    BY DEF Produced
  <1>6. writers' \subseteq {Here}
    BY <1>1, <1>2 DEF Records
  <1>7. /\ Here.step \in Producers /\ Latest(writers', Here)
        /\ Before(writers', "mapResponse", 1) /\ Before(writers', "afterHandle", 1)
    BY <1>4, <1>6, Positions DEF Latest, Before, Producers
  <1>8. CASE HandleError(Here)
    BY <1>2, <1>3, <1>8, ErrorReplied
  <1>9. CASE o \in Values /\ ReturnsDirectly(m, o) /\ result' = Produced(o) /\ Settle("value", Here)
    <2>1. set' = set /\ ~set /\ route["afterHandle"] = 0 /\ o = "response"
      BY <1>1, <1>9 DEF ReturnsDirectly, Finishes
    <2>2. thrown' = Nowhere
      BY <1>3, <2>1
    <2>3. result' = [kind |-> "response", by |-> [step |-> "handler", hook |-> 1]]
      BY <1>4, <1>5, <1>9, <2>1
    <2>4. ~set' /\ route'["afterHandle"] = 0
      BY <1>3, <2>1
    <2>5. QED
      BY <1>7, <1>9, <2>2, <2>3, <2>4, ResultSent
  <1>10. CASE o \in Values /\ result' = Produced(o) /\ Goto("afterHandle", 1) /\ UNCHANGED <<denied, reply>>
    <2>1. pc' = "afterHandle" /\ hook' = 1 /\ result'.by = Here /\ ~denied' /\ reply' = NoReply
      BY <1>2, <1>5, <1>10 DEF Goto
    <2>2. thrown' = Nowhere
      BY <1>3, <1>10 DEF Values
    <2>3. ResultInv'
      BY <1>3, <1>7, <2>1 DEF ResultInv, GuardSteps, ContextSteps
    <2>4. QED
      BY <2>1, <2>2, <2>3, ReplyIsOpen
  <1>11. CASE o \in Values /\ Finalize(Produced(o), m, FALSE)
    <2>1. thrown' = Nowhere
      BY <1>3, <1>11 DEF Values
    <2>2. QED
      BY <1>2, <1>3, <1>5, <1>7, <1>11, <2>1, FinalizeReplies
  <1>12. QED
    BY <1>8, <1>9, <1>10, <1>11 DEF Handle

\* A result of the step the chain is at is the latest of all; an undefined one
\* leaves the result that was.
LEMMA OverrideLatest ==
    ASSUME TypeOK, pc \in {"afterHandle", "mapResponse"}, NEW o, o # "throw", Records(o),
           Before(writers, pc, hook), result.by.step \in Producers, Latest(writers, result.by)
    PROVE  /\ Override(result, Produced(o)).by.step \in Producers
           /\ Latest(writers', Override(result, Produced(o)).by)
           /\ Before(writers', pc, hook + 1)
           /\ pc = "afterHandle" => Before(writers', "mapResponse", 1)
  <1>1. Produced(o).kind = o /\ Produced(o).by = Here /\ Here.step = pc /\ Here.hook = hook
    BY DEF Produced, Here
  <1>2. hook \in Nat /\ \A w \in writers : w.hook \in Nat
    BY DEF TypeOK, Origin
  <1>3. CASE o = "undefined"
    <2>1. Override(result, Produced(o)) = result /\ writers' = writers
      BY <1>1, <1>3 DEF Override, Records
    <2>2. Before(writers, pc, hook + 1)
      BY <1>2 DEF Before
    <2>3. pc = "afterHandle" => Before(writers, "mapResponse", 1)
      BY Positions DEF Before, Producers
    <2>4. QED
      BY <2>1, <2>2, <2>3
  <1>4. CASE o # "undefined"
    <2>1. Override(result, Produced(o)) = Produced(o) /\ writers' = writers \cup {Here}
      BY <1>1, <1>4 DEF Override, Records
    <2>2. Latest(writers', Here)
      BY <1>1, <1>2, <2>1 DEF Before, Latest
    <2>3. Before(writers', pc, hook + 1)
      BY <1>1, <1>2, <2>1 DEF Before, Producers
    <2>4. pc = "afterHandle" => Before(writers', "mapResponse", 1)
      BY <1>1, <2>1, Positions DEF Before, Producers
    <2>5. QED
      BY <1>1, <2>1, <2>2, <2>3, <2>4 DEF Producers
  <1>5. QED
    BY <1>3, <1>4

LEMMA AfterHandleReplies ==
    ASSUME TypeOK, WatchInv, GuardInv, ReplyInv, NEW m, NEW o, AfterHandle(m, o)
    PROVE  ReplyInv'
  <1>1. Finishes("afterHandle", m, o) /\ pc = "afterHandle" /\ "afterHandle" \in Steps /\ Records(o)
    BY Positions DEF AfterHandle, Finishes, Producers
  <1>2. /\ reply = NoReply /\ thrown = Nowhere /\ watch = "off" /\ calls["mapResponse"] = 0 /\ ~denied
        /\ Before(writers, pc, hook) /\ result.by.step \in Producers /\ Latest(writers, result.by)
    BY <1>1 DEF WatchInv, ReplyInv, ResultInv, ThrownInv, Caught
  <1>3. /\ thrown' \in {Nowhere, Here}
        /\ o # "throw" => thrown' = Nowhere
        /\ calls'["mapResponse"] = 0
        /\ wait' = FALSE
        /\ UNCHANGED route
    <2>1. TypeOK /\ "afterHandle" \in Steps /\ Finishes("afterHandle", m, o) /\ thrown = Nowhere
      BY <1>1, <1>2
    <2>2. calls'["mapResponse"] = calls["mapResponse"]
      BY <2>1, FinishedHook
    <2>3. wait' = FALSE /\ route' = route
      BY <2>1, FinishedHook
    <2>4. thrown' \in {Nowhere, Here}
      BY <2>1, FinishedHook
    <2>5. o # "throw" => thrown' = Nowhere
      BY <2>1 DEF Finishes
    <2>6. QED
      BY <1>2, <2>2, <2>3, <2>4, <2>5
  <1>4. CASE HandleError(Here)
    BY <1>2, <1>3, <1>4, ErrorReplied
  <1> DEFINE next == Override(result, Produced(o))
  <1>5. ASSUME o # "throw"
        PROVE  /\ next.by.step \in Producers /\ Latest(writers', next.by)
               /\ Before(writers', "afterHandle", hook + 1) /\ Before(writers', "mapResponse", 1)
    BY <1>1, <1>2, <1>5, OverrideLatest
  <1> HIDE DEF next
  <1>6. CASE o # "throw" /\ result' = next /\ Goto("afterHandle", hook + 1) /\ UNCHANGED <<denied, reply>>
    <2>1. pc' = "afterHandle" /\ hook' = hook + 1 /\ ~denied' /\ reply' = NoReply /\ thrown' = Nowhere
      BY <1>2, <1>3, <1>6 DEF Goto
    <2>2. ResultInv'
      BY <1>3, <1>5, <1>6, <2>1 DEF ResultInv, GuardSteps, ContextSteps
    <2>3. QED
      BY <2>1, <2>2, ReplyIsOpen
  <1>7. CASE o # "throw" /\ Finalize(next, m, FALSE)
    BY <1>2, <1>3, <1>5, <1>7, FinalizeReplies
  <1>8. QED
    BY <1>4, <1>6, <1>7 DEF AfterHandle, next

LEMMA MapResponseReplies ==
    ASSUME TypeOK, WatchInv, GuardInv, ReplyInv, NEW m, NEW o, MapResponse(m, o)
    PROVE  ReplyInv'
  <1>1. /\ Finishes("mapResponse", m, o) /\ pc = "mapResponse" /\ "mapResponse" \in Steps /\ Records(o)
        /\ UNCHANGED denied
    BY Positions DEF MapResponse, Finishes, Producers
  <1>2. /\ reply = NoReply /\ thrown = Nowhere
        /\ Before(writers, pc, hook) /\ result.by.step \in Producers /\ Latest(writers, result.by)
        /\ hook \in 1..route["mapResponse"] /\ calls["mapResponse"] = IF wait THEN hook ELSE hook - 1
        /\ ~denied => watch = "off"
        /\ route["mapResponse"] \in Nat /\ hook \in Nat
    BY <1>1, RouteFacts DEF ReplyInv, ResultInv, ThrownInv, TypeOK
  <1>3. /\ thrown' \in {Nowhere, Here} /\ (o # "throw" => thrown' = Nowhere)
        /\ wait' = FALSE /\ route' = route
    BY <1>1, <1>2, FinishedHook
  <1>4. calls'["mapResponse"] = hook
    <2>1. calls \in [Steps -> Nat] /\ hook \in Nat
      BY DEF TypeOK
    <2>2. IF wait THEN calls' = calls
                  ELSE calls' = [calls EXCEPT !["mapResponse"] = calls["mapResponse"] + 1]
      BY <1>1 DEF Finishes, Invoke
    <2>3. QED
      BY <1>1, <1>2, <2>1, <2>2
  <1> DEFINE next == Override(result, Produced(o))
  <1>5. ASSUME o # "throw"
        PROVE  /\ next.by.step \in Producers /\ Latest(writers', next.by)
               /\ Before(writers', "mapResponse", hook + 1)
    BY <1>1, <1>2, <1>5, OverrideLatest
  <1> HIDE DEF next
  <1>6. CASE o = "throw" /\ Settle("rejected", Here)
    <2>1. pc' = "settled" /\ reply'.kind = "rejected"
      BY <1>6 DEF Settle, Goto
    <2>2. Here.step = "mapResponse"
      BY <1>1 DEF Here
    <2>3. ThrowsAreAnswered'
      BY <1>3, <2>2, Positions DEF ThrowsAreAnswered, Caught, Nowhere
    <2>4. QED
      BY <2>1, <2>3, ReplyIsNoResult
  <1>7. CASE o # "throw" /\ hook < route["mapResponse"] /\ result' = next
             /\ Goto("mapResponse", hook + 1) /\ UNCHANGED <<reply, observers>>
    <2>1. /\ pc' = "mapResponse" /\ hook' = hook + 1 /\ reply' = NoReply /\ thrown' = Nowhere
          /\ ~denied' => watch' = "off"
      BY <1>1, <1>2, <1>3, <1>7 DEF Goto, observers
    <2>2. hook' \in 1..route'["mapResponse"] /\ calls'["mapResponse"] = hook' - 1
      BY <1>2, <1>3, <1>4, <1>7, <2>1
    <2>3. ResultInv'
      BY <1>3, <1>5, <1>7, <2>1, <2>2 DEF ResultInv, GuardSteps, ContextSteps
    <2>4. QED
      BY <2>1, <2>3, ReplyIsOpen
  <1>8. CASE o # "throw" /\ Settle("rejected", [step |-> "toResponse", hook |-> 0])
    <2>1. pc' = "settled" /\ reply'.kind = "rejected"
      BY <1>8 DEF Settle, Goto
    <2>2. QED
      BY <1>3, <1>8, <2>1, NothingThrown, ReplyIsNoResult
  <1>9. CASE o # "throw" /\ ~(hook < route["mapResponse"]) /\ Settle("value", next.by)
    <2>1. calls'["mapResponse"] = route'["mapResponse"]
      BY <1>2, <1>3, <1>4, <1>9
    <2>2. QED
      BY <1>3, <1>5, <1>9, <2>1, ResultSent
  <1>10. QED
    BY <1>6, <1>7, <1>8, <1>9 DEF MapResponse, next

LEMMA OnErrorReplies ==
    ASSUME TypeOK, ReplyInv, NEW m, NEW o, OnError(m, o)
    PROVE  ReplyInv'
  <1>1. /\ pc = "onError" /\ reply = NoReply /\ thrown \in {Nowhere, error} /\ UNCHANGED error
        /\ Here.step = "onError"
    BY DEF OnError, Finishes, ReplyInv, ThrownInv, Here
  <1>2. thrown' = thrown \/ (thrown = Nowhere /\ thrown' = Here)
    BY DEF OnError, Finishes
  <1>3. ASSUME thrown'.step \in Caught PROVE error' = thrown'
    BY <1>1, <1>2, <1>3, Positions DEF Nowhere
  <1>4. ASSUME NEW kind \in {"problem", "value", "rejected"}, NEW by \in {Here, error},
               by = Here \/ kind = "problem", Settle(kind, by)
        PROVE  ReplyInv'
    <2>1. pc' = "settled" /\ reply'.kind = kind /\ reply'.by = by
      BY <1>4 DEF Settle, Goto
    <2>2. ThrowsAreAnswered'
      BY <1>1, <1>3, <1>4, <2>1 DEF ThrowsAreAnswered, Caught
    <2>3. QED
      BY <1>1, <1>4, <2>1, <2>2, ReplyIsNoResult
  <1>5. CASE o = "undefined" /\ Goto("onError", hook + 1) /\ UNCHANGED reply
    <2>1. pc' = "onError" /\ thrown' \in {Nowhere, error'} /\ reply' = NoReply
      <3>1. thrown' = thrown
        BY <1>5 DEF OnError, Finishes
      <3>2. QED
        BY <1>1, <1>5, <3>1 DEF Goto
    <2>2. ResultInv'
      BY <2>1 DEF ResultInv, GuardSteps, ContextSteps
    <2>3. QED
      BY <2>1, <2>2, Positions, ReplyIsOpen
  <1>6. QED
    BY <1>4, <1>5 DEF OnError

-----------------------------------------------------------------------------
(* Waiting, observing, and the invariant.                                   *)

LEMMA SuspendReplies ==
    ASSUME TypeOK, WatchInv, ReplyInv, NEW s \in Steps, Suspend(s)
    PROVE  ReplyInv'
  <1>1. /\ pc = s /\ pc # "settled" /\ ~wait /\ wait' = TRUE
        /\ calls' = [calls EXCEPT ![pc] = calls[pc] + 1]
        /\ UNCHANGED <<route, pc, hook, result, denied, error, reply, writers, thrown>>
    BY StepSets DEF Suspend, Invoke
  <1>2. calls \in [Steps -> Nat] /\ pc \in Steps /\ "mapResponse" \in Steps /\ hook \in Nat
    BY <1>1, Positions DEF TypeOK, Producers
  <1>3. pc # "mapResponse" => calls'["mapResponse"] = calls["mapResponse"]
    BY <1>1, <1>2
  <1>4. pc = "mapResponse" => calls'["mapResponse"] = hook
    BY <1>1, <1>2 DEF ReplyInv, ResultInv
  <1>5. watch = "off" => watch' = "off"
    BY DEF Suspend, observers
  <1>6. ResultInv'
    BY <1>1, <1>3, <1>4, <1>5 DEF ReplyInv, ResultInv
  <1>7. /\ reply' = NoReply
        /\ pc' \in Caught \cup {"mapResponse"} => thrown' = Nowhere
        /\ pc' = "onError" => thrown' \in {Nowhere, error'}
    BY <1>1 DEF ReplyInv, ThrownInv, NoReply, Nowhere
  <1>8. QED
    BY <1>1, <1>6, <1>7, ReplyIsOpen

LEMMA ObserverReplies ==
    ASSUME TypeOK, ReplyInv, Observe \/ ObserverResumes
    PROVE  ReplyInv'
  <1>1. UNCHANGED <<route, pc, hook, wait, set, result, denied, error, reply, writers, thrown>>
    BY DEF Observe, ObserverResumes, main, history
  <1>2. calls'["mapResponse"] = calls["mapResponse"]
    BY DEF Observe, ObserverResumes, history, TypeOK, Steps, ResultSteps
  <1>3. watch # "off"
    BY DEF Observe, ObserverResumes
  <1>4. ResultInv'
    BY <1>1, <1>2, <1>3 DEF ReplyInv, ResultInv
  <1>5. ThrownInv' /\ ThrowsAreAnswered' /\ LastResultWins'
    BY <1>1 DEF ReplyInv, ThrownInv, ThrowsAreAnswered, LastResultWins, NoReply, Nowhere
  <1>6. MappedBeforeSent'
    BY <1>1, <1>2 DEF ReplyInv, MappedBeforeSent
  <1>7. QED
    BY <1>4, <1>5, <1>6 DEF ReplyInv

LEMMA ReplyInit == Init => ReplyInv
  <1> SUFFICES ASSUME Init PROVE ReplyInv
    OBVIOUS
  <1>1. /\ pc \in GuardSteps \cup {"handler"} /\ hook = 1 /\ ~denied /\ reply = NoReply
        /\ writers = {} /\ thrown = Nowhere /\ calls = [s \in Steps |-> 0]
    BY DEF Init
  <1>2. calls["mapResponse"] = 0 /\ pc \notin {"afterHandle", "mapResponse", "onError", "settled"}
    BY <1>1, Positions DEF Producers, GuardSteps, ContextSteps
  <1>3. ResultInv
    BY <1>1, <1>2 DEF ResultInv
  <1>4. ThrownInv
    BY <1>1, <1>2 DEF ThrownInv
  <1>5. ThrowsAreAnswered /\ LastResultWins /\ MappedBeforeSent
    BY <1>1, <1>2 DEF ThrowsAreAnswered, LastResultWins, MappedBeforeSent, NoReply
  <1>6. QED
    BY <1>3, <1>4, <1>5 DEF ReplyInv

LEMMA ReplyInductive ==
    TypeOK /\ WatchInv /\ GuardInv /\ ReplyInv /\ GuardInv' /\ [Next]_vars => ReplyInv'
  <1> SUFFICES ASSUME TypeOK, WatchInv, GuardInv, ReplyInv, GuardInv', [Next]_vars PROVE ReplyInv'
    OBVIOUS
  <1>1. CASE MainStep
    <2>1. CASE \E s \in Steps : Suspend(s)
      BY <2>1, SuspendReplies
    <2>2. ReadBody => \E s \in Steps : Suspend(s)
      BY DEF ReadBody, Steps, GuardSteps
    <2>3. CASE \/ \E s \in ContextSteps, m \in Modes, o \in Outcomes : ContextHook(s, m, o)
               \/ \E o \in Outcomes : BodyLimit(o)
               \/ \E o \in Outcomes : BodyRead(o)
      BY <2>3, GuardStepReplies
    <2>4. CASE SkipBody
      BY <2>4, SkipBodyReplies
    <2>5. CASE \E v \in {"valid", "invalid", "throw"} : Validate(v)
      BY <2>5, ValidateReplies
    <2>6. CASE \E m \in Modes, o \in Outcomes : BeforeHandle(m, o)
      BY <2>6, BeforeHandleReplies
    <2>7. CASE \E m \in Modes, o \in Outcomes : Handle(m, o)
      BY <2>7, HandleReplies
    <2>8. CASE \E m \in Modes, o \in Outcomes : AfterHandle(m, o)
      BY <2>8, AfterHandleReplies
    <2>9. CASE \E m \in Modes, o \in Outcomes : MapResponse(m, o)
      BY <2>9, MapResponseReplies
    <2>10. CASE \E m \in Modes, o \in Outcomes : OnError(m, o)
      BY <2>10, OnErrorReplies
    <2>11. QED
      BY <1>1, <2>1, <2>2, <2>3, <2>4, <2>5, <2>6, <2>7, <2>8, <2>9, <2>10 DEF MainStep
  <1>2. CASE Observe \/ ObserverResumes
    BY <1>2, ObserverReplies
  <1>3. CASE UNCHANGED vars
    <2>1. UNCHANGED <<route, pc, hook, wait, set, result, denied, error, reply, writers, thrown,
                      calls, watch>>
      BY <1>3 DEF vars, main, history, observers
    <2>2. ResultInv'
      BY <2>1 DEF ReplyInv, ResultInv
    <2>3. ThrownInv' /\ ThrowsAreAnswered' /\ LastResultWins' /\ MappedBeforeSent'
      BY <2>1 DEF ReplyInv, ThrownInv, ThrowsAreAnswered, LastResultWins, MappedBeforeSent, NoReply, Nowhere
    <2>4. QED
      BY <2>2, <2>3 DEF ReplyInv
  <1>4. QED
    BY <1>1, <1>2, <1>3 DEF Next, Work, Finished

LEMMA Invariance == Spec => [](TypeOK /\ WatchInv /\ GuardInv /\ ReplyInv)
  <1>1. Spec => []GuardInv
    BY TypeCorrect, WatchInvariant, GuardInit, GuardInductive, PTL DEF Spec
  <1>2. QED
    BY <1>1, TypeCorrect, WatchInvariant, ReplyInit, ReplyInductive, PTL DEF Spec

\* Whatever nests in what, a try block or a promise callback: an exception of a
\* guard, of the handler or of an afterHandle hook is what the error path is given,
\* and it decides the reply.
THEOREM ExceptionsAreAnswered == Spec => []ThrowsAreAnswered
  <1>1. ReplyInv => ThrowsAreAnswered
    BY DEF ReplyInv
  <1>2. QED
    BY <1>1, Invariance, PTL

\* However many afterHandle and mapResponse hooks a route has, sync or async, the
\* value that is sent is the one returned last.
THEOREM LatestResultIsSent == Spec => []LastResultWins
  <1>1. ReplyInv => LastResultWins
    BY DEF ReplyInv
  <1>2. QED
    BY <1>1, Invariance, PTL

\* No value is sent past a mapResponse hook, but the Response that an async handler
\* returns on a route without afterHandle hooks, its set untouched.
THEOREM ResultsAreMapped == Spec => []MappedBeforeSent
  <1>1. ReplyInv => MappedBeforeSent
    BY DEF ReplyInv
  <1>2. QED
    BY <1>1, Invariance, PTL
-----------------------------------------------------------------------------
(* The lifecycle, step by step.                                             *)

Watched == watch \in {"run", "wait", "done"}

\* What the steps stand for, and the replies.
LEMMA StageNames ==
    /\ pc = "settled" => LifeStage = "settled"
    /\ pc = "onError" => LifeStage = "failing"
    /\ pc \in GuardSteps => LifeStage = "guarding"
    /\ pc \in ResultSteps => LifeStage = IF denied THEN "refusing" ELSE "handling"
    BY DEF LifeStage, GuardSteps, ContextSteps, ResultSteps

LEMMA NextStageNames ==
    /\ pc' = "settled" => LifeStage' = "settled"
    /\ pc' = "onError" => LifeStage' = "failing"
    /\ pc' \in GuardSteps => LifeStage' = "guarding"
    /\ pc' \in ResultSteps => LifeStage' = IF denied' THEN "refusing" ELSE "handling"
    BY DEF LifeStage, GuardSteps, ContextSteps, ResultSteps

LEMMA ReplyNames ==
    /\ reply.kind = "none" => LifeReply = "none"
    /\ reply.kind = "invalid" => LifeReply = "refused"
    /\ reply.kind = "value" /\ reply.by.step # "onError" =>
          LifeReply = IF denied THEN "refused" ELSE "answered"
    /\ reply.kind = "value" /\ reply.by.step = "onError" => LifeReply = "failed"
    /\ reply.kind \in {"problem", "rejected"} => LifeReply = "failed"
    BY DEF LifeReply

LEMMA NextReplyNames ==
    /\ reply'.kind = "none" => LifeReply' = "none"
    /\ reply'.kind = "invalid" => LifeReply' = "refused"
    /\ reply'.kind = "value" /\ reply'.by.step # "onError" =>
          LifeReply' = IF denied' THEN "refused" ELSE "answered"
    /\ reply'.kind = "value" /\ reply'.by.step = "onError" => LifeReply' = "failed"
    /\ reply'.kind \in {"problem", "rejected"} => LifeReply' = "failed"
    BY DEF LifeReply

LEMMA WatchedType == Watched \in BOOLEAN /\ Watched' \in BOOLEAN
    BY DEF Watched

\* Up to the reply no observer runs and no guard has answered.
LEMMA Unanswered ==
    ASSUME WatchInv, GuardInv, ReplyInv, pc \in Caught
    PROVE  /\ LifeStage = IF pc \in GuardSteps THEN "guarding" ELSE "handling"
           /\ LifeReply = "none" /\ ~Watched
           /\ reply = NoReply /\ watch = "off" /\ ~denied
  <1>1. /\ reply = NoReply /\ watch = "off" /\ pc \notin {"settled", "onError"}
        /\ reply.kind = "none"
    BY Positions DEF WatchInv, ReplyInv, ThrownInv, Caught, NoReply
  <1>2. ~denied
    BY DEF GuardInv, ReplyInv, ResultInv, Caught
  <1>3. QED
    BY <1>1, <1>2 DEF LifeStage, LifeReply, Watched, Caught

\* An exception given to the error path breaks the request, or fails it at once.
LEMMA ErrorStep ==
    ASSUME WatchInv, GuardInv, ReplyInv, pc \in Caught, NEW by, HandleError(by), UNCHANGED observers
    PROVE  Lifecycle!Next
  <1>1. LifeStage \in {"guarding", "handling"} /\ LifeReply = "none" /\ ~Watched /\ ~Watched'
    BY Unanswered DEF observers, Watched
  <1>2. CASE Goto("onError", 1) /\ UNCHANGED reply
    <2>1. LifeStage' = "failing" /\ LifeReply' = "none"
      BY <1>2, Unanswered, NextStageNames, NextReplyNames DEF Goto, NoReply
    <2>2. QED
      BY <1>1, <2>1 DEF Lifecycle!Next, Lifecycle!Break, Watched
  <1>3. CASE Settle("problem", by)
    <2>1. LifeStage' = "settled" /\ LifeReply' = "failed"
      BY <1>3, NextStageNames, NextReplyNames DEF Settle, Goto
    <2>2. QED
      BY <1>1, <2>1, WatchedType DEF Lifecycle!Next, Lifecycle!Fail, Lifecycle!Settle, Watched
  <1>4. QED
    BY <1>2, <1>3 DEF HandleError

\* From a guard to the next, or into the handler.
LEMMA ProceedStep ==
    ASSUME WatchInv, GuardInv, ReplyInv, GuardInv', pc \in GuardSteps, Proceed,
           UNCHANGED <<reply, watch>>
    PROVE  Lifecycle!Next \/ UNCHANGED Lifecycle!vars
  <1>1. pc' \in GuardSteps \cup {"handler"}
    BY DEF Proceed, Goto
  <1>2. LifeStage = "guarding" /\ LifeReply = "none" /\ reply = NoReply
    BY Unanswered DEF Caught
  <1>3. ~denied'
    BY <1>1 DEF GuardInv
  <1>4. LifeStage' = IF pc' \in GuardSteps THEN "guarding" ELSE "handling"
    BY <1>1, <1>3, Positions DEF LifeStage, Caught
  <1>5. LifeReply' = LifeReply /\ Watched' = Watched
    BY <1>2 DEF LifeReply, Watched, NoReply
  <1>6. QED
    BY <1>2, <1>4, <1>5 DEF Lifecycle!Next, Lifecycle!Admit, Lifecycle!vars, Watched

\* finalizeSync and finalize: the answer of a guard or of the handler is sent, is
\* still to be mapped, or cannot be serialized.
LEMMA FinalizeStep ==
    ASSUME WatchInv, GuardInv, ReplyInv, NEW value, NEW mode, NEW deny \in BOOLEAN,
           Finalize(value, mode, deny), pc \in Caught, value.by.step \in Producers,
           IF deny THEN pc \in GuardSteps ELSE pc \notin GuardSteps
    PROVE  Lifecycle!Next \/ UNCHANGED Lifecycle!vars
  <1>1. /\ LifeStage = IF deny THEN "guarding" ELSE "handling"
        /\ LifeReply = "none" /\ ~Watched /\ watch = "off" /\ reply = NoReply
    BY Unanswered
  <1>2. CASE route["mapResponse"] > 0
    <2>1. pc' = "mapResponse" /\ denied' = deny /\ reply' = NoReply /\ watch' \in {"due", "off"}
      BY <1>1, <1>2 DEF Finalize, Goto
    <2>2. LifeStage' = (IF deny THEN "refusing" ELSE "handling") /\ LifeReply' = "none" /\ ~Watched'
      BY <2>1, Positions DEF LifeStage, LifeReply, NoReply, Watched, Caught
    <2>3. QED
      BY <1>1, <2>2 DEF Lifecycle!Next, Lifecycle!Deny, Lifecycle!vars, Watched
  <1>3. CASE ~(route["mapResponse"] > 0) /\ value.kind = "bad" /\ mode = "sync"
    <2>1. HandleError([step |-> "toResponse", hook |-> 0]) /\ UNCHANGED observers
      BY <1>3 DEF Finalize, SerializationFails
    <2>2. QED
      BY <2>1, ErrorStep
  <1>4. CASE ~(route["mapResponse"] > 0) /\ value.kind = "bad" /\ mode # "sync"
    <2>1. pc' = "settled" /\ reply'.kind = "rejected" /\ watch' = watch
      BY <1>4 DEF Finalize, SerializationFails, Settle, Goto, observers
    <2>2. LifeStage' = "settled" /\ LifeReply' = "failed" /\ ~Watched'
      BY <1>1, <2>1, NextStageNames, NextReplyNames DEF Watched
    <2>3. QED
      BY <1>1, <2>2 DEF Lifecycle!Next, Lifecycle!Fail, Lifecycle!Settle, Watched
  <1>5. CASE ~(route["mapResponse"] > 0) /\ value.kind # "bad"
    <2>1. /\ pc' = "settled" /\ reply'.kind = "value" /\ reply'.by = value.by /\ denied' = deny
          /\ reply'.by.step # "onError"
      BY <1>5, Positions DEF Finalize, Settle, Goto
    <2>2. LifeStage' = "settled" /\ LifeReply' = IF deny THEN "refused" ELSE "answered"
      BY <2>1, NextStageNames, NextReplyNames
    <2>3. Watched' \in {Watched, TRUE}
      BY <1>1, WatchedType
    <2>4. QED
      BY <1>1, <2>2, <2>3 DEF Lifecycle!Next, Lifecycle!Refuse, Lifecycle!Answer, Lifecycle!Settle, Watched
  <1>6. QED
    BY <1>2, <1>3, <1>4, <1>5

LEMMA GuardLifeStep ==
    ASSUME WatchInv, GuardInv, ReplyInv, GuardInv',
           \/ \E s \in ContextSteps, m \in Modes, o \in Outcomes : ContextHook(s, m, o)
           \/ \E o \in Outcomes : BodyLimit(o)
           \/ SkipBody
           \/ \E o \in Outcomes : BodyRead(o)
    PROVE  Lifecycle!Next \/ UNCHANGED Lifecycle!vars
  <1>1. /\ pc \in GuardSteps /\ pc \in Caught
        /\ UNCHANGED observers
        /\ HandleError(Here) \/ (Proceed /\ UNCHANGED reply)
    BY Zenon DEF ContextHook, BodyLimit, SkipBody, BodyRead, Finishes, GuardSteps, Caught
  <1>2. CASE HandleError(Here)
    BY <1>1, <1>2, ErrorStep
  <1>3. CASE Proceed /\ UNCHANGED reply
    BY <1>1, <1>3, ProceedStep DEF observers
  <1>4. QED
    BY <1>1, <1>2, <1>3

\* A schema that fails refuses the request itself, past the error path.
LEMMA ValidateStep ==
    ASSUME WatchInv, GuardInv, ReplyInv, GuardInv', NEW v, Validate(v)
    PROVE  Lifecycle!Next \/ UNCHANGED Lifecycle!vars
  <1>1. pc \in GuardSteps /\ pc \in Caught
    BY DEF Validate, Finishes, GuardSteps, Caught
  <1>2. CASE HandleError(Here) /\ UNCHANGED observers
    BY <1>1, <1>2, ErrorStep
  <1>3. CASE Settle("invalid", Here)
    <2>1. LifeStage' = "settled" /\ LifeReply' = "refused"
      BY <1>3, NextStageNames, NextReplyNames DEF Settle, Goto
    <2>2. LifeStage = "guarding" /\ ~Watched
      BY <1>1, Unanswered
    <2>3. QED
      BY <2>1, <2>2, WatchedType DEF Lifecycle!Next, Lifecycle!Refuse, Lifecycle!Settle, Watched
  <1>4. CASE Proceed /\ UNCHANGED <<error, reply, observers>>
    BY <1>1, <1>4, ProceedStep DEF observers
  <1>5. QED
    BY <1>2, <1>3, <1>4 DEF Validate

LEMMA BeforeHandleStep ==
    ASSUME WatchInv, GuardInv, ReplyInv, GuardInv', NEW m, NEW o, BeforeHandle(m, o)
    PROVE  Lifecycle!Next \/ UNCHANGED Lifecycle!vars
  <1>1. pc \in GuardSteps /\ pc \in Caught /\ pc = "beforeHandle"
    BY DEF BeforeHandle, Finishes, GuardSteps, Caught
  <1>2. CASE HandleError(Here) /\ UNCHANGED observers
    BY <1>1, <1>2, ErrorStep
  <1>3. CASE Proceed /\ UNCHANGED <<reply, observers>>
    BY <1>1, <1>3, ProceedStep DEF observers
  <1>4. CASE Finalize(Produced(o), m, TRUE)
    <2>1. Produced(o).by.step \in Producers
      BY <1>1 DEF Produced, Here, Producers
    <2>2. QED
      BY <1>1, <1>4, <2>1, FinalizeStep
  <1>5. QED
    BY <1>2, <1>3, <1>4 DEF BeforeHandle

LEMMA HandleStep ==
    ASSUME WatchInv, GuardInv, ReplyInv, NEW m, NEW o, Handle(m, o)
    PROVE  Lifecycle!Next \/ UNCHANGED Lifecycle!vars
  <1>1. pc \notin GuardSteps /\ pc \in Caught /\ pc = "handler"
    BY RankFacts DEF Handle, Finishes, Caught
  <1>2. /\ LifeStage = "handling" /\ LifeReply = "none" /\ ~Watched
        /\ reply = NoReply /\ watch = "off" /\ ~denied
    BY <1>1, Unanswered
  <1>3. CASE HandleError(Here) /\ UNCHANGED observers
    BY <1>1, <1>3, ErrorStep
  <1>4. CASE Settle("value", Here) /\ UNCHANGED <<denied, observers>>
    <2>1. pc' = "settled" /\ reply'.kind = "value" /\ reply'.by.step = "handler" /\ ~denied'
      BY <1>1, <1>2, <1>4 DEF Settle, Goto, Here
    <2>2. LifeStage' = "settled" /\ LifeReply' = "answered" /\ ~Watched'
      BY <1>2, <1>4, <2>1, NextStageNames, NextReplyNames DEF Watched, observers
    <2>3. QED
      BY <1>2, <2>2, WatchedType DEF Lifecycle!Next, Lifecycle!Answer, Lifecycle!Settle, Watched
  <1>5. CASE Goto("afterHandle", 1) /\ UNCHANGED <<denied, reply, observers>>
    <2>1. pc' = "afterHandle" /\ ~denied' /\ reply' = reply /\ watch' = watch
      BY <1>2, <1>5 DEF Goto, observers
    <2>2. LifeStage' = "handling" /\ LifeReply' = LifeReply /\ Watched' = Watched
      BY <2>1 DEF LifeStage, LifeReply, Watched, GuardSteps, ContextSteps
    <2>3. QED
      BY <1>2, <2>2 DEF Lifecycle!vars, Watched
  <1>6. CASE Finalize(Produced(o), m, FALSE)
    <2>1. Produced(o).by.step \in Producers
      BY <1>1 DEF Produced, Here, Producers
    <2>2. QED
      BY <1>1, <1>6, <2>1, FinalizeStep
  <1>7. QED
    BY <1>3, <1>4, <1>5, <1>6 DEF Handle

LEMMA AfterHandleStep ==
    ASSUME TypeOK, WatchInv, GuardInv, ReplyInv, NEW m, NEW o, AfterHandle(m, o)
    PROVE  Lifecycle!Next \/ UNCHANGED Lifecycle!vars
  <1>1. pc \notin GuardSteps /\ pc \in Caught /\ pc = "afterHandle" /\ Records(o)
    BY DEF AfterHandle, Finishes, Caught, GuardSteps, ContextSteps
  <1>2. /\ LifeStage = "handling" /\ LifeReply = "none" /\ ~Watched
        /\ reply = NoReply /\ watch = "off" /\ ~denied
    BY <1>1, Unanswered
  <1>3. CASE HandleError(Here) /\ UNCHANGED observers
    BY <1>1, <1>3, ErrorStep
  <1>4. CASE Goto("afterHandle", hook + 1) /\ UNCHANGED <<denied, reply, observers>>
    <2>1. pc' = "afterHandle" /\ ~denied' /\ reply' = reply /\ watch' = watch
      BY <1>2, <1>4 DEF Goto, observers
    <2>2. LifeStage' = "handling" /\ LifeReply' = LifeReply /\ Watched' = Watched
      BY <2>1 DEF LifeStage, LifeReply, Watched, GuardSteps, ContextSteps
    <2>3. QED
      BY <1>2, <2>2 DEF Lifecycle!vars, Watched
  <1>5. CASE o # "throw" /\ Finalize(Override(result, Produced(o)), m, FALSE)
    <2>1. result.by.step \in Producers
      BY <1>1 DEF ReplyInv, ResultInv
    <2>2. Override(result, Produced(o)).by.step \in Producers
      BY <1>1, <2>1 DEF Override, Produced, Here, Producers
    <2>3. QED
      BY <1>1, <1>5, <2>2, FinalizeStep
  <1>6. QED
    BY <1>3, <1>4, <1>5 DEF AfterHandle

\* Only a refused request may already be observed when its mapping is done, or fails.
LEMMA MapResponseStep ==
    ASSUME TypeOK, WatchInv, GuardInv, ReplyInv, NEW m, NEW o, MapResponse(m, o)
    PROVE  Lifecycle!Next \/ UNCHANGED Lifecycle!vars
  <1>1. pc = "mapResponse" /\ UNCHANGED <<route, denied>> /\ watch # "run"
    BY DEF MapResponse, Finishes, MainMayRun
  <1>2. reply = NoReply /\ LifeReply = "none" /\ LifeStage = IF denied THEN "refusing" ELSE "handling"
    BY <1>1 DEF ReplyInv, ThrownInv, LifeReply, NoReply, LifeStage, GuardSteps, ContextSteps
  <1>3. denied \/ (watch = "off" /\ ~Watched)
    BY <1>1 DEF ReplyInv, ResultInv, Watched
  <1>4. Watched \in BOOLEAN /\ Watched' \in BOOLEAN
    BY DEF Watched
  <1>5. ASSUME NEW by, Settle("rejected", by), ObserveMapped(FALSE)
        PROVE  Lifecycle!Next
    <2>1. LifeStage' = "settled" /\ LifeReply' = "failed"
      BY <1>5, NextStageNames, NextReplyNames DEF Settle, Goto
    <2>2. watch = "off" => watch' = "off"
      BY <1>5 DEF ObserveMapped, observers
    <2>4. CASE denied
      <3>1. Watched => Watched'
        BY <1>1, <1>5 DEF ObserveMapped, StartObservers, observers, Watched
      <3>2. QED
        BY <1>2, <1>4, <2>1, <2>4, <3>1 DEF Lifecycle!Next, Lifecycle!Fail, Lifecycle!Settle, Watched
    <2>5. CASE ~denied
      <3>1. ~Watched /\ ~Watched'
        BY <1>3, <2>2, <2>5 DEF Watched
      <3>2. QED
        BY <1>2, <2>1, <2>5, <3>1 DEF Lifecycle!Next, Lifecycle!Fail, Lifecycle!Settle, Watched
    <2>6. QED
      BY <2>4, <2>5
  <1>6. ASSUME NEW by, by.step \in Producers, Settle("value", by), ObserveMapped(TRUE)
        PROVE  Lifecycle!Next
    <2>1. pc' = "settled" /\ reply'.kind = "value" /\ reply'.by = by /\ by.step # "onError"
      BY <1>6, Positions DEF Settle, Goto
    <2>2. LifeStage' = "settled" /\ LifeReply' = IF denied THEN "refused" ELSE "answered"
      BY <1>1, <2>1, NextStageNames, NextReplyNames
    <2>3. Watched => Watched'
      BY <1>1, <1>6 DEF ObserveMapped, StartObservers, observers, Watched
    <2>4. QED
      BY <1>2, <1>4, <2>2, <2>3
         DEF Lifecycle!Next, Lifecycle!Refuse, Lifecycle!Answer, Lifecycle!Settle, Watched
  <1>7. ASSUME Goto("mapResponse", hook + 1), UNCHANGED <<reply, observers>>
        PROVE  UNCHANGED Lifecycle!vars
    <2>1. pc' = "mapResponse" /\ denied' = denied /\ reply' = reply /\ watch' = watch
      BY <1>1, <1>7 DEF Goto, observers
    <2>2. LifeStage' = LifeStage /\ LifeReply' = LifeReply /\ Watched' = Watched
      BY <1>1, <2>1 DEF LifeStage, LifeReply, Watched
    <2>3. QED
      BY <2>2 DEF Lifecycle!vars, Watched
  <1>8. o # "throw" => Override(result, Produced(o)).by.step \in Producers
    BY <1>1 DEF ReplyInv, ResultInv, Override, Produced, Here, Producers
  <1>9. QED
    BY <1>5, <1>6, <1>7, <1>8 DEF MapResponse

LEMMA OnErrorStep ==
    ASSUME WatchInv, ReplyInv, NEW m, NEW o, OnError(m, o)
    PROVE  Lifecycle!Next \/ UNCHANGED Lifecycle!vars
  <1>1. pc = "onError" /\ reply = NoReply /\ watch = "off" /\ watch' = "off" /\ Here.step = "onError"
    BY DEF OnError, Finishes, WatchInv, ReplyInv, ThrownInv, observers, Here
  <1>2. LifeStage = "failing" /\ LifeReply = "none" /\ ~Watched /\ ~Watched'
    BY <1>1, StageNames, ReplyNames DEF NoReply, Watched
  <1>3. ASSUME NEW kind \in {"problem", "value", "rejected"}, NEW by,
               kind = "value" => by = Here, Settle(kind, by)
        PROVE  Lifecycle!Next
    <2>1. LifeStage' = "settled" /\ LifeReply' = "failed"
      BY <1>1, <1>3, NextStageNames, NextReplyNames DEF Settle, Goto
    <2>2. QED
      BY <1>2, <2>1 DEF Lifecycle!Next, Lifecycle!Fail, Lifecycle!Settle, Watched
  <1>4. CASE Goto("onError", hook + 1) /\ UNCHANGED reply
    <2>1. LifeStage' = "failing" /\ LifeReply' = "none"
      BY <1>1, <1>4, NextStageNames, NextReplyNames DEF Goto, NoReply
    <2>2. QED
      BY <1>2, <2>1 DEF Lifecycle!vars, Watched
  <1>5. QED
    BY <1>3, <1>4 DEF OnError

\* A hook's promise is waited for; observers owed to a short-circuit start there.
LEMMA SuspendStep ==
    ASSUME WatchInv, ReplyInv, NEW s \in Steps, Suspend(s)
    PROVE  Lifecycle!Next \/ UNCHANGED Lifecycle!vars
  <1>1. UNCHANGED <<route, pc, denied, reply>>
    BY DEF Suspend
  <1>2. LifeStage' = LifeStage /\ LifeReply' = LifeReply
    BY <1>1 DEF LifeStage, LifeReply
  <1>3. CASE watch = "due"
    <2>1. pc = "mapResponse" /\ denied /\ watch' \in {"due", "run"} /\ ~Watched
      BY <1>3 DEF WatchInv, Suspend, StartObservers, observers, Watched
    <2>2. LifeStage = "refusing"
      BY <2>1 DEF LifeStage, GuardSteps, ContextSteps
    <2>3. QED
      BY <1>2, <2>1, <2>2 DEF Lifecycle!Next, Lifecycle!Watch, Lifecycle!vars, Watched
  <1>4. CASE watch # "due"
    <2>1. Watched' = Watched
      BY <1>4 DEF Suspend, observers, Watched
    <2>2. QED
      BY <1>2, <2>1 DEF Lifecycle!vars, Watched
  <1>5. QED
    BY <1>3, <1>4

LEMMA ObserverStep ==
    ASSUME Observe \/ ObserverResumes
    PROVE  UNCHANGED Lifecycle!vars
  <1>1. UNCHANGED <<pc, denied, reply>> /\ Watched /\ Watched'
    BY DEF Observe, ObserverResumes, NextObserver, main, Watched
  <1>2. LifeStage' = LifeStage /\ LifeReply' = LifeReply
    BY <1>1 DEF LifeStage, LifeReply
  <1>3. QED
    BY <1>1, <1>2 DEF Lifecycle!vars, Watched

\* Whatever hooks a route has and whichever of them are async, each step of run() is
\* one the lifecycle of a request allows, or none: the guards refuse it or admit it
\* to the handler, it is answered or fails once, an exception takes it off the way
\* to an answer, and it is observed at most once.
THEOREM ImplementsLifecycleSteps == Spec => Lifecycle!Safety
  <1>1. Init => Lifecycle!Init
    <2> SUFFICES ASSUME Init PROVE Lifecycle!Init
      OBVIOUS
    <2>1. pc \in GuardSteps \cup {"handler"} /\ ~denied /\ reply = NoReply /\ ~Watched
      BY DEF Init, Watched
    <2>2. LifeStage \in {"guarding", "handling"} /\ LifeReply = "none"
      BY <2>1, Positions DEF LifeStage, LifeReply, NoReply, Caught
    <2>3. QED
      BY <2>1, <2>2 DEF Lifecycle!Init, Watched
  <1> DEFINE Inv == TypeOK /\ WatchInv /\ GuardInv /\ ReplyInv
  <1>2. Inv /\ Inv' /\ [Next]_vars => [Lifecycle!Next]_Lifecycle!vars
    <2> SUFFICES ASSUME Inv, Inv', [Next]_vars
                 PROVE  Lifecycle!Next \/ UNCHANGED Lifecycle!vars
      OBVIOUS
    <2>1. CASE MainStep
      <3>1. CASE \E s \in Steps : Suspend(s)
        BY <3>1, SuspendStep
      <3>2. ReadBody => \E s \in Steps : Suspend(s)
        BY DEF ReadBody, Steps, GuardSteps
      <3>3. CASE \/ \E s \in ContextSteps, m \in Modes, o \in Outcomes : ContextHook(s, m, o)
                 \/ \E o \in Outcomes : BodyLimit(o)
                 \/ SkipBody
                 \/ \E o \in Outcomes : BodyRead(o)
        BY <3>3, GuardLifeStep
      <3>4. CASE \E v \in {"valid", "invalid", "throw"} : Validate(v)
        BY <3>4, ValidateStep
      <3>5. CASE \E m \in Modes, o \in Outcomes : BeforeHandle(m, o)
        BY <3>5, BeforeHandleStep
      <3>6. CASE \E m \in Modes, o \in Outcomes : Handle(m, o)
        BY <3>6, HandleStep
      <3>7. CASE \E m \in Modes, o \in Outcomes : AfterHandle(m, o)
        BY <3>7, AfterHandleStep
      <3>8. CASE \E m \in Modes, o \in Outcomes : MapResponse(m, o)
        BY <3>8, MapResponseStep
      <3>9. CASE \E m \in Modes, o \in Outcomes : OnError(m, o)
        BY <3>9, OnErrorStep
      <3>10. QED
        BY <2>1, <3>1, <3>2, <3>3, <3>4, <3>5, <3>6, <3>7, <3>8, <3>9 DEF MainStep
    <2>2. CASE Observe \/ ObserverResumes
      BY <2>2, ObserverStep
    <2>3. CASE UNCHANGED vars
      <3>1. UNCHANGED <<pc, denied, reply, watch>>
        BY <2>3 DEF vars, main, observers
      <3>2. LifeStage' = LifeStage /\ LifeReply' = LifeReply /\ Watched' = Watched
        BY <3>1 DEF LifeStage, LifeReply, Watched
      <3>3. QED
        BY <3>2 DEF Lifecycle!vars, Watched
    <2>4. QED
      BY <2>1, <2>2, <2>3 DEF Next, Work, Finished
  <1>3. QED
    BY <1>1, <1>2, Invariance, PTL DEF Spec, Lifecycle!Safety

=============================================================================
