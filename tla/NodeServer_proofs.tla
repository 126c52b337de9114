-------------------------- MODULE NodeServer_proofs --------------------------
(***************************************************************************)
(* Proofs about NodeServer: its types, the body that a handler gets, the   *)
(* response that is ended once, and the sockets that upgrades leave open.  *)
(*                                                                         *)
(* A callback of a connection only touches that connection, so every       *)
(* invariant speaks of one connection at a time; what relates two of them  *)
(* is the server's stop() and the topics.                                  *)
(***************************************************************************)
EXTENDS NodeServer, TLAPS

\* The types of the variables.
TypeOK ==
    /\ kind \in [Conns -> Kinds]
    /\ at \in [Conns -> Places]
    /\ stream \in [Conns -> {"open", "ended", "failed", "destroyed"}]
    /\ received \in [Conns -> Nat]
    /\ total \in [Conns -> Nat]
    /\ listening \in [Conns -> BOOLEAN]
    /\ body \in [Conns -> {"pending", "whole", "tooLarge", "rejected"}]
    /\ socket \in [Conns -> {"open", "closed"}]
    /\ head \in [Conns -> {None, 200, 413, 500}]
    /\ ends \in [Conns -> Nat]
    /\ reply \in [Conns -> Replies \cup {None}]
    /\ upgraded \in [Conns -> BOOLEAN]
    /\ ws \in [Conns -> {"none", "open", "closed"}]
    /\ subscribers \in [Topics -> SUBSET Conns]
    /\ late \in [Conns -> SUBSET Topics]
    /\ running \in BOOLEAN

\* The reader of a body: it has counted every chunk while it listens, none of
\* them past the limit, and it only reports a body whole at the stream's end.
Reading(c) ==
    /\ at[c] = "idle" => received[c] = 0 /\ total[c] = 0 /\ ~listening[c] /\ body[c] = "pending"
    /\ at[c] = "idle" /\ kind[c] = "post" => stream[c] = "open"
    /\ at[c] = "reading" => kind[c] = "post"
    /\ listening[c] => /\ at[c] = "reading" /\ stream[c] = "open" /\ body[c] = "pending"
                       /\ total[c] = received[c] /\ received[c] <= Limit
    /\ body[c] = "whole" => /\ stream[c] = "ended"
                            /\ total[c] = received[c] /\ received[c] <= Limit

\* Only a whole body takes the callback of a post behind its await.
Serving(c) ==
    kind[c] = "post" /\ (at[c] \in {"handling", "collecting", "piping"} \/ reply[c] # None)
        => body[c] = "whole"

\* What was sent before the callback returns.
Sending(c) ==
    /\ at[c] \in {"idle", "reading", "handling"} => head[c] = None /\ ends[c] = 0 /\ reply[c] = None
    /\ at[c] \in {"collecting", "piping"} => head[c] \in {None, 200} /\ ends[c] = 0
    /\ ends[c] <= 1

\* The socket of an upgrade.
Owned(c) ==
    /\ kind[c] = "upgrade" => at[c] \in {"idle", "handling", "returned"}
    /\ upgraded[c] => kind[c] = "upgrade"
    /\ ws[c] # "none" => upgraded[c]
    /\ kind[c] = "upgrade" /\ at[c] = "returned" /\ ~upgraded[c] => socket[c] = "closed"

Subscribed == \A t \in Topics : \A c \in subscribers[t] :
                  ws[c] # "none" /\ (ws[c] = "open" \/ t \in late[c])

ConnInv == \A c \in Conns : Reading(c) /\ Serving(c) /\ Sending(c) /\ Owned(c)

-----------------------------------------------------------------------------
(***************************************************************************)
(* Type correctness.                                                       *)
(***************************************************************************)
LEMMA InitTypes == Init => TypeOK
BY DEF Init, TypeOK, Kinds, Places

\* Switching the listeners of a connection keeps them a function to BOOLEAN.
LEMMA ListeningTyped ==
    ASSUME TypeOK, NEW c \in Conns, NEW b \in BOOLEAN
    PROVE  Set(listening, c, b) \in [Conns -> BOOLEAN]
<1>1. listening \in [Conns -> BOOLEAN]
  BY DEF TypeOK
<1>2. QED
  BY <1>1, Zenon DEF Set

LEMMA StepTypes == TypeOK /\ [Next]_vars => TypeOK'
<1> SUFFICES ASSUME TypeOK, [Next]_vars PROVE TypeOK'
  OBVIOUS
<1> USE DEF TypeOK, req, res, web
<1>1. CASE Next
  <2>1. ASSUME NEW c \in Conns, Arrive(c) PROVE TypeOK'
    <3>1. listening' \in [Conns -> BOOLEAN]
      <4>1. listening' = listening \/ listening' = Set(listening, c, TRUE)
        BY <2>1, Zenon DEF Arrive
      <4>2. Set(listening, c, TRUE) \in [Conns -> BOOLEAN]
        BY ListeningTyped
      <4>3. listening \in [Conns -> BOOLEAN]
        BY DEF TypeOK
      <4>4. QED
        BY <4>1, <4>2, <4>3, Zenon
    <3>2. QED
      BY <2>1, <3>1 DEF Arrive, Go, Set, TypeOK, Places
  <2>2. ASSUME NEW c \in Conns, Data(c) PROVE TypeOK'
    <3>1. listening' \in [Conns -> BOOLEAN]
      <4>1. listening' = listening \/ listening' = Set(listening, c, FALSE)
        BY <2>2, Zenon DEF Data, Settle
      <4>2. Set(listening, c, FALSE) \in [Conns -> BOOLEAN]
        BY ListeningTyped
      <4>3. listening \in [Conns -> BOOLEAN]
        BY DEF TypeOK
      <4>4. QED
        BY <4>1, <4>2, <4>3, Zenon
    <3>2. /\ received' \in [Conns -> Nat]
          /\ total' \in [Conns -> Nat]
      BY <2>2 DEF Data, Set, TypeOK
    <3>3. body' \in [Conns -> {"pending", "whole", "tooLarge", "rejected"}]
      BY <2>2 DEF Data, Settle, Set, TypeOK
    <3>4. /\ stream' \in [Conns -> {"open", "ended", "failed", "destroyed"}]
          /\ socket' \in [Conns -> {"open", "closed"}]
      BY <2>2 DEF Data, Settle, Set, TypeOK
    <3>5. QED
      BY <2>2, <3>1, <3>2, <3>3, <3>4, Zenon DEF Data, TypeOK
  <2>3. ASSUME NEW c \in Conns, End(c) PROVE TypeOK'
    <3>1. listening' \in [Conns -> BOOLEAN]
      <4>1. listening' = listening \/ listening' = Set(listening, c, FALSE)
        BY <2>3, Zenon DEF End, Settle
      <4>2. Set(listening, c, FALSE) \in [Conns -> BOOLEAN]
        BY ListeningTyped
      <4>3. listening \in [Conns -> BOOLEAN]
        BY DEF TypeOK
      <4>4. QED
        BY <4>1, <4>2, <4>3, Zenon
    <3>2. body' \in [Conns -> {"pending", "whole", "tooLarge", "rejected"}]
      BY <2>3 DEF End, Settle, Set, TypeOK
    <3>3. QED
      BY <2>3, <3>1, <3>2 DEF End, Set, TypeOK
  <2>4. ASSUME NEW c \in Conns, Fail(c) PROVE TypeOK'
    <3>1. listening' \in [Conns -> BOOLEAN]
      <4>1. listening' = listening \/ listening' = Set(listening, c, FALSE)
        BY <2>4, Zenon DEF Fail, Settle
      <4>2. Set(listening, c, FALSE) \in [Conns -> BOOLEAN]
        BY ListeningTyped
      <4>3. listening \in [Conns -> BOOLEAN]
        BY DEF TypeOK
      <4>4. QED
        BY <4>1, <4>2, <4>3, Zenon
    <3>2. body' \in [Conns -> {"pending", "whole", "tooLarge", "rejected"}]
      BY <2>4 DEF Fail, Settle, Set, TypeOK
    <3>3. QED
      BY <2>4, <3>1, <3>2 DEF Fail, Set, TypeOK
  <2>5. ASSUME NEW c \in Conns, BodyRead(c) PROVE TypeOK'
    BY <2>5 DEF BodyRead, Go, Set, Places
  <2>6. ASSUME NEW c \in Conns, BodyRefused(c) PROVE TypeOK'
    BY <2>6 DEF BodyRefused, AnswerUnlessSent, Go, Set, Places
  <2>7. ASSUME NEW c \in Conns, BodyFailed(c) PROVE TypeOK'
    BY <2>7 DEF BodyFailed, Caught, AnswerUnlessSent, Go, Set, Places
  <2>8. ASSUME NEW c \in Conns, HandleRejects(c) PROVE TypeOK'
    BY <2>8 DEF HandleRejects, Caught, AnswerUnlessSent, Go, Set, Places
  <2>9. ASSUME NEW c \in Conns, HandleResolves(c) PROVE TypeOK'
    <3>1. PICK r \in Replies :
              /\ reply' = Set(reply, c, r)
              /\ head' = Set(head, c, 200) \/ head' = Set(head, c, HeadOf(c, r))
              /\ ends' = ends \/ ends' = Set(ends, c, ends[c] + 1)
              /\ Go(c, "returned") \/ Go(c, "collecting") \/ Go(c, "piping")
      BY <2>9, Zenon DEF HandleResolves, Ended, Replies
    <3>2. HeadOf(c, r) \in {None, 200, 413, 500} /\ ends[c] + 1 \in Nat
      BY DEF HeadOf, TypeOK
    <3>3. reply' \in [Conns -> Replies \cup {None}]
      BY <3>1 DEF Set, TypeOK
    <3>4. head' \in [Conns -> {None, 200, 413, 500}]
      BY <3>1, <3>2 DEF Set, TypeOK
    <3>5. ends' \in [Conns -> Nat]
      BY <3>1, <3>2 DEF Set, TypeOK
    <3>6. at' \in [Conns -> Places]
      BY <3>1 DEF Go, Places, TypeOK
    <3>7. QED
      BY <2>9, <3>3, <3>4, <3>5, <3>6, Zenon DEF HandleResolves, TypeOK, req, web
  <2>10. ASSUME NEW c \in Conns, Collected(c) PROVE TypeOK'
    BY <2>10 DEF Collected, Ended, Go, Set, Places
  <2>11. ASSUME NEW c \in Conns, CollectFails(c) PROVE TypeOK'
    BY <2>11 DEF CollectFails, Caught, AnswerUnlessSent, Go, Set, Places
  <2>12. ASSUME NEW c \in Conns, Piped(c) PROVE TypeOK'
    BY <2>12 DEF Piped, Go, Set, Places
  <2>13. ASSUME NEW c \in Conns, PipeEnds(c) PROVE TypeOK'
    BY <2>13 DEF PipeEnds, Ended, Go, Set, Places
  <2>14. ASSUME NEW c \in Conns, PipeFails(c) PROVE TypeOK'
    BY <2>14 DEF PipeFails, Caught, AnswerUnlessSent, Go, Set, Places
  <2>15. ASSUME NEW c \in Conns, upgrade(c) PROVE TypeOK'
    BY <2>15 DEF upgrade, Go, Set, Places
  <2>16. ASSUME NEW c \in Conns, UpgradeReturns(c) PROVE TypeOK'
    BY <2>16 DEF UpgradeReturns, Destroyed, Go, Set, Places
  <2>17. ASSUME NEW c \in Conns, UpgradeRejects(c) PROVE TypeOK'
    BY <2>17 DEF UpgradeRejects, Destroyed, Go, Set, Places
  <2>18. ASSUME NEW c \in Conns, Close(c) PROVE TypeOK'
    BY <2>18 DEF Close, Destroyed, Leaves, Go, Set, Places
  <2>19. ASSUME NEW c \in Conns, Abandon(c) PROVE TypeOK'
    BY <2>19 DEF Abandon, Destroyed, Go, Set, Places
  <2>20. ASSUME NEW c \in Conns, NEW t \in Topics, subscribe(c, t) \/ unsubscribe(c, t) PROVE TypeOK'
    BY <2>20 DEF subscribe, unsubscribe
  <2>21. ASSUME NEW close \in BOOLEAN, stop(close) PROVE TypeOK'
    <3>1. CASE close
      <4>1. body' \in [Conns -> {"pending", "whole", "tooLarge", "rejected"}]
        BY <2>21, <3>1 DEF stop, TypeOK
      <4>2. socket' \in [Conns -> {"open", "closed"}]
        BY <2>21, <3>1 DEF stop, TypeOK
      <4>3. stream' \in [Conns -> {"open", "ended", "failed", "destroyed"}]
        BY <2>21, <3>1 DEF stop, TypeOK
      <4>4. listening' \in [Conns -> BOOLEAN]
        <5>1. listening' = [d \in Conns |-> FALSE]
          BY <2>21, <3>1, Zenon DEF stop
        <5>2. QED
          BY <5>1, Zenon
      <4>5. running' \in BOOLEAN
        BY <2>21, Zenon DEF stop
      <4>6. QED
        BY <2>21, <4>1, <4>2, <4>3, <4>4, <4>5, Zenon DEF stop, res, web, TypeOK
    <3>2. CASE ~close
      <4>1. running' \in BOOLEAN
        BY <2>21, Zenon DEF stop
      <4>2. UNCHANGED <<kind, at, received, total, res, web, socket, stream, body, listening>>
        BY <2>21, <3>2, Zenon DEF stop
      <4>3. QED
        BY <4>1, <4>2, Zenon DEF res, web, TypeOK
    <3>3. QED
      BY <3>1, <3>2
  <2>22. QED
    BY <1>1, <2>1, <2>2, <2>3, <2>4, <2>5, <2>6, <2>7, <2>8, <2>9, <2>10, <2>11, <2>12, <2>13,
       <2>14, <2>15, <2>16, <2>17, <2>18, <2>19, <2>20, <2>21
       DEF Next, StreamEvent, Callback, PipeEvent, Handled
<1>2. CASE UNCHANGED vars
  BY <1>2 DEF vars
<1>3. QED
  BY <1>1, <1>2

\* The variables keep their types through every callback.
THEOREM Types == Spec => []TypeOK
<1>1. Init => TypeOK
  BY InitTypes
<1>2. TypeOK /\ [Next]_vars => TypeOK'
  BY StepTypes
<1>3. QED
  BY <1>1, <1>2, PTL DEF Spec

\* What HandleResolves does to its connection.
LEMMA ResolvesStep ==
    ASSUME TypeOK, NEW c \in Conns, HandleResolves(c)
    PROVE  /\ at[c] = "handling" /\ kind[c] # "upgrade"
           /\ \E r \in Replies, p \in {"returned", "collecting", "piping"}, h \in {head[c], 200} :
                  /\ reply' = Set(reply, c, r)
                  /\ at' = Set(at, c, p)
                  /\ head' = Set(head, c, h)
                  /\ \/ p = "returned" /\ ends' = Set(ends, c, ends[c] + 1)
                     \/ p # "returned" /\ ends' = ends
           /\ UNCHANGED <<kind, req, socket, web, running>>
<1>1. PICK r \in Replies :
          /\ reply' = Set(reply, c, r)
          /\ CASE r.body \in {"raw", "none"} -> head' = Set(head, c, 200) /\ Ended(c)
               [] r.body = "collected" -> head' = Set(head, c, HeadOf(c, r)) /\ Go(c, "collecting") /\ UNCHANGED ends
               [] r.body = "piped"     -> head' = Set(head, c, HeadOf(c, r)) /\ Go(c, "piping") /\ UNCHANGED ends
  BY Zenon DEF HandleResolves
<1>2. HeadOf(c, r) \in {head[c], 200}
  BY DEF HeadOf
<1>3. CASE r.body \in {"raw", "none"}
  <2>1. head' = Set(head, c, 200) /\ Ended(c)
    BY <1>1, <1>3
  <2>2. reply' = Set(reply, c, r) /\ at' = Set(at, c, "returned")
          /\ head' = Set(head, c, 200) /\ ends' = Set(ends, c, ends[c] + 1)
    BY <1>1, <2>1, Zenon DEF Ended, Go, Set
  <2>3. QED
    BY <2>2, Zenon DEF HandleResolves
<1>4. CASE r.body = "collected"
  <2>1. head' = Set(head, c, HeadOf(c, r)) /\ Go(c, "collecting") /\ UNCHANGED ends
    BY <1>1, <1>4
  <2>2. reply' = Set(reply, c, r) /\ at' = Set(at, c, "collecting")
          /\ head' = Set(head, c, HeadOf(c, r)) /\ ends' = ends
    BY <1>1, <2>1, Zenon DEF Go, Set
  <2>3. QED
    BY <2>2, <1>2, "collecting" # "returned", Zenon DEF HandleResolves
<1>5. CASE r.body = "piped"
  <2>1. head' = Set(head, c, HeadOf(c, r)) /\ Go(c, "piping") /\ UNCHANGED ends
    BY <1>1, <1>5
  <2>2. reply' = Set(reply, c, r) /\ at' = Set(at, c, "piping")
          /\ head' = Set(head, c, HeadOf(c, r)) /\ ends' = ends
    BY <1>1, <2>1, Zenon DEF Go, Set
  <2>3. QED
    BY <2>2, <1>2, "piping" # "returned", Zenon DEF HandleResolves
<1>6. QED
  BY <1>3, <1>4, <1>5 DEF Replies

-----------------------------------------------------------------------------
(***************************************************************************)
(* Each part of the invariant of a connection survives every step.         *)
(***************************************************************************)
LEMMA ReadingKept == TypeOK /\ ConnInv /\ [Next]_vars => \A d \in Conns : Reading(d)'
<1> SUFFICES ASSUME TypeOK, ConnInv, [Next]_vars, NEW d \in Conns PROVE Reading(d)'
  OBVIOUS
<1>0. Reading(d) /\ Serving(d) /\ Sending(d) /\ Owned(d)
  BY DEF ConnInv
<1> USE DEF Reading, req, res, web
<1>1. CASE Next
  <2>1. ASSUME NEW c \in Conns, Arrive(c) PROVE Reading(d)'
    <3>1. CASE kind[c] = "post"
      BY <2>1, <3>1, <1>0, BodyAssumption DEF TypeOK, Arrive, Go, Set
    <3>2. CASE kind[c] # "post"
      BY <2>1, <3>2, <1>0 DEF TypeOK, Arrive, Go, Set
    <3>3. QED
      BY <3>1, <3>2
  <2>2. ASSUME NEW c \in Conns, Data(c) PROVE Reading(d)'
    BY <2>2, <1>0, NoneAssumption, BodyAssumption DEF TypeOK, Data, Exceeds, Settle, Go, Set
  <2>3. ASSUME NEW c \in Conns, End(c) PROVE Reading(d)'
    BY <2>3, <1>0, NoneAssumption, BodyAssumption DEF TypeOK, End, Settle, Go, Set
  <2>4. ASSUME NEW c \in Conns, Fail(c) PROVE Reading(d)'
    BY <2>4, <1>0, NoneAssumption, BodyAssumption DEF TypeOK, Fail, Settle, Go, Set
  <2>5. ASSUME NEW c \in Conns, BodyRead(c) PROVE Reading(d)'
    BY <2>5, <1>0, NoneAssumption, BodyAssumption DEF TypeOK, BodyRead, Go, Set
  <2>6. ASSUME NEW c \in Conns, BodyRefused(c) PROVE Reading(d)'
    BY <2>6, <1>0, NoneAssumption, BodyAssumption DEF TypeOK, BodyRefused, Go, Set
  <2>7. ASSUME NEW c \in Conns, BodyFailed(c) PROVE Reading(d)'
    BY <2>7, <1>0, NoneAssumption, BodyAssumption DEF TypeOK, BodyFailed, Caught, Go, Set
  <2>8. ASSUME NEW c \in Conns, HandleRejects(c) PROVE Reading(d)'
    BY <2>8, <1>0, NoneAssumption, BodyAssumption DEF TypeOK, HandleRejects, Caught, AnswerUnlessSent, Go, Set
  <2>9. ASSUME NEW c \in Conns, HandleResolves(c) PROVE Reading(d)'
    <3>1. PICK r \in Replies, p \in {"returned", "collecting", "piping"}, h \in {head[c], 200} :
                  /\ reply' = Set(reply, c, r)
                  /\ at' = Set(at, c, p)
                  /\ head' = Set(head, c, h)
                  /\ \/ p = "returned" /\ ends' = Set(ends, c, ends[c] + 1)
                     \/ p # "returned" /\ ends' = ends
      BY <2>9, ResolvesStep, Zenon
    <3>2. at[c] = "handling" /\ kind[c] # "upgrade" /\ UNCHANGED <<kind, req, socket, web, running>>
      BY <2>9, ResolvesStep, Zenon
    <3>3. QED
      BY <3>1, <3>2, <1>0 DEF TypeOK, Set
  <2>10. ASSUME NEW c \in Conns, Collected(c) PROVE Reading(d)'
    BY <2>10, <1>0, NoneAssumption, BodyAssumption DEF TypeOK, Collected, Ended, Go, Set
  <2>11. ASSUME NEW c \in Conns, CollectFails(c) PROVE Reading(d)'
    BY <2>11, <1>0, NoneAssumption, BodyAssumption DEF TypeOK, CollectFails, Caught, AnswerUnlessSent, Go, Set
  <2>12. ASSUME NEW c \in Conns, Piped(c) PROVE Reading(d)'
    BY <2>12, <1>0, NoneAssumption, BodyAssumption DEF TypeOK, Piped, Go, Set
  <2>13. ASSUME NEW c \in Conns, PipeEnds(c) PROVE Reading(d)'
    BY <2>13, <1>0, NoneAssumption, BodyAssumption DEF TypeOK, PipeEnds, Ended, Go, Set
  <2>14. ASSUME NEW c \in Conns, PipeFails(c) PROVE Reading(d)'
    BY <2>14, <1>0, NoneAssumption, BodyAssumption DEF TypeOK, PipeFails, Caught, AnswerUnlessSent, Go, Set
  <2>15. ASSUME NEW c \in Conns, upgrade(c) PROVE Reading(d)'
    BY <2>15, <1>0, NoneAssumption, BodyAssumption DEF TypeOK, upgrade, Go, Set
  <2>16. ASSUME NEW c \in Conns, UpgradeReturns(c) PROVE Reading(d)'
    BY <2>16, <1>0, NoneAssumption, BodyAssumption DEF TypeOK, UpgradeReturns, Destroyed, Go, Set
  <2>17. ASSUME NEW c \in Conns, UpgradeRejects(c) PROVE Reading(d)'
    BY <2>17, <1>0, NoneAssumption, BodyAssumption DEF TypeOK, UpgradeRejects, Destroyed, Go, Set
  <2>18. ASSUME NEW c \in Conns, Close(c) PROVE Reading(d)'
    BY <2>18, <1>0, NoneAssumption, BodyAssumption DEF TypeOK, Close, Destroyed, Leaves, Go, Set
  <2>19. ASSUME NEW c \in Conns, Abandon(c) PROVE Reading(d)'
    BY <2>19, <1>0, NoneAssumption, BodyAssumption DEF TypeOK, Abandon, Destroyed, Go, Set
  <2>20. ASSUME NEW c \in Conns, NEW t \in Topics, subscribe(c, t) \/ unsubscribe(c, t) PROVE Reading(d)'
    BY <2>20, <1>0 DEF subscribe, unsubscribe
  <2>21. ASSUME NEW close \in BOOLEAN, stop(close) PROVE Reading(d)'
    BY <2>21, <1>0 DEF stop, TypeOK
  <2>22. QED
    BY <1>1, <2>1, <2>2, <2>3, <2>4, <2>5, <2>6, <2>7, <2>8, <2>9, <2>10, <2>11, <2>12, <2>13,
       <2>14, <2>15, <2>16, <2>17, <2>18, <2>19, <2>20, <2>21
       DEF Next, StreamEvent, Callback, PipeEvent, Handled
<1>2. CASE UNCHANGED vars
  BY <1>0, <1>2 DEF vars
<1>3. QED
  BY <1>1, <1>2

LEMMA ServingKept == TypeOK /\ ConnInv /\ [Next]_vars => \A d \in Conns : Serving(d)'
<1> SUFFICES ASSUME TypeOK, ConnInv, [Next]_vars, NEW d \in Conns PROVE Serving(d)'
  OBVIOUS
<1>0. Reading(d) /\ Serving(d) /\ Sending(d) /\ Owned(d)
  BY DEF ConnInv
<1> USE DEF Serving, req, res, web, Reading, Sending
<1>1. CASE Next
  <2>1. ASSUME NEW c \in Conns, Arrive(c) PROVE Serving(d)'
    BY <2>1, <1>0, NoneAssumption, BodyAssumption DEF TypeOK, Arrive, Go, Set
  <2>2. ASSUME NEW c \in Conns, Data(c) PROVE Serving(d)'
    BY <2>2, <1>0, NoneAssumption, BodyAssumption DEF TypeOK, Data, Exceeds, Settle, Go, Set
  <2>3. ASSUME NEW c \in Conns, End(c) PROVE Serving(d)'
    BY <2>3, <1>0, NoneAssumption, BodyAssumption DEF TypeOK, End, Settle, Go, Set
  <2>4. ASSUME NEW c \in Conns, Fail(c) PROVE Serving(d)'
    BY <2>4, <1>0, NoneAssumption, BodyAssumption DEF TypeOK, Fail, Settle, Go, Set
  <2>5. ASSUME NEW c \in Conns, BodyRead(c) PROVE Serving(d)'
    BY <2>5, <1>0, NoneAssumption, BodyAssumption DEF TypeOK, BodyRead, Go, Set
  <2>6. ASSUME NEW c \in Conns, BodyRefused(c) PROVE Serving(d)'
    BY <2>6, <1>0, NoneAssumption, BodyAssumption DEF TypeOK, BodyRefused, AnswerUnlessSent, Go, Set
  <2>7. ASSUME NEW c \in Conns, BodyFailed(c) PROVE Serving(d)'
    BY <2>7, <1>0, NoneAssumption, BodyAssumption DEF TypeOK, BodyFailed, Caught, AnswerUnlessSent, Go, Set
  <2>8. ASSUME NEW c \in Conns, HandleRejects(c) PROVE Serving(d)'
    BY <2>8, <1>0, NoneAssumption, BodyAssumption DEF TypeOK, HandleRejects, Caught, AnswerUnlessSent, Go, Set
  <2>9. ASSUME NEW c \in Conns, HandleResolves(c) PROVE Serving(d)'
    <3>1. PICK r \in Replies, p \in {"returned", "collecting", "piping"}, h \in {head[c], 200} :
                  /\ reply' = Set(reply, c, r)
                  /\ at' = Set(at, c, p)
                  /\ head' = Set(head, c, h)
                  /\ \/ p = "returned" /\ ends' = Set(ends, c, ends[c] + 1)
                     \/ p # "returned" /\ ends' = ends
      BY <2>9, ResolvesStep, Zenon
    <3>2. at[c] = "handling" /\ kind[c] # "upgrade" /\ UNCHANGED <<kind, req, socket, web, running>>
      BY <2>9, ResolvesStep, Zenon
    <3>3. QED
      BY <3>1, <3>2, <1>0 DEF TypeOK, Set
  <2>10. ASSUME NEW c \in Conns, Collected(c) PROVE Serving(d)'
    BY <2>10, <1>0, NoneAssumption, BodyAssumption DEF TypeOK, Collected, Ended, Go, Set
  <2>11. ASSUME NEW c \in Conns, CollectFails(c) PROVE Serving(d)'
    BY <2>11, <1>0, NoneAssumption, BodyAssumption DEF TypeOK, CollectFails, Caught, AnswerUnlessSent, Go, Set
  <2>12. ASSUME NEW c \in Conns, Piped(c) PROVE Serving(d)'
    BY <2>12, <1>0, NoneAssumption, BodyAssumption DEF TypeOK, Piped, Go, Set
  <2>13. ASSUME NEW c \in Conns, PipeEnds(c) PROVE Serving(d)'
    BY <2>13, <1>0, NoneAssumption, BodyAssumption DEF TypeOK, PipeEnds, Ended, Go, Set
  <2>14. ASSUME NEW c \in Conns, PipeFails(c) PROVE Serving(d)'
    BY <2>14, <1>0, NoneAssumption, BodyAssumption DEF TypeOK, PipeFails, Caught, AnswerUnlessSent, Go, Set
  <2>15. ASSUME NEW c \in Conns, upgrade(c) PROVE Serving(d)'
    BY <2>15, <1>0, NoneAssumption, BodyAssumption DEF TypeOK, upgrade, Go, Set
  <2>16. ASSUME NEW c \in Conns, UpgradeReturns(c) PROVE Serving(d)'
    BY <2>16, <1>0, NoneAssumption, BodyAssumption DEF TypeOK, UpgradeReturns, Destroyed, Go, Set
  <2>17. ASSUME NEW c \in Conns, UpgradeRejects(c) PROVE Serving(d)'
    BY <2>17, <1>0, NoneAssumption, BodyAssumption DEF TypeOK, UpgradeRejects, Destroyed, Go, Set
  <2>18. ASSUME NEW c \in Conns, Close(c) PROVE Serving(d)'
    BY <2>18, <1>0, NoneAssumption, BodyAssumption DEF TypeOK, Close, Destroyed, Leaves, Go, Set
  <2>19. ASSUME NEW c \in Conns, Abandon(c) PROVE Serving(d)'
    BY <2>19, <1>0, NoneAssumption, BodyAssumption DEF TypeOK, Abandon, Destroyed, Go, Set
  <2>20. ASSUME NEW c \in Conns, NEW t \in Topics, subscribe(c, t) \/ unsubscribe(c, t) PROVE Serving(d)'
    BY <2>20, <1>0 DEF subscribe, unsubscribe
  <2>21. ASSUME NEW close \in BOOLEAN, stop(close) PROVE Serving(d)'
    BY <2>21, <1>0 DEF stop, TypeOK
  <2>22. QED
    BY <1>1, <2>1, <2>2, <2>3, <2>4, <2>5, <2>6, <2>7, <2>8, <2>9, <2>10, <2>11, <2>12, <2>13,
       <2>14, <2>15, <2>16, <2>17, <2>18, <2>19, <2>20, <2>21
       DEF Next, StreamEvent, Callback, PipeEvent, Handled
<1>2. CASE UNCHANGED vars
  BY <1>0, <1>2 DEF vars
<1>3. QED
  BY <1>1, <1>2

LEMMA SendingKept == TypeOK /\ ConnInv /\ [Next]_vars => \A d \in Conns : Sending(d)'
<1> SUFFICES ASSUME TypeOK, ConnInv, [Next]_vars, NEW d \in Conns PROVE Sending(d)'
  OBVIOUS
<1>0. Reading(d) /\ Serving(d) /\ Sending(d) /\ Owned(d)
  BY DEF ConnInv
<1> USE DEF Sending, req, res, web
<1>1. CASE Next
  <2>1. ASSUME NEW c \in Conns, Arrive(c) PROVE Sending(d)'
    BY <2>1, <1>0, NoneAssumption, BodyAssumption DEF TypeOK, Arrive, Go, Set
  <2>2. ASSUME NEW c \in Conns, Data(c) PROVE Sending(d)'
    BY <2>2, <1>0, NoneAssumption, BodyAssumption DEF TypeOK, Data, Exceeds, Settle, Go, Set
  <2>3. ASSUME NEW c \in Conns, End(c) PROVE Sending(d)'
    BY <2>3, <1>0, NoneAssumption, BodyAssumption DEF TypeOK, End, Settle, Go, Set
  <2>4. ASSUME NEW c \in Conns, Fail(c) PROVE Sending(d)'
    BY <2>4, <1>0, NoneAssumption, BodyAssumption DEF TypeOK, Fail, Settle, Go, Set
  <2>5. ASSUME NEW c \in Conns, BodyRead(c) PROVE Sending(d)'
    BY <2>5, <1>0, NoneAssumption, BodyAssumption DEF TypeOK, BodyRead, Go, Set
  <2>6. ASSUME NEW c \in Conns, BodyRefused(c) PROVE Sending(d)'
    BY <2>6, <1>0, NoneAssumption, BodyAssumption DEF TypeOK, BodyRefused, AnswerUnlessSent, Go, Set
  <2>7. ASSUME NEW c \in Conns, BodyFailed(c) PROVE Sending(d)'
    BY <2>7, <1>0, NoneAssumption, BodyAssumption DEF TypeOK, BodyFailed, Caught, AnswerUnlessSent, Go, Set
  <2>8. ASSUME NEW c \in Conns, HandleRejects(c) PROVE Sending(d)'
    BY <2>8, <1>0, NoneAssumption, BodyAssumption DEF TypeOK, HandleRejects, Caught, AnswerUnlessSent, Go, Set
  <2>9. ASSUME NEW c \in Conns, HandleResolves(c) PROVE Sending(d)'
    <3>1. PICK r \in Replies, p \in {"returned", "collecting", "piping"}, h \in {head[c], 200} :
                  /\ reply' = Set(reply, c, r)
                  /\ at' = Set(at, c, p)
                  /\ head' = Set(head, c, h)
                  /\ \/ p = "returned" /\ ends' = Set(ends, c, ends[c] + 1)
                     \/ p # "returned" /\ ends' = ends
      BY <2>9, ResolvesStep, Zenon
    <3>2. at[c] = "handling" /\ kind[c] # "upgrade" /\ UNCHANGED <<kind, req, socket, web, running>>
      BY <2>9, ResolvesStep, Zenon
    <3>3. QED
      BY <3>1, <3>2, <1>0 DEF TypeOK, Set
  <2>10. ASSUME NEW c \in Conns, Collected(c) PROVE Sending(d)'
    BY <2>10, <1>0, NoneAssumption, BodyAssumption DEF TypeOK, Collected, Ended, Go, Set
  <2>11. ASSUME NEW c \in Conns, CollectFails(c) PROVE Sending(d)'
    BY <2>11, <1>0, NoneAssumption, BodyAssumption DEF TypeOK, CollectFails, Caught, AnswerUnlessSent, Go, Set
  <2>12. ASSUME NEW c \in Conns, Piped(c) PROVE Sending(d)'
    BY <2>12, <1>0, NoneAssumption, BodyAssumption DEF TypeOK, Piped, Go, Set
  <2>13. ASSUME NEW c \in Conns, PipeEnds(c) PROVE Sending(d)'
    BY <2>13, <1>0, NoneAssumption, BodyAssumption DEF TypeOK, PipeEnds, Ended, Go, Set
  <2>14. ASSUME NEW c \in Conns, PipeFails(c) PROVE Sending(d)'
    BY <2>14, <1>0, NoneAssumption, BodyAssumption DEF TypeOK, PipeFails, Caught, AnswerUnlessSent, Go, Set
  <2>15. ASSUME NEW c \in Conns, upgrade(c) PROVE Sending(d)'
    BY <2>15, <1>0, NoneAssumption, BodyAssumption DEF TypeOK, upgrade, Go, Set
  <2>16. ASSUME NEW c \in Conns, UpgradeReturns(c) PROVE Sending(d)'
    BY <2>16, <1>0, NoneAssumption, BodyAssumption DEF TypeOK, UpgradeReturns, Destroyed, Go, Set
  <2>17. ASSUME NEW c \in Conns, UpgradeRejects(c) PROVE Sending(d)'
    BY <2>17, <1>0, NoneAssumption, BodyAssumption DEF TypeOK, UpgradeRejects, Destroyed, Go, Set
  <2>18. ASSUME NEW c \in Conns, Close(c) PROVE Sending(d)'
    BY <2>18, <1>0, NoneAssumption, BodyAssumption DEF TypeOK, Close, Destroyed, Leaves, Go, Set
  <2>19. ASSUME NEW c \in Conns, Abandon(c) PROVE Sending(d)'
    BY <2>19, <1>0, NoneAssumption, BodyAssumption DEF TypeOK, Abandon, Destroyed, Go, Set
  <2>20. ASSUME NEW c \in Conns, NEW t \in Topics, subscribe(c, t) \/ unsubscribe(c, t) PROVE Sending(d)'
    BY <2>20, <1>0 DEF subscribe, unsubscribe
  <2>21. ASSUME NEW close \in BOOLEAN, stop(close) PROVE Sending(d)'
    BY <2>21, <1>0 DEF stop, TypeOK
  <2>22. QED
    BY <1>1, <2>1, <2>2, <2>3, <2>4, <2>5, <2>6, <2>7, <2>8, <2>9, <2>10, <2>11, <2>12, <2>13,
       <2>14, <2>15, <2>16, <2>17, <2>18, <2>19, <2>20, <2>21
       DEF Next, StreamEvent, Callback, PipeEvent, Handled
<1>2. CASE UNCHANGED vars
  BY <1>0, <1>2 DEF vars
<1>3. QED
  BY <1>1, <1>2

LEMMA OwnedKept == TypeOK /\ ConnInv /\ [Next]_vars => \A d \in Conns : Owned(d)'
<1> SUFFICES ASSUME TypeOK, ConnInv, [Next]_vars, NEW d \in Conns PROVE Owned(d)'
  OBVIOUS
<1>0. Reading(d) /\ Serving(d) /\ Sending(d) /\ Owned(d)
  BY DEF ConnInv
<1> USE DEF Owned, req, res, web, Reading, Sending
<1>1. CASE Next
  <2>1. ASSUME NEW c \in Conns, Arrive(c) PROVE Owned(d)'
    BY <2>1, <1>0, NoneAssumption, BodyAssumption DEF TypeOK, Arrive, Go, Set
  <2>2. ASSUME NEW c \in Conns, Data(c) PROVE Owned(d)'
    BY <2>2, <1>0, NoneAssumption, BodyAssumption DEF TypeOK, Data, Exceeds, Settle, Go, Set
  <2>3. ASSUME NEW c \in Conns, End(c) PROVE Owned(d)'
    BY <2>3, <1>0, NoneAssumption, BodyAssumption DEF TypeOK, End, Settle, Go, Set
  <2>4. ASSUME NEW c \in Conns, Fail(c) PROVE Owned(d)'
    BY <2>4, <1>0, NoneAssumption, BodyAssumption DEF TypeOK, Fail, Settle, Go, Set
  <2>5. ASSUME NEW c \in Conns, BodyRead(c) PROVE Owned(d)'
    BY <2>5, <1>0, NoneAssumption, BodyAssumption DEF TypeOK, BodyRead, Go, Set
  <2>6. ASSUME NEW c \in Conns, BodyRefused(c) PROVE Owned(d)'
    BY <2>6, <1>0, NoneAssumption, BodyAssumption DEF TypeOK, BodyRefused, AnswerUnlessSent, Go, Set
  <2>7. ASSUME NEW c \in Conns, BodyFailed(c) PROVE Owned(d)'
    BY <2>7, <1>0, NoneAssumption, BodyAssumption DEF TypeOK, BodyFailed, Caught, AnswerUnlessSent, Go, Set
  <2>8. ASSUME NEW c \in Conns, HandleRejects(c) PROVE Owned(d)'
    BY <2>8, <1>0, NoneAssumption, BodyAssumption DEF TypeOK, HandleRejects, Caught, AnswerUnlessSent, Go, Set
  <2>9. ASSUME NEW c \in Conns, HandleResolves(c) PROVE Owned(d)'
    <3>1. PICK r \in Replies, p \in {"returned", "collecting", "piping"}, h \in {head[c], 200} :
                  /\ reply' = Set(reply, c, r)
                  /\ at' = Set(at, c, p)
                  /\ head' = Set(head, c, h)
                  /\ \/ p = "returned" /\ ends' = Set(ends, c, ends[c] + 1)
                     \/ p # "returned" /\ ends' = ends
      BY <2>9, ResolvesStep, Zenon
    <3>2. at[c] = "handling" /\ kind[c] # "upgrade" /\ UNCHANGED <<kind, req, socket, web, running>>
      BY <2>9, ResolvesStep, Zenon
    <3>3. QED
      BY <3>1, <3>2, <1>0 DEF TypeOK, Set
  <2>10. ASSUME NEW c \in Conns, Collected(c) PROVE Owned(d)'
    BY <2>10, <1>0, NoneAssumption, BodyAssumption DEF TypeOK, Collected, Ended, Go, Set
  <2>11. ASSUME NEW c \in Conns, CollectFails(c) PROVE Owned(d)'
    BY <2>11, <1>0, NoneAssumption, BodyAssumption DEF TypeOK, CollectFails, Caught, AnswerUnlessSent, Go, Set
  <2>12. ASSUME NEW c \in Conns, Piped(c) PROVE Owned(d)'
    BY <2>12, <1>0, NoneAssumption, BodyAssumption DEF TypeOK, Piped, Go, Set
  <2>13. ASSUME NEW c \in Conns, PipeEnds(c) PROVE Owned(d)'
    BY <2>13, <1>0, NoneAssumption, BodyAssumption DEF TypeOK, PipeEnds, Ended, Go, Set
  <2>14. ASSUME NEW c \in Conns, PipeFails(c) PROVE Owned(d)'
    BY <2>14, <1>0, NoneAssumption, BodyAssumption DEF TypeOK, PipeFails, Caught, AnswerUnlessSent, Go, Set
  <2>15. ASSUME NEW c \in Conns, upgrade(c) PROVE Owned(d)'
    BY <2>15, <1>0, NoneAssumption, BodyAssumption DEF TypeOK, upgrade, Go, Set
  <2>16. ASSUME NEW c \in Conns, UpgradeReturns(c) PROVE Owned(d)'
    BY <2>16, <1>0, NoneAssumption, BodyAssumption DEF TypeOK, UpgradeReturns, Destroyed, Go, Set
  <2>17. ASSUME NEW c \in Conns, UpgradeRejects(c) PROVE Owned(d)'
    BY <2>17, <1>0, NoneAssumption, BodyAssumption DEF TypeOK, UpgradeRejects, Destroyed, Go, Set
  <2>18. ASSUME NEW c \in Conns, Close(c) PROVE Owned(d)'
    BY <2>18, <1>0, NoneAssumption, BodyAssumption DEF TypeOK, Close, Destroyed, Leaves, Go, Set
  <2>19. ASSUME NEW c \in Conns, Abandon(c) PROVE Owned(d)'
    BY <2>19, <1>0, NoneAssumption, BodyAssumption DEF TypeOK, Abandon, Destroyed, Go, Set
  <2>20. ASSUME NEW c \in Conns, NEW t \in Topics, subscribe(c, t) \/ unsubscribe(c, t) PROVE Owned(d)'
    BY <2>20, <1>0 DEF subscribe, unsubscribe
  <2>21. ASSUME NEW close \in BOOLEAN, stop(close) PROVE Owned(d)'
    BY <2>21, <1>0 DEF stop, TypeOK
  <2>22. QED
    BY <1>1, <2>1, <2>2, <2>3, <2>4, <2>5, <2>6, <2>7, <2>8, <2>9, <2>10, <2>11, <2>12, <2>13,
       <2>14, <2>15, <2>16, <2>17, <2>18, <2>19, <2>20, <2>21
       DEF Next, StreamEvent, Callback, PipeEvent, Handled
<1>2. CASE UNCHANGED vars
  BY <1>0, <1>2 DEF vars
<1>3. QED
  BY <1>1, <1>2

LEMMA ConnStep == TypeOK /\ ConnInv /\ [Next]_vars => ConnInv'
BY ReadingKept, ServingKept, SendingKept, OwnedKept DEF ConnInv

LEMMA SubscribedStep == TypeOK /\ ConnInv /\ Subscribed /\ [Next]_vars => Subscribed'
<1> SUFFICES ASSUME TypeOK, ConnInv, Subscribed, [Next]_vars, NEW t \in Topics, NEW d \in subscribers'[t]
             PROVE  ws'[d] # "none" /\ (ws'[d] = "open" \/ t \in late'[d])
  BY DEF Subscribed
<1>1. CASE \E c \in Conns : upgrade(c)
  BY <1>1 DEF upgrade, ConnInv, Owned, Subscribed, TypeOK, Set
<1>2. CASE \E c \in Conns : Close(c)
  BY <1>2 DEF Close, Leaves, Subscribed, TypeOK, Set
<1>3. CASE \E c \in Conns, u \in Topics : subscribe(c, u) \/ unsubscribe(c, u)
  BY <1>3 DEF subscribe, unsubscribe, Subscribed, TypeOK
<1>4. CASE UNCHANGED <<ws, subscribers, late>>
  BY <1>4 DEF Subscribed
<1>5. QED
  BY <1>1, <1>2, <1>3, <1>4
     DEF Next, StreamEvent, Callback, PipeEvent, Handled, Arrive, Data, End, Fail, BodyRead, BodyRefused,
         BodyFailed, HandleRejects, HandleResolves, Collected, CollectFails, Piped, PipeEnds,
         PipeFails, Caught, UpgradeReturns, UpgradeRejects, Abandon, stop, web, vars

\* The inductive invariant.
IInv == TypeOK /\ ConnInv /\ Subscribed

LEMMA InitIInv == Init => IInv
<1> SUFFICES ASSUME Init PROVE IInv
  OBVIOUS
<1>1. TypeOK
  BY InitTypes
<1>2. ConnInv
  BY NoneAssumption, BodyAssumption
     DEF Init, ConnInv, Reading, Serving, Sending, Owned
<1>3. Subscribed
  BY DEF Init, Subscribed
<1>4. QED
  BY <1>1, <1>2, <1>3 DEF IInv

LEMMA StepIInv == IInv /\ [Next]_vars => IInv'
BY StepTypes, ConnStep, SubscribedStep DEF IInv

LEMMA Invariance == Spec => []IInv
<1>1. Init => IInv
  BY InitIInv
<1>2. IInv /\ [Next]_vars => IInv'
  BY StepIInv
<1>3. QED
  BY <1>1, <1>2, PTL DEF Spec

-----------------------------------------------------------------------------
(***************************************************************************)
(* The theorems.                                                           *)
(***************************************************************************)
\* readLimitedNodeBody: whatever the order of chunks, end, error, limit and
\* stop(), a handler runs on a whole body within the limit, or not at all.
THEOREM WholeBodies == Spec => []HandlerGetsWholeBody
<1>1. IInv => HandlerGetsWholeBody
  BY DEF IInv, ConnInv, Reading, Serving, HandlerGetsWholeBody
<1>2. QED
  BY <1>1, Invariance, PTL

\* Upgrades: a topic holds WebSockets of upgraded requests, a closed one only
\* where its own callback asked for the topic after the close, and no socket
\* of a request that did not upgrade stays open behind its callback.
THEOREM OwnedSockets == Spec => []SocketsAreOwned
<1>1. IInv => SocketsAreOwned
  BY DEF IInv, TypeOK, ConnInv, Owned, Subscribed, SocketsAreOwned
<1>2. QED
  BY <1>1, Invariance, PTL

LEMMA HeadsStay ==
    ASSUME IInv, [Next]_vars, NEW d \in Conns, head[d] # None
    PROVE  head'[d] = head[d]
<1>0. TypeOK /\ Sending(d)
  BY DEF IInv, ConnInv
<1> USE DEF Sending
<1>1. CASE \E c \in Conns : HandleResolves(c)
  <2>1. PICK c \in Conns : HandleResolves(c)
    BY <1>1
  <2>2. at[c] = "handling" /\ \E h : head' = Set(head, c, h)
    BY <1>0, <2>1, ResolvesStep, Zenon
  <2>3. QED
    BY <1>0, <2>2 DEF TypeOK, Set
<1>2. CASE \E c \in Conns : BodyRefused(c)
  BY <1>2, <1>0, NoneAssumption DEF TypeOK, BodyRefused, AnswerUnlessSent, Go, Set
<1>3. CASE \E c \in Conns : BodyFailed(c)
  BY <1>3, <1>0, NoneAssumption DEF TypeOK, BodyFailed, Caught, AnswerUnlessSent, Go, Set
<1>4. CASE \E c \in Conns : HandleRejects(c)
  BY <1>4, <1>0, NoneAssumption DEF TypeOK, HandleRejects, Caught, AnswerUnlessSent, Go, Set
<1>5. CASE \E c \in Conns : Collected(c)
  BY <1>5, <1>0, NoneAssumption DEF TypeOK, Collected, Ended, Go, Set
<1>6. CASE \E c \in Conns : CollectFails(c)
  BY <1>6, <1>0, NoneAssumption DEF TypeOK, CollectFails, Caught, AnswerUnlessSent, Go, Set
<1>7. CASE \E c \in Conns : Piped(c)
  BY <1>7, <1>0, NoneAssumption DEF TypeOK, Piped, Go, Set
<1>8. CASE \E c \in Conns : PipeEnds(c)
  BY <1>8, <1>0, NoneAssumption DEF TypeOK, PipeEnds, Ended, Go, Set
<1>9. CASE \E c \in Conns : PipeFails(c)
  BY <1>9, <1>0, NoneAssumption DEF TypeOK, PipeFails, Caught, AnswerUnlessSent, Go, Set
<1>10. CASE head' = head
  BY <1>10
<1>11. QED
  BY <1>1, <1>2, <1>3, <1>4, <1>5, <1>6, <1>7, <1>8, <1>9, <1>10
     DEF Next, StreamEvent, Callback, PipeEvent, Handled, Arrive, Data, End, Fail, BodyRead, upgrade,
         UpgradeReturns, UpgradeRejects, Close, Abandon, subscribe, unsubscribe, stop, res, vars

\* The catch block and the error handler of a piped body may come at any point:
\* res.end is reached once at most and the status that went out stays.
THEOREM EndedOnce == Spec => AnsweredOnce
<1> DEFINE Once == \A c \in Conns : /\ ends'[c] <= 1
                                    /\ head[c] # None => head'[c] = head[c]
<1>1. IInv /\ IInv' /\ [Next]_vars => [Once]_vars
  <2> SUFFICES ASSUME IInv, IInv', [Next]_vars PROVE Once
    OBVIOUS
  <2>1. \A c \in Conns : ends'[c] <= 1
    BY DEF IInv, ConnInv, Sending
  <2>2. QED
    BY <2>1, HeadsStay
<1>2. QED
  BY <1>1, Invariance, PTL DEF Spec, AnsweredOnce
=============================================================================
