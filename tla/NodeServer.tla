----------------------------- MODULE NodeServer -----------------------------
(***************************************************************************)
(* The Node HTTP fallback of Oger.listen, packages/core/src/oger.ts: how a *)
(* node:http request becomes a Request with a bounded body, how the        *)
(* Response of the application is written back, how an upgrade becomes a   *)
(* WebSocket with topics, and stop().                                      *)
(*                                                                         *)
(* Node runs one callback at a time.  A connection is what its callbacks   *)
(* and awaits have come to; the events of its stream (data, end, error),   *)
(* the peer that goes away, and the application behind handle() are the    *)
(* environment.                                                            *)
(***************************************************************************)
EXTENDS Naturals, FiniteSets, Sequences

CONSTANTS
    Conns,
    Limit,      \* bodyLimit, in chunks
    MaxChunks,  \* bound: the chunks a peer sends
    Topics,
    None

ASSUME BodyAssumption == Limit \in Nat /\ MaxChunks \in Nat

VARIABLES
    kind,        \* of each connection: a request without or with a body, or an upgrade
    at,          \* where its callback has come to
    stream,      \* of the incoming message: open, ended, failed, destroyed
    received,    \* the chunks that arrived
    total,       \* total, of readLimitedNodeBody
    listening,   \* whether its three listeners are on
    body,        \* its promise: pending, whole, tooLarge, rejected
    socket,      \* open or closed
    head,        \* the status of the head that was sent, or None
    ends,        \* history: how often res.end was reached
    reply,       \* the Response being written
    upgraded,    \* NODE_UPGRADED_SYM
    ws,          \* the WebSocket of the connection: none, open, closed
    subscribers, \* topic -> sockets
    late,        \* history: the topics a socket asked for after its close
    running      \* _server is set

req == <<stream, received, total, listening, body>>
res == <<head, ends, reply>>
web == <<upgraded, ws, subscribers, late>>
vars == <<kind, at, req, socket, res, web, running>>

Kinds == {"get", "post", "upgrade"}

\* A Response: its body is a string or buffer at hand, a stream that is piped
\* (its content type or transfer encoding says so), a stream that is collected,
\* or absent; it may have headers or only a status.
Replies == [body : {"raw", "piped", "collected", "none"}, headers : BOOLEAN]

ASSUME NoneAssumption == None \notin {200, 413, 500} /\ None \notin Replies

\* What the callback has come to.
Places == {"idle", "reading", "handling", "collecting", "piping", "returned"}

Go(c, place) == at' = [at EXCEPT ![c] = place]
Set(f, c, v) == [f EXCEPT ![c] = v]

\* node:http calls back; a request with a body starts to read it.
Arrive(c) ==
    /\ at[c] = "idle"
    /\ running
    /\ IF kind[c] = "post"
       THEN Go(c, "reading") /\ listening' = Set(listening, c, TRUE)
       ELSE Go(c, "handling") /\ UNCHANGED listening
    /\ UNCHANGED <<kind, stream, received, total, body, socket, res, web, running>>

(***************************************************************************)
(* readLimitedNodeBody: the events of the stream and its one promise.      *)
(***************************************************************************)
\* Slip: each chunk is held against the limit by itself.
ExceedsAlone(c) == 1 > Limit

Exceeds(c) == total[c] + 1 > Limit

Settle(c, value) ==
    /\ listening' = Set(listening, c, FALSE)
    /\ body' = Set(body, c, value)

\* onData; at the limit the stream is destroyed, and its socket with it.
Data(c) ==
    /\ stream[c] = "open"
    /\ at[c] # "idle"
    /\ received[c] < MaxChunks
    /\ received' = Set(received, c, received[c] + 1)
    /\ IF ~listening[c]
       THEN UNCHANGED <<stream, socket, total, listening, body>>
       ELSE /\ total' = Set(total, c, total[c] + 1)
            /\ IF Exceeds(c)
               THEN /\ Settle(c, "tooLarge")
                    /\ stream' = Set(stream, c, "destroyed")
                    /\ socket' = Set(socket, c, "closed")
               ELSE UNCHANGED <<stream, socket, listening, body>>
    /\ UNCHANGED <<kind, at, res, web, running>>

\* Slip: the end of the stream settles nothing.
EndSilently(c) ==
    /\ stream[c] = "open"
    /\ at[c] # "idle"
    /\ stream' = Set(stream, c, "ended")
    /\ UNCHANGED <<kind, at, received, total, listening, body, socket, res, web, running>>

\* onEnd.
End(c) ==
    /\ stream[c] = "open"
    /\ at[c] # "idle"
    /\ stream' = Set(stream, c, "ended")
    /\ IF listening[c] THEN Settle(c, "whole") ELSE UNCHANGED <<listening, body>>
    /\ UNCHANGED <<kind, at, received, total, socket, res, web, running>>

\* onError, when the peer goes away before the end of its message.
Fail(c) ==
    /\ stream[c] = "open"
    /\ at[c] # "idle"
    /\ stream' = Set(stream, c, "failed")
    /\ socket' = Set(socket, c, "closed")
    /\ IF listening[c] THEN Settle(c, "rejected") ELSE UNCHANGED <<listening, body>>
    /\ UNCHANGED <<kind, at, received, total, res, web, running>>

(***************************************************************************)
(* The request callback behind the await of the body.                      *)
(***************************************************************************)
\* Slip: the catch block answers whatever has been sent.
AnswerRegardless(c, status) ==
    /\ head' = Set(head, c, status)
    /\ ends' = Set(ends, c, ends[c] + 1)

\* An answer of the server itself, unless a head was sent.
AnswerUnlessSent(c, status) ==
    IF head[c] = None
    THEN head' = Set(head, c, status) /\ ends' = Set(ends, c, ends[c] + 1)
    ELSE UNCHANGED <<head, ends>>

\* The body is there: an OgerNodeRequest goes to handle().
BodyRead(c) ==
    /\ at[c] = "reading"
    /\ body[c] = "whole"
    /\ Go(c, "handling")
    /\ UNCHANGED <<kind, req, socket, res, web, running>>

BodyRefused(c) ==
    /\ at[c] = "reading"
    /\ body[c] = "tooLarge"
    /\ AnswerUnlessSent(c, 413)
    /\ Go(c, "returned")
    /\ UNCHANGED <<kind, req, socket, reply, web, running>>

\* catch: a body that failed, handle() that rejected, a body of the response
\* that could not be collected.
Caught(c) ==
    /\ AnswerUnlessSent(c, 500)
    /\ Go(c, "returned")
    /\ UNCHANGED <<kind, req, socket, reply, web, running>>

BodyFailed(c) == at[c] = "reading" /\ body[c] = "rejected" /\ Caught(c)
HandleRejects(c) == at[c] = "handling" /\ kind[c] # "upgrade" /\ Caught(c)

(***************************************************************************)
(* Writing the Response.                                                   *)
(***************************************************************************)
\* writeHead sends the head at once; a status without headers waits for the
\* first byte or the end.
HeadOf(c, r) == IF r.headers THEN 200 ELSE head[c]

Ended(c) ==
    /\ ends' = Set(ends, c, ends[c] + 1)
    /\ Go(c, "returned")

HandleResolves(c) ==
    /\ at[c] = "handling"
    /\ kind[c] # "upgrade"
    /\ \E r \in Replies :
        /\ reply' = Set(reply, c, r)
        /\ CASE r.body \in {"raw", "none"} -> head' = Set(head, c, 200) /\ Ended(c)
             [] r.body = "collected" -> head' = Set(head, c, HeadOf(c, r)) /\ Go(c, "collecting") /\ UNCHANGED ends
             [] r.body = "piped"     -> head' = Set(head, c, HeadOf(c, r)) /\ Go(c, "piping") /\ UNCHANGED ends
    /\ UNCHANGED <<kind, req, socket, web, running>>

\* await arrayBuffer().
Collected(c) ==
    /\ at[c] = "collecting"
    /\ head' = Set(head, c, 200)
    /\ Ended(c)
    /\ UNCHANGED <<kind, req, socket, reply, web, running>>

CollectFails(c) == at[c] = "collecting" /\ Caught(c)

\* nodeStream.pipe(res): a chunk sends the head, the end of the stream ends res.
Piped(c) ==
    /\ at[c] = "piping"
    /\ head[c] = None
    /\ head' = Set(head, c, 200)
    /\ UNCHANGED <<kind, at, req, socket, ends, reply, web, running>>

PipeEnds(c) ==
    /\ at[c] = "piping"
    /\ head' = Set(head, c, 200)
    /\ Ended(c)
    /\ UNCHANGED <<kind, req, socket, reply, web, running>>

\* The error handler of the stream; pipe() does not end res on an error.
PipeFails(c) ==
    /\ at[c] = "piping"
    /\ Caught(c)

(***************************************************************************)
(* Upgrades and topics.                                                    *)
(***************************************************************************)
\* server.upgrade(), called by the handler: needs the server that handle() got.
upgrade(c) ==
    /\ at[c] = "handling"
    /\ kind[c] = "upgrade"
    /\ running
    /\ ~upgraded[c]
    /\ upgraded' = Set(upgraded, c, TRUE)
    /\ ws' = Set(ws, c, IF socket[c] = "open" THEN "open" ELSE "none")
    /\ UNCHANGED <<kind, at, req, socket, res, subscribers, late, running>>

Destroyed(c) == socket' = Set(socket, c, "closed")

\* await this.handle(): a handler that did not upgrade loses its socket.
UpgradeReturns(c) ==
    /\ at[c] = "handling"
    /\ kind[c] = "upgrade"
    /\ IF upgraded[c] THEN UNCHANGED socket ELSE Destroyed(c)
    /\ Go(c, "returned")
    /\ UNCHANGED <<kind, req, res, web, running>>

\* Its catch block destroys the socket even of one that upgraded.
UpgradeRejects(c) ==
    /\ at[c] = "handling"
    /\ kind[c] = "upgrade"
    /\ Destroyed(c)
    /\ Go(c, "returned")
    /\ UNCHANGED <<kind, req, res, web, running>>

\* What the callbacks open, message and close call on the socket they were given:
\* nothing asks whether it is still open, and an async callback may get here after
\* the close event has passed.
subscribe(c, t) ==
    /\ ws[c] # "none"
    /\ subscribers' = [subscribers EXCEPT ![t] = @ \cup {c}]
    /\ late' = [late EXCEPT ![c] = IF ws[c] = "closed" THEN @ \cup {t} ELSE @]
    /\ UNCHANGED <<kind, at, req, socket, res, upgraded, ws, running>>

unsubscribe(c, t) ==
    /\ ws[c] # "none"
    /\ subscribers' = [subscribers EXCEPT ![t] = @ \ {c}]
    /\ UNCHANGED <<kind, at, req, socket, res, upgraded, ws, late, running>>

\* Slip: a closed socket keeps its topics.
LeavesNone(c) == subscribers

\* The close event: out of every topic.
Leaves(c) == [t \in Topics |-> subscribers[t] \ {c}]

Close(c) ==
    /\ ws[c] = "open"
    /\ ws' = Set(ws, c, "closed")
    /\ Destroyed(c)
    /\ subscribers' = Leaves(c)
    /\ UNCHANGED <<kind, at, req, res, upgraded, late, running>>

(***************************************************************************)
(* The peer and the server.                                                *)
(***************************************************************************)
\* The peer of a request or an upgrade in progress goes away.
Abandon(c) ==
    /\ at[c] # "idle"
    /\ socket[c] = "open"
    /\ stream[c] # "open"
    /\ ws[c] = "none"
    /\ Destroyed(c)
    /\ UNCHANGED <<kind, at, req, res, web, running>>

\* stop(): no new connection; closeActiveConnections closes those of requests.
stop(closeActiveConnections) ==
    /\ running
    /\ running' = FALSE
    /\ IF closeActiveConnections
       THEN /\ socket' = [c \in Conns |-> IF at[c] = "idle" \/ upgraded[c] THEN socket[c] ELSE "closed"]
            /\ stream' = [c \in Conns |-> IF at[c] # "idle" /\ ~upgraded[c] /\ stream[c] = "open"
                                          THEN "failed" ELSE stream[c]]
            /\ body' = [c \in Conns |-> IF listening[c] THEN "rejected" ELSE body[c]]
            /\ listening' = [c \in Conns |-> FALSE]
       ELSE UNCHANGED <<socket, stream, body, listening>>
    /\ UNCHANGED <<kind, at, received, total, res, web>>

Init ==
    /\ kind \in [Conns -> Kinds]
    /\ at = [c \in Conns |-> "idle"]
    /\ stream = [c \in Conns |-> IF kind[c] = "post" THEN "open" ELSE "ended"]
    /\ received = [c \in Conns |-> 0]
    /\ total = [c \in Conns |-> 0]
    /\ listening = [c \in Conns |-> FALSE]
    /\ body = [c \in Conns |-> "pending"]
    /\ socket = [c \in Conns |-> "open"]
    /\ head = [c \in Conns |-> None]
    /\ ends = [c \in Conns |-> 0]
    /\ reply = [c \in Conns |-> None]
    /\ upgraded = [c \in Conns |-> FALSE]
    /\ ws = [c \in Conns |-> "none"]
    /\ subscribers = [t \in Topics |-> {}]
    /\ late = [c \in Conns |-> {}]
    /\ running = TRUE

\* What the process does by itself once the event is there.
Callback(c) ==
    BodyRead(c) \/ BodyRefused(c) \/ BodyFailed(c) \/ Collected(c) \/ CollectFails(c)
PipeEvent(c) == Piped(c) \/ PipeEnds(c) \/ PipeFails(c)
Handled(c) == HandleResolves(c) \/ HandleRejects(c) \/ UpgradeReturns(c) \/ UpgradeRejects(c)
StreamEvent(c) == End(c) \/ Fail(c)

Next ==
    \/ \E c \in Conns : Arrive(c) \/ Data(c) \/ StreamEvent(c) \/ Callback(c) \/ Handled(c)
                            \/ PipeEvent(c) \/ upgrade(c) \/ Close(c) \/ Abandon(c)
    \/ \E c \in Conns, t \in Topics : subscribe(c, t) \/ unsubscribe(c, t)
    \/ \E close \in BOOLEAN : stop(close)

\* Node delivers the end or the failure of every message, promises that are
\* settled run their callbacks, and the application answers, with a body that
\* ends where arrayBuffer() is awaited.  Nothing is asked of a piped stream: an
\* event stream may go on for ever.
Spec ==
    /\ Init /\ [][Next]_vars
    /\ \A c \in Conns : WF_vars(Callback(c)) /\ WF_vars(Handled(c)) /\ WF_vars(StreamEvent(c))

-----------------------------------------------------------------------------
\* The application is handed a request with a body only when all of it came
\* and none of it is past the limit: not for one that was refused, failed or
\* is still coming, whatever the order of the events (readLimitedNodeBody).
HandlerGetsWholeBody ==
    \A c \in Conns :
        kind[c] = "post" /\ (at[c] \in {"handling", "collecting", "piping"} \/ reply[c] # None) =>
            stream[c] = "ended" /\ total[c] = received[c] /\ received[c] <= Limit

\* A response is ended once, and its status is not changed after its head was
\* sent, although the catch block and the stream's error handler may come after
\* either.
AnsweredOnce ==
    [][\A c \in Conns : /\ ends'[c] <= 1
                        /\ head[c] # None => head'[c] = head[c]]_vars

\* Every callback returns.  It has ended the response by then, or has left the end
\* to pipe(); the one response it leaves unfinished is one whose body failed in
\* arrayBuffer() after its headers were written, which the catch block lets be.
CallbacksReturn ==
    \A c \in Conns : at[c] \in {"reading", "handling", "collecting"} ~>
        \/ at[c] = "piping"
        \/ /\ at[c] = "returned"
           /\ kind[c] = "upgrade" \/ ends[c] = 1 \/ reply[c] = [body |-> "collected", headers |-> TRUE]

\* A topic's subscribers are upgraded WebSockets, open unless their own callback
\* asked for the topic after the close: the close event takes a socket out of every
\* topic it had.  And a socket that was never upgraded is not left open behind its
\* callback.
SocketsAreOwned ==
    /\ \A t \in Topics : \A c \in subscribers[t] : upgraded[c] /\ (ws[c] = "open" \/ t \in late[c])
    /\ \A c \in Conns : kind[c] = "upgrade" /\ at[c] = "returned" /\ ~upgraded[c]
                            => socket[c] = "closed"
=============================================================================
