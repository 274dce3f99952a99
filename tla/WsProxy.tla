------------------------------- MODULE WsProxy ------------------------------
(***************************************************************************)
(* A proxied websocket (webstreamwshelper.py).  Its address is found by    *)
(* trying: the error callback of one attempt, in a thread of its own,      *)
(* makes the next, while Close may come from any thread.  The close        *)
(* callback of an attempt comes after its error callback has returned,     *)
(* which the client of the websocket sees to (see WsClient).               *)
(***************************************************************************)
EXTENDS HttpProxy

CONSTANT W      \* the one stream that is a websocket

ASSUME SocketAssumption == W \in Stream

VARIABLES
    relay,      \* the helper of W
    client      \* its attempts

wsVars == <<relay, client>>

Attempt == 1..Tries

NewRelay ==
    [current |-> 0,             \* the attempt in self.Ws, 0 for None
     tried |-> 0,               \* ConnectionAttempt
     everOpened |-> FALSE,      \* SuccessfullyOpenedSocket
     objOpened |-> FALSE,       \* IsWsObjOpened
     objClosed |-> FALSE,       \* IsWsObjClosed
     captured |-> 0,            \* wsToClose
     worker |-> "none"]         \* closeWorker

NewClientOf ==
    [sock |-> "none",           \* "trying", "open", "gone" by itself, "shut" by us
     error |-> "no",            \* where the thread of the error callback stands
     close |-> "no"]            \* the close callback

WsInit == relay = NewRelay /\ client = [a \in Attempt |-> NewClientOf]

Live == {"trying", "open"}
Shutting(c) == [c EXCEPT !.sock = IF @ \in Live THEN "shut" ELSE @]
ShutAttempt(a) == client' = [client EXCEPT ![a] = Shutting(@)]

\* Callbacks are heeded when they come from the current websocket, and while
\* there is none.
Heeded(a) == relay.current \in {0, a}

\* A callback of attempt a closes the stream, unless it is closed already.
CloseStream(a) ==
    IF stream[W].closed THEN UNCHANGED conVars ELSE CallClose(Socket(a), W)

(***************************************************************************)
(* The constructor, and the next attempt                                   *)
(***************************************************************************)

\* With remote access disabled the constructor closes the stream and makes
\* no attempt.
Refuse ==
    /\ stream[W].at = "make"
    /\ CallClose(Worker(W), W) /\ Move(W, "refused")
    /\ UNCHANGED <<hand, httpVars, wsVars>>

Refused ==
    /\ stream[W].at = "refused" /\ Free(Worker(W))
    /\ Move(W, "attach")
    /\ UNCHANGED <<conVars, hand, httpVars, wsVars>>

\* The helper cannot have been closed yet: nobody else has it.
FirstAttempt ==
    /\ stream[W].at = "make"
    /\ relay' = [relay EXCEPT !.tried = 1, !.current = 1]
    /\ client' = [client EXCEPT ![1].sock = "trying"]
    /\ Move(W, "attach")
    /\ UNCHANGED <<conVars, hand, httpVars>>

\* onWsError of attempt a: not heeded for an old websocket; a stream that is
\* closed or a websocket that was once open is not tried again.
OnWsError(a) ==
    /\ client[a].error = "due"
    /\ client' = [client EXCEPT ![a].error =
                     IF ~Heeded(a) THEN "settle"
                     ELSE IF stream[W].shut \/ relay.everOpened THEN "close" ELSE "drop"]
    /\ UNCHANGED <<conVars, streamVars, httpVars, relay>>

\* The old websocket is taken out of self.Ws first, then closed.
Drop(a) ==
    /\ client[a].error = "drop"
    /\ relay' = [relay EXCEPT !.current = 0]
    /\ LET c == [client EXCEPT ![a].error = "dial"] IN
       client' = IF relay.current = 0 THEN c ELSE [c EXCEPT ![relay.current] = Shutting(@)]
    /\ UNCHANGED <<conVars, streamVars, httpVars>>

\* Mutant: whether the helper was closed meanwhile is not looked at.
DialAnyway(a) ==
    /\ client[a].error = "dial" /\ relay.tried < Tries
    /\ LET n == relay.tried + 1 IN
       /\ relay' = [relay EXCEPT !.tried = n, !.current = n]
       /\ client' = [client EXCEPT ![n].sock = "trying", ![a].error = "settle"]
    /\ UNCHANGED <<conVars, streamVars, httpVars>>

\* AttemptConnection: the next address, unless there is none left or the
\* helper has been closed, which is looked at under the lock.
Dial(a) ==
    /\ client[a].error = "dial"
    /\ LET n == relay.tried + 1 IN
       IF n > Tries \/ stream[W].shut
       THEN /\ stream' = [stream EXCEPT ![W].failed = TRUE]
            /\ client' = [client EXCEPT ![a].error = "close"]
            /\ UNCHANGED relay
       ELSE /\ relay' = [relay EXCEPT !.tried = n, !.current = n]
            /\ client' = [client EXCEPT ![n].sock = "trying", ![a].error = "settle"]
            /\ UNCHANGED stream
    /\ UNCHANGED <<conVars, hand, httpVars>>

ErrorCloses(a) ==
    /\ client[a].error = "close"
    /\ client' = [client EXCEPT ![a].error = "settle"]
    /\ CloseStream(a)
    /\ UNCHANGED <<streamVars, httpVars, relay>>

\* The client closes itself after its error callback.
Settle(a) ==
    /\ client[a].error = "settle" /\ Free(Socket(a))
    /\ client' = [client EXCEPT ![a] = [Shutting(@) EXCEPT !.error = "told"]]
    /\ UNCHANGED <<conVars, streamVars, httpVars, relay>>

(***************************************************************************)
(* The other callbacks                                                     *)
(***************************************************************************)

OnWsOpened(a) ==
    /\ client[a].sock = "trying"
    /\ client' = [client EXCEPT ![a].sock = "open"]
    /\ relay' = IF Heeded(a)
                THEN [relay EXCEPT !.objClosed = FALSE, !.objOpened = TRUE, !.everOpened = TRUE]
                ELSE relay
    /\ UNCHANGED <<conVars, streamVars, httpVars>>

\* The websocket ends by itself, with an error or without one.
WsEnds(a) ==
    /\ client[a].sock \in Live
    /\ \E e \in {"no", "due"} :
          /\ e = "no" => client[a].sock = "open"
          /\ client' = [client EXCEPT ![a].sock = "gone", ![a].error = e]
    /\ UNCHANGED <<conVars, streamVars, httpVars, relay>>

\* Mutant: the close callback does not wait for that of the error.
OnWsClosedAtOnce(a) ==
    /\ client[a].sock \in {"gone", "shut"} /\ client[a].close = "no"
    /\ client' = [client EXCEPT ![a].close = "told"]
    /\ IF Heeded(a)
       THEN relay' = [relay EXCEPT !.objClosed = TRUE] /\ CloseStream(a)
       ELSE UNCHANGED <<relay, conVars>>
    /\ UNCHANGED <<streamVars, httpVars>>

OnWsClosed(a) ==
    /\ client[a].sock \in {"gone", "shut"} /\ client[a].close = "no"
    /\ client[a].error \in {"no", "told"}
    /\ client' = [client EXCEPT ![a].close = "told"]
    /\ IF Heeded(a)
       THEN relay' = [relay EXCEPT !.objClosed = TRUE] /\ CloseStream(a)
       ELSE UNCHANGED <<relay, conVars>>
    /\ UNCHANGED <<streamVars, httpVars>>

\* Data that cannot be forwarded closes the stream.
OnWsDataFails(a) ==
    /\ client[a].sock = "open" /\ Heeded(a) /\ ~stream[W].closed
    /\ CallClose(Socket(a), W)
    /\ UNCHANGED <<streamVars, httpVars, wsVars>>

(***************************************************************************)
(* Messages of the server, and Close                                       *)
(***************************************************************************)

\* IncomingServerMessage waits until the websocket is open, or is not going
\* to be; then the message goes to whatever websocket is current.
Pass ==
    /\ stream[W].at = "pass"
    /\ relay.objOpened \/ relay.objClosed \/ stream[W].shut
    /\ Move(W, IF ~relay.objOpened \/ relay.objClosed \/ stream[W].shut \/ relay.current = 0
               THEN "finish" ELSE More(W))
    /\ UNCHANGED <<conVars, hand, httpVars, wsVars>>

\* Close, under the lock; a thread of its own closes the websocket.
Shutdown == relay' = [relay EXCEPT !.captured = relay.current, !.worker = "due"]

ShutWs ==
    /\ stream[W].kind = "ws" /\ stream[W].captured /\ stream[W].closing = "helper"
    /\ Set(W, [stream[W] EXCEPT !.shut = TRUE, !.closing = "done"])
    /\ Shutdown
    /\ UNCHANGED <<conVars, hand, httpVars, client>>

DiscardWs ==
    /\ stream[W].at = "discard" /\ stream[W].kind = "ws"
    /\ Set(W, [stream[W] EXCEPT !.shut = TRUE, !.at = "feed"])
    /\ Shutdown
    /\ UNCHANGED <<conVars, hand, httpVars, client>>

CloseWorker ==
    /\ relay.worker = "due"
    /\ relay' = [relay EXCEPT !.worker = "done"]
    /\ IF relay.captured = 0 THEN UNCHANGED client ELSE ShutAttempt(relay.captured)
    /\ UNCHANGED <<conVars, streamVars, httpVars>>

WsNext ==
    \/ Refuse \/ Refused \/ FirstAttempt
    \/ \E a \in Attempt :
          \/ OnWsError(a) \/ Drop(a) \/ Dial(a) \/ ErrorCloses(a) \/ Settle(a)
          \/ OnWsOpened(a) \/ WsEnds(a) \/ OnWsClosed(a) \/ OnWsDataFails(a)
    \/ Pass \/ ShutWs \/ DiscardWs \/ CloseWorker
=============================================================================
