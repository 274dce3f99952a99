----------------------------- MODULE WebStreams -----------------------------
(***************************************************************************)
(* The streams of a session (session.py) and the thread of each            *)
(* (webstreamimpl.py): how a message of the server reaches its stream, and *)
(* how a stream is closed, by any thread and at any moment of its life.    *)
(*                                                                         *)
(* What the stream's helper does with the messages is left to HttpProxy    *)
(* and WsProxy: the thread is theirs from "make" for a websocket and from  *)
(* "upload" or "pass" for a message, and theirs is the closing "helper".   *)
(***************************************************************************)
EXTENDS ServerCon

CONSTANT MaxMessages    \* bound: messages the server sends to a stream, closes apart

VARIABLES
    stream,     \* the streams, a record each
    hand        \* the message the loop is handing over: <<>> or <<x, m>>

streamVars == <<stream, hand>>

\* A message of the server.  size and known count the units of an upload;
\* known is 0 when the open message does not say how much will come.
Message == [type : {"open", "data", "close"}, kind : {"http", "ws"}, size : Nat, known : Nat,
            only : BOOLEAN, done : BOOLEAN]
Nothing == [type |-> "close", kind |-> "http", size |-> 0, known |-> 0, only |-> TRUE, done |-> FALSE]

NewStream ==
    [owner |-> 0,           \* the session it belongs to, 0 before it is made
     kind |-> "http",
     mapped |-> FALSE,      \* in ActiveWebStreams
     closed |-> FALSE,      \* IsClosed
     hasSent |-> FALSE,     \* HasSentCloseMessage
     opened |-> FALSE,      \* OpenWebStreamMsg is set
     helper |-> "none",     \* "none", "made", "set" in its attribute, "taken" out of it again
     hclosed |-> FALSE,     \* IsHelperClosed
     shut |-> FALSE,        \* the helper's own IsClosed
     failed |-> FALSE,      \* ClosedDueToRequestConnectionError
     inbox |-> <<>>, cur |-> Nothing, count |-> 0,
     at |-> "off",          \* where its thread stands
     closing |-> "no",      \* where the one that closes it stands
     closer |-> Loop, captured |-> FALSE,
     told |-> 0,            \* messages with the close flag that were sent
     serverClosed |-> FALSE]

StreamInit == stream = [x \in Stream |-> NewStream] /\ hand = <<>>

Set(x, r) == stream' = [stream EXCEPT ![x] = r]
Move(x, to) == stream' = [stream EXCEPT ![x].at = to]
Closing(x) == stream[x].closing \notin {"no", "done"}

(***************************************************************************)
(* The loop hands the messages over                                        *)
(***************************************************************************)

\* HandleWebStreamMessage, up to the end of the lock.  A message of a stream
\* that is not in the map is ignored unless it opens one.
Receive(x, m) ==
    /\ Hearing /\ hand = <<>>
    /\ m.type = "close" \/ stream[x].count < MaxMessages
    /\ stream[x].owner \in {0, session}
    /\ \/ /\ stream[x].mapped /\ m.kind = stream[x].kind
          /\ hand' = <<x, m>>
          /\ stream' = [stream EXCEPT ![x].count = IF m.type = "close" THEN @ ELSE @ + 1]
          /\ loop' = "give" /\ UNCHANGED job
       \/ /\ stream[x].owner = 0 /\ m.type = "open" /\ accepting[session]
          /\ LET made == [NewStream EXCEPT !.owner = session, !.kind = m.kind, !.mapped = TRUE,
                                           !.count = 1] IN
             \/ Set(x, [made EXCEPT !.at = "get"]) /\ hand' = <<x, m>>
                /\ loop' = "give" /\ UNCHANGED job
             \* its thread cannot be started: an error of the session
             \/ Set(x, made) /\ Become(Loop, "check") /\ UNCHANGED <<hand, loop>>
    /\ UNCHANGED <<active, disconnecting, connecting, blocked, endpoint, noWait, backoff, ws,
                   sock, errors, session, accepting, aged, todo, secondary>>

\* OnIncomingServerMessage, outside the lock of the map.
Give ==
    /\ loop = "give" /\ hand # <<>>
    /\ LET x == hand[1] m == hand[2] IN
       IF stream[x].closed THEN UNCHANGED <<stream, job, todo>>
       ELSE IF m.type = "close"
       THEN /\ stream' = [stream EXCEPT ![x].hasSent = TRUE, ![x].serverClosed = TRUE]
            /\ Become(Loop, "close") /\ todo' = [todo EXCEPT ![Loop] = {x}]
       ELSE /\ stream' = [stream EXCEPT ![x].inbox = Append(@, m)]
            /\ UNCHANGED <<job, todo>>
    /\ hand' = <<>> /\ loop' = "run"
    /\ UNCHANGED <<active, disconnecting, connecting, blocked, endpoint, noWait, backoff, ws,
                   sock, errors, session, accepting, aged, secondary>>

(***************************************************************************)
(* Closing                                                                 *)
(***************************************************************************)

\* CloseAllWebStreamsAndDisable: no more streams, and a copy of those there are.
CloseAll(t) ==
    /\ job[t] = "all"
    /\ accepting' = [accepting EXCEPT ![session] = FALSE]
    /\ todo' = [todo EXCEPT ![t] = {x \in Stream : stream[x].mapped /\ stream[x].owner = session}]
    /\ Become(t, "closeAll")
    /\ UNCHANGED <<loop, active, disconnecting, connecting, blocked, endpoint, noWait, backoff,
                   ws, sock, errors, session, aged, secondary, streamVars>>

\* Close, under the lock of the stream: only the first goes on.
CloseEnter(t, x) ==
    /\ job[t] \in {"close", "closeAll"} /\ x \in todo[t]
    /\ \A y \in Stream : stream[y].closer = t => ~Closing(y)
    /\ todo' = [todo EXCEPT ![t] = @ \ {x}]
    /\ LET s == stream[x]
           captured == s.helper = "set" /\ ~s.hclosed IN
       IF s.closed THEN UNCHANGED stream
       ELSE Set(x, [s EXCEPT !.closed = TRUE, !.closing = "unmap", !.closer = t,
                             !.captured = captured, !.hclosed = @ \/ captured,
                             !.helper = IF captured THEN "taken" ELSE @])
    /\ UNCHANGED <<loop, active, disconnecting, connecting, blocked, endpoint, noWait, backoff,
                   ws, sock, errors, session, accepting, aged, job, secondary, hand>>

\* ... and takes the stream off the map, sees to it that the server is told,
\* under the lock and then outside it, and leaves the helper.
CloseStep(x) ==
    /\ LET s == stream[x] IN
       \/ s.closing = "unmap" /\ Set(x, [s EXCEPT !.mapped = FALSE, !.closing = "tell"])
       \/ s.closing = "tell" /\ ~s.hasSent /\ Set(x, [s EXCEPT !.hasSent = TRUE, !.closing = "send"])
       \/ s.closing = "tell" /\ s.hasSent /\ Set(x, [s EXCEPT !.closing = "helper"])
       \/ s.closing = "send" /\ Set(x, [s EXCEPT !.told = @ + 1, !.closing = "helper"])
       \/ s.closing = "helper" /\ ~s.captured /\ Set(x, [s EXCEPT !.closing = "done"])
    /\ UNCHANGED <<conVars, hand>>

\* The caller returns from Close when all it had to close is closed.
CloseDone(t) ==
    /\ job[t] \in {"close", "closeAll"} /\ todo[t] = {}
    /\ \A y \in Stream : stream[y].closer = t => ~Closing(y)
    /\ Become(t, IF job[t] = "close" \/ (t = Loop /\ loop = "closing") THEN "none" ELSE "shut")
    /\ UNCHANGED <<loop, active, disconnecting, connecting, blocked, endpoint, noWait, backoff,
                   ws, sock, errors, session, accepting, aged, todo, secondary, streamVars>>

\* A thread t calls Close of x.
CallClose(t, x) ==
    /\ Free(t) /\ Become(t, "close") /\ todo' = [todo EXCEPT ![t] = {x}]
    /\ UNCHANGED <<loop, active, disconnecting, connecting, blocked, endpoint, noWait, backoff,
                   ws, sock, errors, session, accepting, aged, secondary>>

(***************************************************************************)
(* The thread of a stream                                                  *)
(***************************************************************************)

\* mainThread takes the next message; the wake-up of Close is the closed flag.
Get(x) ==
    /\ stream[x].at = "get"
    /\ \/ stream[x].closed /\ Move(x, "done")
       \/ /\ ~stream[x].closed /\ stream[x].inbox # <<>>
          /\ Set(x, [stream[x] EXCEPT !.cur = Head(stream[x].inbox), !.inbox = Tail(@),
                        !.at = IF Head(stream[x].inbox).type = "open" THEN "init" ELSE "feed"])
    /\ UNCHANGED <<conVars, hand>>

\* initFromOpenMessage: a second open message resets the connection.  The
\* helper is made outside the lock.
InitFromOpen(x) ==
    /\ stream[x].at = "init"
    /\ Set(x, [stream[x] EXCEPT !.opened = TRUE,
                  !.helper = IF stream[x].opened THEN @ ELSE "made",
                  !.at = IF stream[x].opened THEN "fail"
                         ELSE IF stream[x].kind = "ws" THEN "make" ELSE "attach"])
    /\ UNCHANGED <<conVars, hand>>

\* Mutant: the helper is set whatever became of the stream meanwhile.
AttachAnyway(x) ==
    /\ stream[x].at = "attach"
    /\ Set(x, [stream[x] EXCEPT !.helper = "set", !.at = "feed"])
    /\ UNCHANGED <<conVars, hand>>

\* The helper is set under the lock; when the stream has been closed since,
\* nobody else will close the helper.
Attach(x) ==
    /\ stream[x].at = "attach"
    /\ LET s == stream[x] IN
       IF s.closed /\ ~s.hclosed
       THEN Set(x, [s EXCEPT !.helper = "taken", !.hclosed = TRUE, !.at = "discard"])
       ELSE Set(x, [s EXCEPT !.helper = "set", !.at = "feed"])
    /\ UNCHANGED <<conVars, hand>>

\* A message goes to the helper unless it holds flags only.  Without a
\* helper the stream is over; before an open message it resets the connection.
Feed(x) ==
    /\ stream[x].at = "feed"
    /\ LET s == stream[x] IN
       Move(x, IF ~s.opened THEN "fail"
               ELSE IF s.cur.only THEN "get"
               ELSE IF s.helper # "set" THEN "finish"
               ELSE IF s.kind = "ws" THEN "pass" ELSE "upload")
    /\ UNCHANGED <<conVars, hand>>

\* The helper wants more; a stream that has sent its close message is closed
\* all the same.
More(x) == IF stream[x].hasSent /\ ~stream[x].closed THEN "finish" ELSE "get"

Finish(x) ==
    /\ stream[x].at = "finish"
    /\ CallClose(Worker(x), x) /\ Move(x, "end")
    /\ UNCHANGED hand

\* An exception resets the connection, and the thread ends.
Fail(x) ==
    /\ stream[x].at = "fail"
    /\ Become(Worker(x), "check") /\ Move(x, "end")
    /\ UNCHANGED <<loop, active, disconnecting, connecting, blocked, endpoint, noWait, backoff,
                   ws, sock, errors, session, accepting, aged, todo, secondary, hand>>

OwnCheck(x) == CheckSession(Worker(x), stream[x].owner) /\ UNCHANGED streamVars
LoopCheck == CheckSession(Loop, session) /\ UNCHANGED streamVars

End(x) ==
    /\ stream[x].at = "end" /\ Free(Worker(x))
    /\ Move(x, "done")
    /\ UNCHANGED <<conVars, hand>>

StreamNext ==
    \/ Give \/ LoopCheck
    \/ \E t \in Thread : CloseAll(t) \/ CloseDone(t)
    \/ \E t \in Thread, x \in Stream : CloseEnter(t, x)
    \/ \E x \in Stream :
          CloseStep(x) \/ Get(x) \/ InitFromOpen(x) \/ Attach(x) \/ Feed(x)
          \/ Finish(x) \/ Fail(x) \/ OwnCheck(x) \/ End(x)
=============================================================================
