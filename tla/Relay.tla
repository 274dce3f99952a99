-------------------------------- MODULE Relay -------------------------------
(***************************************************************************)
(* The whole of the relay: the connection, its streams, the requests and   *)
(* websockets they proxy and the search for the nearest server.            *)
(*                                                                         *)
(* The world chosen at first says which part of it is busy: "alone" the    *)
(* connection itself, "line" connections with requests, "upload" a request *)
(* on its way out, "page" its body on the way back, "socket" a websocket,  *)
(* "ping" the search.                                                      *)
(***************************************************************************)
EXTENDS Latency

CONSTANT Given          \* bound: what the server may send in each world, as pairs <<x, m>>

World == {"alone", "line", "upload", "page", "socket", "ping"}

ASSUME GivenAssumption ==
    DOMAIN Given = World /\ \A w \in World : Given[w] \subseteq Stream \X Message

VARIABLE world

vars == <<conVars, streamVars, httpVars, wsVars, pingVars, world>>

Init ==
    /\ ConInit /\ StreamInit /\ HttpInit /\ WsInit /\ PingInit
    /\ world \in World
    /\ world # "ping" => ~worked /\ pings = NoPings

proxyVars == <<httpVars, wsVars, pingVars, world>>

\* Bounds.  Only in the world "alone" does the server summon, refuse for long
\* and does the error callback come late; the worlds of one stream have one
\* connection, which ends when a thread closes it.  Only a "page" has a long body,
\* and only an "upload" is opened twice.
Calm ==
    /\ world # "alone" => secondary' = {} /\ errors' = {} /\ ~aged' /\ backoff' <= MaxBackoff
    /\ world \in {"socket", "ping"} => job'[Loop] \notin {"check", "flag"}
    /\ world \in {"upload", "page", "socket"} =>
        "gone" \notin {sock'[n] : n \in Session} /\ loop' # "rest" /\ backoff' = DefaultBackoff
Small ==
    world # "page" => \A x \in Stream :
        http'[x].how \in {"none", "full"} /\ http'[x].length <= IF world = "upload" THEN 1 ELSE 0

Connect == ConNext /\ Calm /\ UNCHANGED <<streamVars, proxyVars>>
ConnectTo == NewClient(best) /\ UNCHANGED <<streamVars, proxyVars>>
Hear ==
    /\ \E g \in Given[world] :
          /\ g[2].type = "open" /\ stream[g[1]].count > 0 => world = "upload"
          /\ Receive(g[1], g[2])
    /\ UNCHANGED proxyVars
Serve == StreamNext /\ UNCHANGED proxyVars
Proxy == HttpNext /\ Small /\ UNCHANGED <<wsVars, pingVars, world>>
ProxySocket == WsNext /\ UNCHANGED <<pingVars, world>>
Ping == world = "ping" /\ PingStep /\ UNCHANGED <<conVars, streamVars, httpVars, wsVars, world>>
MoveNearer == world = "ping" /\ FirstRunComplete /\ UNCHANGED <<streamVars, httpVars, wsVars, world>>

Next == Connect \/ ConnectTo \/ Hear \/ Serve \/ Proxy \/ ProxySocket \/ Ping \/ MoveNearer

Spec == Init /\ [][Next]_vars

(***************************************************************************)
(* Properties                                                              *)
(***************************************************************************)

Place == {"begin", "number", "run", "opened", "give", "closing", "rest", "returned"}
Job == {"none", "check", "flag", "all", "closeAll", "close", "shut"}
At == {"off", "get", "init", "attach", "discard", "feed", "fail", "finish", "end", "done",
       "upload", "trim", "execute", "body", "post", "push", "send", "look", "decide", "wait",
       "make", "refused", "pass"}

StreamState ==
    [owner : 0..MaxSessions, kind : {"http", "ws"}, mapped : BOOLEAN, closed : BOOLEAN,
     hasSent : BOOLEAN, opened : BOOLEAN, helper : {"none", "made", "set", "taken"},
     hclosed : BOOLEAN, shut : BOOLEAN, failed : BOOLEAN,
     inbox : Seq(Message), cur : Message, count : Nat, at : At,
     closing : {"no", "unmap", "tell", "send", "helper", "reader", "done"},
     closer : Thread, captured : BOOLEAN, told : Nat, serverClosed : BOOLEAN]

Body == Seq(Nat)
HttpState ==
    [known : Nat, got : Nat, room : Nat, how : Answers \cup {"none", "full", "stream", "plain"},
     length : Nat \cup {NoLength}, made : Nat, torn : Nat, piece : Body, read : Nat, last : BOOLEAN,
     dropped : BOOLEAN, sent : Body]
ReaderState ==
    [at : {"none", "top", "reading", "held", "final", "done"}, list : Seq(Body), acc : Seq(Body),
     must : BOOLEAN, first : BOOLEAN, late : BOOLEAN, ready : BOOLEAN, complete : BOOLEAN, closed : BOOLEAN]

RelayState ==
    [current : 0..Tries, tried : 0..Tries, everOpened : BOOLEAN, objOpened : BOOLEAN,
     objClosed : BOOLEAN, captured : 0..Tries, worker : {"none", "due", "done"}]
ClientState ==
    [sock : {"none", "trying", "open", "gone", "shut"},
     error : {"no", "due", "drop", "dial", "close", "settle", "told"}, close : {"no", "told"}]

ConTypeOK ==
    /\ loop \in Place /\ active \in 0..MaxSessions /\ ws = active /\ session \in 0..active
    /\ loop \notin {"begin", "number"} => active # 0
    /\ loop = "number" => active < MaxSessions
    /\ disconnecting \in BOOLEAN /\ connecting \in BOOLEAN /\ blocked \in BOOLEAN
    /\ endpoint \in {"default", "nearest"} /\ noWait \in BOOLEAN /\ backoff \in Nat
    /\ sock \in [Session -> {"new", "open", "gone", "shut"}] /\ errors \subseteq Session
    /\ accepting \in [Session -> BOOLEAN] /\ aged \in BOOLEAN
    /\ job \in [Thread -> Job] /\ todo \in [Thread -> SUBSET Stream] /\ secondary \subseteq Url
HandTypeOK == hand = <<>> \/ hand \in Stream \X Message
PingTypeOK ==
    /\ pinger \in {"rest", "save", "ping", "tell"}
    /\ first \in BOOLEAN /\ worked \in BOOLEAN /\ told \in BOOLEAN /\ rounds \in Nat
    /\ pings \in [Server -> Seq(PingResult)] /\ best \in Server \cup {"none"}
TypeOK ==
    /\ ConTypeOK
    /\ stream \in [Stream -> StreamState] /\ HandTypeOK
    /\ http \in [Stream -> HttpState] /\ reader \in [Stream -> ReaderState]
    /\ relay \in RelayState /\ client \in [Attempt -> ClientState]
    /\ PingTypeOK /\ world \in World

\* However the close of a stream races with its thread, with the server's own
\* close and with the closing of all streams, the server is told at most
\* once and, when the thread and the closer are through, at least once unless
\* it closed the stream itself; the stream is off the map, and a helper that
\* was made, however late, has been closed (webstreamimpl.py:84, :237).
StreamSettled ==
    \A x \in Stream : LET s == stream[x] IN
        /\ s.told <= 1
        /\ s.closing = "done" => ~s.mapped /\ s.hasSent
        /\ s.closing = "done" /\ s.at \in {"off", "done"} =>
              /\ s.told = 1 \/ s.serverClosed
              /\ s.helper # "none" => s.shut

\* While the stream is open no unit of a body is lost, doubled or put out of
\* order between the local server and the relay, whichever thread reads it;
\* what was sent of it is its beginning as long as no piece was refused.  When
\* the body has been read to its end nothing is left behind but what came
\* after the last look of that read, with the end of the body right behind it
\* ("to ensure that any last buffers are read",
\* httpstreamaccumulationreader.py:247).  An upload is handed over with
\* nothing added to it.
BodiesExact ==
    \A x \in Stream : LET h == http[x] r == reader[x] IN
        /\ ~stream[x].closed => h.sent \o h.piece \o FlattenSeq(r.acc \o r.list) = Units(0, h.made)
        /\ ~h.dropped => IsPrefix(h.sent, Units(0, h.made))
        /\ ~stream[x].closed /\ h.last /\ ~r.late => h.sent \o h.piece = Units(0, h.made)
        /\ stream[x].at = "execute" => h.room = h.got

\* A stream that is closed for good leaves no websocket behind, not even one
\* that was being made when it was closed ("to ensure we never leak a
\* websocket", webstreamwshelper.py:224).
NoSocketLeft ==
    /\ stream[W].shut /\ relay.worker = "done"
    /\ \A a \in Attempt : client[a].error \in {"no", "due", "told"}
    => \A a \in Attempt : client[a].sock \notin Live

\* The late callbacks of an attempt that failed leave the stream alone while
\* the attempt made in its stead is under way (webstreamwshelper.py:431).
RetryKeepsStream ==
    \A a \in 1..Tries - 1 :
        stream[W].closing # "no" /\ stream[W].closer = Socket(a)
        => client[a + 1].sock \notin Live

\* Before a new connection gets its session every stream of the one before
\* has been closed, so that no message of the server reaches a stream of
\* another connection.
SessionsSeparate ==
    \A x \in Stream : stream[x].owner \in 1..session - 1 => stream[x].closed
=============================================================================
