------------------------------ MODULE ServerCon ------------------------------
(***************************************************************************)
(* The connection of the relay (servercon.py): the loop that connects,     *)
(* serves and rests, the disconnect that any thread may ask for, and the   *)
(* bookkeeping of the secondary connections (sweetlinkcore.py).  One       *)
(* action is one access to what the threads share.                         *)
(*                                                                         *)
(* The callbacks of an open websocket run in the thread of the loop; only  *)
(* its error callback has a thread of its own.                             *)
(***************************************************************************)
EXTENDS Integers, FiniteSets, Sequences

CONSTANTS
    Stream,         \* the ids the server gives to its streams
    Tries,          \* how many addresses a proxied websocket is tried at
    MaxSessions,    \* bound: connections the loop makes
    Url,            \* servers that a summon may name
    Noise,          \* what the loop adds to the back off, in seconds
    Extra           \* back off the server may ask for, in seconds

ASSUME ConAssumption ==
    /\ Tries \in Nat \ {0} /\ MaxSessions \in Nat \ {0}
    /\ Noise \subseteq 10..30 /\ Extra \subseteq Nat

\* The threads: the loop, the timer of RunFor, PingPong's worker, the thread
\* of each stream and those of each proxied websocket.
Loop == <<"loop", 0>>
Timer == <<"timer", 0>>
Pinger == <<"pinger", 0>>
Worker(x) == <<"worker", x>>
Socket(a) == <<"socket", a>>
Thread == {Loop, Timer, Pinger} \cup {Worker(x) : x \in Stream} \cup {Socket(a) : a \in 1..Tries}

VARIABLES
    loop,           \* where RunBlocking stands
    active,         \* ActiveSessionId
    disconnecting,  \* IsDisconnecting
    connecting,     \* IsWsConnecting
    blocked,        \* TempDisableLowestLatencyEndpoint
    endpoint,       \* CurrentEndpoint: "default" or "nearest"
    noWait,         \* NoWaitReconnect
    backoff,        \* WsConnectBackOffSec
    ws,             \* the session whose websocket is in self.Ws, 0 for none
    sock,           \* each websocket: "new", "open", "gone", "shut"
    errors,         \* the websockets whose error callback is still to come
    session,        \* the session in self.Session, 0 for none
    accepting,      \* IsAcceptingStreams of each session
    aged,           \* RunForSeconds are over
    job,            \* what a thread is doing on the connection's behalf
    todo,           \* the streams it has still to close
    secondary       \* SecondaryServerCons

conVars == <<loop, active, disconnecting, connecting, blocked, endpoint, noWait, backoff, ws,
             sock, errors, session, accepting, aged, job, todo, secondary>>

Session == 1..MaxSessions
DefaultBackoff == 1
MaxBackoff == 180

ConInit ==
    /\ loop = "begin" /\ active = 0
    /\ disconnecting = FALSE /\ connecting = FALSE /\ blocked = FALSE
    /\ endpoint = "default" /\ noWait = FALSE /\ backoff = DefaultBackoff
    /\ ws = 0 /\ sock = [n \in Session |-> "new"] /\ errors = {}
    /\ session = 0 /\ accepting = [n \in Session |-> FALSE]
    /\ aged = FALSE
    /\ job = [t \in Thread |-> "none"] /\ todo = [t \in Thread |-> {}]
    /\ secondary = {}

Free(t) == job[t] = "none"
Become(t, j) == job' = [job EXCEPT ![t] = j]

(***************************************************************************)
(* The loop                                                                *)
(***************************************************************************)

Reset ==
    /\ loop = "begin" /\ active < MaxSessions
    /\ disconnecting' = FALSE /\ connecting' = TRUE
    /\ loop' = "number"
    /\ UNCHANGED <<active, blocked, endpoint, noWait, backoff, ws, sock, errors, session,
                   accepting, aged, job, todo, secondary>>

\* A new number, a new websocket.  best is the server PingPong found nearest.
NewClient(best) ==
    /\ loop = "number"
    /\ active' = active + 1 /\ ws' = active + 1
    /\ endpoint' = IF best # "none" /\ ~blocked THEN "nearest" ELSE "default"
    /\ loop' = "run"
    /\ UNCHANGED <<disconnecting, connecting, blocked, noWait, backoff, sock, errors, session,
                   accepting, aged, job, todo, secondary>>

Opened ==
    /\ loop = "run" /\ Free(Loop) /\ sock[ws] = "new"
    /\ sock' = [sock EXCEPT ![ws] = "open"]
    /\ connecting' = FALSE /\ blocked' = FALSE /\ disconnecting' = FALSE
    /\ loop' = "opened"
    /\ UNCHANGED <<active, endpoint, noWait, backoff, ws, errors, session, accepting, aged, job,
                   todo, secondary>>

\* The session of this websocket; when the handshake cannot be built it
\* reports an error at once.
NewSession ==
    /\ loop = "opened"
    /\ session' = active /\ accepting' = [accepting EXCEPT ![active] = TRUE]
    /\ \E j \in {"none", "check"} : Become(Loop, j)
    /\ loop' = "run"
    /\ UNCHANGED <<active, disconnecting, connecting, blocked, endpoint, noWait, backoff, ws,
                   sock, errors, aged, todo, secondary>>

\* The websocket ends by itself, with an error or without one.
Ends ==
    /\ loop = "run" /\ Free(Loop) /\ sock[ws] \in {"new", "open"}
    /\ sock' = [sock EXCEPT ![ws] = "gone"]
    /\ \/ errors' = errors \cup {ws}
       \/ sock[ws] = "open" /\ UNCHANGED errors
    /\ UNCHANGED <<loop, active, disconnecting, connecting, blocked, endpoint, noWait, backoff,
                   ws, session, accepting, aged, job, todo, secondary>>

\* The error callback: it looks at the flag of whatever connection is being
\* made by then.
OnError ==
    /\ \E n \in errors : errors' = errors \ {n}
    /\ blocked' = (blocked \/ connecting)
    /\ UNCHANGED <<loop, active, disconnecting, connecting, endpoint, noWait, backoff, ws, sock,
                   session, accepting, aged, job, todo, secondary>>

\* Mutant: the loop goes on to the next connection with the streams open.
CleanUpNothing ==
    /\ loop = "run" /\ Free(Loop) /\ sock[ws] \in {"gone", "shut"}
    /\ sock' = [sock EXCEPT ![ws] = "shut"]
    /\ loop' = "rest"
    /\ UNCHANGED <<active, disconnecting, connecting, blocked, endpoint, noWait, backoff, ws,
                   errors, session, accepting, aged, job, todo, secondary>>

\* RunUntilClosed returns: the streams of the session are closed first.
CleanUp ==
    /\ loop = "run" /\ Free(Loop) /\ sock[ws] \in {"gone", "shut"}
    /\ sock' = [sock EXCEPT ![ws] = "shut"]
    /\ IF session = 0
       THEN loop' = "rest" /\ UNCHANGED job
       ELSE loop' = "closing" /\ Become(Loop, "all")
    /\ UNCHANGED <<active, disconnecting, connecting, blocked, endpoint, noWait, backoff, ws,
                   errors, session, accepting, aged, todo, secondary>>

CleanedUp ==
    /\ loop = "closing" /\ Free(Loop)
    /\ loop' = "rest"
    /\ UNCHANGED <<active, disconnecting, connecting, blocked, endpoint, noWait, backoff, ws,
                   sock, errors, session, accepting, aged, job, todo, secondary>>

\* IsRunForTimeComplete also weighs the activity of the users, so that the
\* answer may still be no when the time is over.
RunForComplete ==
    /\ loop = "rest" /\ aged
    /\ loop' = "returned"
    /\ UNCHANGED <<active, disconnecting, connecting, blocked, endpoint, noWait, backoff, ws,
                   sock, errors, session, accepting, aged, job, todo, secondary>>

Rest ==
    /\ loop = "rest"
    /\ \E noise \in Noise :
          LET doubled == (backoff + noise) * 2 IN
          IF doubled > MaxBackoff
          THEN backoff' = MaxBackoff /\ loop' = "returned"
          ELSE backoff' = doubled /\ loop' = "begin"
    /\ noWait' = FALSE
    /\ UNCHANGED <<active, disconnecting, connecting, blocked, endpoint, ws, sock, errors,
                   session, accepting, aged, job, todo, secondary>>

(***************************************************************************)
(* Who asks to disconnect                                                  *)
(***************************************************************************)

Age ==
    /\ ~aged /\ aged' = TRUE
    /\ UNCHANGED <<loop, active, disconnecting, connecting, blocked, endpoint, noWait, backoff,
                   ws, sock, errors, session, accepting, job, todo, secondary>>

OnRunForTimer ==
    /\ loop # "returned" /\ aged /\ Free(Timer)
    /\ Become(Timer, "flag")
    /\ UNCHANGED <<loop, active, disconnecting, connecting, blocked, endpoint, noWait, backoff,
                   ws, sock, errors, session, accepting, aged, todo, secondary>>

\* OnSessionError: an error of an old session is ignored.
CheckSession(t, mine) ==
    /\ job[t] = "check"
    /\ Become(t, IF mine = active THEN "flag" ELSE "none")
    /\ UNCHANGED <<loop, active, disconnecting, connecting, blocked, endpoint, noWait, backoff,
                   ws, sock, errors, session, accepting, aged, todo, secondary>>

\* Disconnect: only the first closes the streams ...
Disconnect(t) ==
    /\ job[t] = "flag"
    /\ disconnecting' = TRUE
    /\ Become(t, IF disconnecting \/ session = 0 THEN "shut" ELSE "all")
    /\ UNCHANGED <<loop, active, connecting, blocked, endpoint, noWait, backoff, ws, sock,
                   errors, session, accepting, aged, todo, secondary>>

\* ... everyone closes the websocket.
Shut(t) ==
    /\ job[t] = "shut"
    /\ sock' = IF ws = 0 THEN sock ELSE [sock EXCEPT ![ws] = "shut"]
    /\ Become(t, "none")
    /\ UNCHANGED <<loop, active, disconnecting, connecting, blocked, endpoint, noWait, backoff,
                   ws, errors, session, accepting, aged, todo, secondary>>

(***************************************************************************)
(* What the server may send besides the messages of its streams            *)
(***************************************************************************)

Hearing == loop = "run" /\ Free(Loop) /\ sock[ws] = "open" /\ session = active

OnHandshakeComplete ==
    /\ Hearing
    /\ backoff' = DefaultBackoff
    /\ UNCHANGED <<loop, active, disconnecting, connecting, blocked, endpoint, noWait, ws, sock,
                   errors, session, accepting, aged, job, todo, secondary>>

\* Refused by the server: the back off grows by what it asks for.  A message
\* that cannot be read or a failed challenge adds nothing.
OnRefused ==
    /\ Hearing
    /\ \E extra \in Extra \cup {0} : backoff' = backoff + extra
    /\ Become(Loop, "flag")
    /\ UNCHANGED <<loop, active, disconnecting, connecting, blocked, endpoint, noWait, ws, sock,
                   errors, session, accepting, aged, todo, secondary>>

OnSummonRequest(url) ==
    /\ Hearing /\ url \notin secondary
    /\ secondary' = secondary \cup {url}
    /\ UNCHANGED <<loop, active, disconnecting, connecting, blocked, endpoint, noWait, backoff,
                   ws, sock, errors, session, accepting, aged, job, todo>>

SecondaryEnds(url) ==
    /\ url \in secondary
    /\ secondary' = secondary \ {url}
    /\ UNCHANGED <<loop, active, disconnecting, connecting, blocked, endpoint, noWait, backoff,
                   ws, sock, errors, session, accepting, aged, job, todo>>

ConNext ==
    \/ Reset \/ Opened \/ NewSession \/ Ends \/ OnError
    \/ CleanUp \/ CleanedUp \/ RunForComplete \/ Rest
    \/ Age \/ OnRunForTimer
    \/ \E t \in Thread : Disconnect(t) \/ Shut(t)
    \/ OnHandshakeComplete \/ OnRefused
    \/ \E url \in Url : OnSummonRequest(url) \/ SecondaryEnds(url)
=============================================================================
