---------------------------- MODULE HaConnection ----------------------------
(***************************************************************************)
(* The WebSocket connection to Home Assistant: requests of several threads *)
(* matched to their answers over a socket that is closed and opened again. *)
(*                                                                         *)
(* ha/connection.py (Connection), and of websocketimpl.py (Client) what    *)
(* the connection sees: a queue of messages that is dropped with the       *)
(* socket.  Home Assistant and the threads that make requests are          *)
(* external.                                                               *)
(***************************************************************************)
EXTENDS Naturals, Sequences, FiniteSets

CONSTANTS
    Caller,     \* the threads that send messages
    Socket,     \* ConnectionThread, on which the callbacks of the socket run
    None,       \* an absent value
    MaxId,      \* bound: callers start no call that would take an id above it
    MaxQueue,   \* c_MaxSendQueueSizeBytes, in messages
    MaxDrop     \* bound: the connections numbered up to it may fail

ASSUME SenderAssumption == Socket \notin Caller /\ None \notin Caller \union {Socket}
ASSUME BoundAssumption == MaxId \in Nat /\ MaxQueue \in Nat /\ MaxDrop \in Nat

Sender == Caller \union {Socket}

CallerJob == {"ask",        \* waitForResponse=True
              "tell",       \* waitForResponse=False
              "restart"}    \* RestartHa
Job == CallerJob \union {"auth", "subscribe"}

Message == [from : Sender, job : Job, id : Nat, con : Nat]

VARIABLES
    con,        \* where ConnectionThread is
    conId,      \* ConId, the number of the last connection
    ws,         \* self.Ws, by the number of its connection; 0 is None
    connected,  \* IsConnected
    msgId,      \* MsgId
    idLock,     \* who holds MsgIdLock
    pending,    \* PendingContexts: the caller whose context is under each id
    deferred,   \* IssueRestartOnConnect
    link,       \* the socket of connection conId and the login on it
    out,        \* messages queued for or travelling to Home Assistant
    answers,    \* messages Home Assistant has taken and will answer
    pc,         \* pc[p]: where p is in SendMsg, RestartHa or _OnConnected
    call        \* call[p]: the local variables of SendMsg

threadVars == <<con, conId, ws>>
idVars == <<msgId, idLock>>
linkVars == <<link, out, answers>>
callVars == <<pc, call>>
vars == <<threadVars, connected, idVars, pending, deferred, linkVars, callVars>>

(* ConnectionThread: the three writes at the top of its loop, the sleep, the
   token, the socket, and RunUntilClosed.                                    *)
ConPc == {"clearFlag", "clearWs", "resetId", "sleep", "token", "connect", "run"}

SendPc == {"check", "capture", "number", "take", "bump", "register", "put", "wait", "forget"}
RestartPc == {"restartCheck", "restartClear", "restartDefer"}
Pc == {"idle", "onConnected", "raised"} \union SendPc \union RestartPc

(* "greeted": auth_required is on its way; "auth": Home Assistant waits for the
   token; "accepted", "refused": auth_ok, auth_invalid are on their way.     *)
Link == {"closed", "greeted", "auth", "accepted", "refused", "authed"}

Call == [job : Job, id : Nat, con : Nat, got : Message \union {None}]
NoCall == [job |-> "tell", id |-> 0, con |-> 0, got |-> None]

TypeOK ==
    /\ con \in ConPc
    /\ conId \in Nat /\ ws \in Nat
    /\ msgId \in Nat \ {0}     \* 0 is the id of a message without one
    /\ connected \in BOOLEAN /\ deferred \in BOOLEAN
    /\ idLock \in Sender \union {None}
    /\ DOMAIN pending \subseteq Nat
    /\ pending \in [DOMAIN pending -> Sender]
    /\ link \in Link
    /\ out \in Seq(Message)
    /\ answers \subseteq Message
    /\ pc \in [Sender -> Pc]
    /\ call \in [Sender -> Call]

Init ==
    /\ con = "clearFlag"
    /\ conId = 0 /\ ws = 0
    /\ connected = FALSE
    /\ msgId = 1 /\ idLock = None
    /\ pending = [i \in {} |-> None]
    /\ deferred = FALSE
    /\ link = "closed" /\ out = <<>> /\ answers = {}
    /\ pc = [p \in Sender |-> "idle"]
    /\ call = [p \in Sender |-> NoCall]

-----------------------------------------------------------------------------
(* SendMsg, on the thread of p.                                              *)

Goto(p, l) == pc' = [pc EXCEPT ![p] = l]

(* Return, with the local variables of the call forgotten. *)
Return(p) ==
    /\ Goto(p, "idle")
    /\ call' = [call EXCEPT ![p] = NoCall]

Calling == {p \in Caller : pc[p] # "idle"}

(* A thread calls SendAndReceiveMsg, SendMsg or RestartHa. *)
Start(p) ==
    /\ pc[p] = "idle"
    /\ msgId + Cardinality(Calling) <= MaxId
    /\ \E j \in CallerJob :
          /\ call' = [call EXCEPT ![p] = [NoCall EXCEPT !.job = j]]
          /\ Goto(p, IF j = "restart" THEN "restartCheck" ELSE "check")
    /\ UNCHANGED <<threadVars, connected, idVars, pending, deferred, linkVars>>

(* The first look at IsConnected; without it the message fails. *)
CheckConnected(p) ==
    /\ pc[p] = "check"
    /\ \/ connected /\ Goto(p, "capture") /\ UNCHANGED call
       \/ ~connected /\ Return(p)
    /\ UNCHANGED <<threadVars, connected, idVars, pending, deferred, linkVars>>

(* ws = self.Ws *)
CaptureSocket(p) ==
    /\ pc[p] = "capture"
    /\ \/ /\ ws # 0
          /\ call' = [call EXCEPT ![p].con = ws]
          /\ Goto(p, "number")
       \/ ws = 0 /\ Return(p)
    /\ UNCHANGED <<threadVars, connected, idVars, pending, deferred, linkVars>>

Numbered(p) == Goto(p, IF call[p].job = "ask" THEN "register" ELSE "put")

(* The second look at IsConnected: a message gets an id only after the login. *)
CheckNumber(p) ==
    /\ pc[p] = "number"
    /\ IF connected THEN Goto(p, "take") ELSE Numbered(p)
    /\ UNCHANGED <<threadVars, connected, idVars, pending, deferred, linkVars, call>>

(* Mutant: the id is taken without the lock. *)
TakeIdUnlocked(p) ==
    /\ pc[p] = "take"
    /\ idLock' = p
    /\ call' = [call EXCEPT ![p].id = msgId]
    /\ Goto(p, "bump")
    /\ UNCHANGED <<threadVars, connected, msgId, pending, deferred, linkVars>>

(* with self.MsgIdLock: msgId = self.MsgId *)
TakeId(p) ==
    /\ pc[p] = "take"
    /\ idLock = None
    /\ idLock' = p
    /\ call' = [call EXCEPT ![p].id = msgId]
    /\ Goto(p, "bump")
    /\ UNCHANGED <<threadVars, connected, msgId, pending, deferred, linkVars>>

(* self.MsgId += 1. ConnectionThread resets MsgId without the lock: its write
   falls before the load, or between the load and the store and is lost.     *)
BumpId(p) ==
    /\ pc[p] = "bump"
    /\ msgId' \in {msgId + 1, call[p].id + 1}
    /\ idLock' = None
    /\ Numbered(p)
    /\ UNCHANGED <<threadVars, connected, pending, deferred, linkVars, call>>

(* self.PendingContexts[msgId] = pendingContext, whatever was there. *)
Register(p) ==
    /\ pc[p] = "register"
    /\ pending' = [i \in DOMAIN pending \union {call[p].id} |->
                      IF i = call[p].id THEN p ELSE pending[i]]
    /\ Goto(p, "put")
    /\ UNCHANGED <<threadVars, connected, idVars, deferred, linkVars, call>>

(* The socket a call captured takes messages: from the moment it exists. *)
Alive(p) == call[p].con = conId /\ (con = "connect" \/ link # "closed")

MessageOf(p) ==
    [from |-> p, job |-> call[p].job, id |-> call[p].id, con |-> call[p].con]

(* ws.Send: a full queue holds the sender back; a closed socket, or the socket of
   an earlier connection, drops the message without a word.                  *)
Put(p) ==
    /\ pc[p] = "put"
    /\ \/ ~Alive(p) /\ UNCHANGED out
       \/ Alive(p) /\ Len(out) <= MaxQueue /\ out' = Append(out, MessageOf(p))
    /\ \/ call[p].job = "ask" /\ Goto(p, "wait") /\ UNCHANGED call
       \/ call[p].job # "ask" /\ Return(p)
    /\ UNCHANGED <<threadVars, connected, idVars, pending, deferred, link, answers>>

(* pendingContext.Event.wait(timeout), and the Response it was set with. *)
Wake(p) ==
    /\ pc[p] = "wait"
    /\ call[p].got # None
    /\ Goto(p, "forget")
    /\ UNCHANGED <<threadVars, connected, idVars, pending, deferred, linkVars, call>>

(* Mutant: the wait has no timeout. *)
WaitForever(p) == Wake(p)

TimeOut(p) ==
    /\ pc[p] = "wait"
    /\ call[p].got = None
    /\ Goto(p, "forget")
    /\ UNCHANGED <<threadVars, connected, idVars, pending, deferred, linkVars, call>>

(* Mutant: the context is removed only when an answer came. *)
ForgetAnswered(p) ==
    /\ pc[p] = "forget"
    /\ pending' = IF call[p].got = None THEN pending
                  ELSE [i \in DOMAIN pending \ {call[p].id} |-> pending[i]]
    /\ Return(p)
    /\ UNCHANGED <<threadVars, connected, idVars, deferred, linkVars>>

(* finally: del self.PendingContexts[msgId]. It removes the context under the id,
   whosever it is; without one the KeyError replaces what was to be returned. *)
Forget(p) ==
    /\ pc[p] = "forget"
    /\ \/ /\ call[p].id \in DOMAIN pending
          /\ pending' = [i \in DOMAIN pending \ {call[p].id} |-> pending[i]]
          /\ Return(p)
       \/ /\ call[p].id \notin DOMAIN pending
          /\ Goto(p, "raised")
          /\ UNCHANGED <<pending, call>>
    /\ UNCHANGED <<threadVars, connected, idVars, deferred, linkVars>>

(* The caller's own handler of exceptions. *)
Recover(p) ==
    /\ pc[p] = "raised"
    /\ Return(p)
    /\ UNCHANGED <<threadVars, connected, idVars, pending, deferred, linkVars>>

SendMsg(p) ==
    \/ CheckConnected(p) \/ CaptureSocket(p) \/ CheckNumber(p) \/ TakeId(p) \/ BumpId(p)
    \/ Register(p) \/ Put(p) \/ Wake(p) \/ TimeOut(p) \/ Forget(p) \/ Recover(p)

-----------------------------------------------------------------------------
(* RestartHa, on the thread of p.                                            *)

RestartCheck(p) ==
    /\ pc[p] = "restartCheck"
    /\ Goto(p, IF connected THEN "restartClear" ELSE "restartDefer")
    /\ UNCHANGED <<threadVars, connected, idVars, pending, deferred, linkVars, call>>

RestartClear(p) ==
    /\ pc[p] = "restartClear"
    /\ deferred' = FALSE
    /\ Goto(p, "check")
    /\ UNCHANGED <<threadVars, connected, idVars, pending, linkVars, call>>

RestartDefer(p) ==
    /\ pc[p] = "restartDefer"
    /\ deferred' = TRUE
    /\ Return(p)
    /\ UNCHANGED <<threadVars, connected, idVars, pending, linkVars>>

RestartHa(p) == RestartCheck(p) \/ RestartClear(p) \/ RestartDefer(p)

-----------------------------------------------------------------------------
(* ConnectionThread.                                                         *)

(* Mutant: IsConnected survives the connection. *)
KeepFlag ==
    /\ con = "clearFlag"
    /\ con' = "clearWs"
    /\ UNCHANGED <<conId, ws, connected, idVars, pending, deferred, linkVars, callVars>>

ClearFlag ==
    /\ con = "clearFlag"
    /\ connected' = FALSE
    /\ con' = "clearWs"
    /\ UNCHANGED <<conId, ws, idVars, pending, deferred, linkVars, callVars>>

ClearWs ==
    /\ con = "clearWs"
    /\ ws' = 0
    /\ con' = "resetId"
    /\ UNCHANGED <<conId, connected, idVars, pending, deferred, linkVars, callVars>>

ResetId ==
    /\ con = "resetId"
    /\ msgId' = 1
    /\ con' = "sleep"
    /\ UNCHANGED <<conId, ws, connected, idLock, pending, deferred, linkVars, callVars>>

(* The sleep, 5 to 60 seconds, and ConId. *)
Sleep ==
    /\ con = "sleep"
    /\ conId' = conId + 1
    /\ con' = "token"
    /\ UNCHANGED <<ws, connected, idVars, pending, deferred, linkVars, callVars>>

(* What the environment may do to a connection, finitely often. *)
MayFail == conId <= MaxDrop

(* No access token: sleep and start over. Otherwise self.Ws = Client(...). *)
GetToken ==
    /\ con = "token"
    /\ \/ MayFail /\ con' = "clearFlag" /\ UNCHANGED ws
       \/ con' = "connect" /\ ws' = conId
    /\ UNCHANGED <<conId, connected, idVars, pending, deferred, linkVars, callVars>>

(* RunUntilClosed begins: the socket opens or the attempt fails. A message that
   is queued already may be sent too early, and that error closes the socket. *)
Connect ==
    /\ con = "connect"
    /\ \/ link' = "greeted" /\ con' = "run" /\ UNCHANGED out
       \/ /\ MayFail \/ out # <<>>
          /\ out' = <<>> /\ con' = "clearFlag" /\ UNCHANGED link
    /\ UNCHANGED <<conId, ws, connected, idVars, pending, deferred, answers, callVars>>

(* RunUntilClosed returns once the socket is closed and no callback runs. *)
RunEnds ==
    /\ con = "run"
    /\ link = "closed"
    /\ pc[Socket] = "idle"
    /\ con' = "clearFlag"
    /\ UNCHANGED <<conId, ws, connected, idVars, pending, deferred, linkVars, callVars>>

(* What is queued or on its way is lost with the socket. *)
CloseLink == link' = "closed" /\ out' = <<>> /\ answers' = {}

-----------------------------------------------------------------------------
(* _OnData, on ConnectionThread: one message at a time.                      *)

Receives == con = "run" /\ pc[Socket] = "idle"

(* auth_required: SendMsg(auth, ignoreConnectionState=True). *)
OnAuthRequired ==
    /\ Receives
    /\ link = "greeted"
    /\ ~connected
    /\ link' = "auth"
    /\ call' = [call EXCEPT ![Socket] = [NoCall EXCEPT !.job = "auth"]]
    /\ Goto(Socket, "capture")
    /\ UNCHANGED <<threadVars, connected, idVars, pending, deferred, out, answers>>

OnAuthOk ==
    /\ Receives
    /\ link = "accepted"
    /\ ~connected
    /\ link' = "authed"
    /\ connected' = TRUE
    /\ Goto(Socket, "onConnected")
    /\ UNCHANGED <<threadVars, idVars, pending, deferred, out, answers, call>>

(* Mutant: ids start again in _OnConnected, when others may have taken one. *)
OnConnectedResetsId ==
    /\ pc[Socket] = "onConnected"
    /\ msgId' = 1
    /\ call' = [call EXCEPT ![Socket] = [NoCall EXCEPT !.job = IF deferred THEN "restart" ELSE "subscribe"]]
    /\ Goto(Socket, IF deferred THEN "restartCheck" ELSE "check")
    /\ UNCHANGED <<threadVars, connected, idLock, pending, deferred, linkVars>>

(* Mutant: the deferred restart is not looked at. *)
OnConnectedSubscribes ==
    /\ pc[Socket] = "onConnected"
    /\ call' = [call EXCEPT ![Socket] = [NoCall EXCEPT !.job = "subscribe"]]
    /\ Goto(Socket, "check")
    /\ UNCHANGED <<threadVars, connected, idVars, pending, deferred, linkVars>>

(* _OnConnected: the deferred restart, or else the subscription to events. *)
OnConnected ==
    /\ pc[Socket] = "onConnected"
    /\ IF deferred
       THEN /\ call' = [call EXCEPT ![Socket] = [NoCall EXCEPT !.job = "restart"]]
            /\ Goto(Socket, "restartCheck")
       ELSE /\ call' = [call EXCEPT ![Socket] = [NoCall EXCEPT !.job = "subscribe"]]
            /\ Goto(Socket, "check")
    /\ UNCHANGED <<threadVars, connected, idVars, pending, deferred, linkVars>>

(* auth_invalid: self.Close(). *)
OnAuthInvalid ==
    /\ Receives
    /\ link = "refused"
    /\ ~connected
    /\ CloseLink
    /\ UNCHANGED <<threadVars, connected, idVars, pending, deferred, callVars>>

(* The caller whose Response an answer with this id becomes, unless it has been
   read already.                                                             *)
Awaits(id) == {p \in Sender : /\ id \in DOMAIN pending
                              /\ p = pending[id]
                              /\ pc[p] \in {"put", "wait"}}

(* A result: it goes to the context under its id, if there is one. *)
OnResult(m) ==
    /\ Receives
    /\ link = "authed"
    /\ connected
    /\ answers' = answers \ {m}
    /\ call' = [p \in Sender |-> IF p \in Awaits(m.id)
                                 THEN [call[p] EXCEPT !.got = m] ELSE call[p]]
    /\ UNCHANGED <<threadVars, connected, idVars, pending, deferred, link, out, pc>>

ConnectionThread ==
    \/ ClearFlag \/ ClearWs \/ ResetId \/ Sleep \/ GetToken \/ Connect \/ RunEnds
    \/ OnAuthRequired \/ OnAuthOk \/ OnConnected \/ OnAuthInvalid
    \/ \E m \in answers : OnResult(m)
    \/ SendMsg(Socket) \/ RestartHa(Socket)

-----------------------------------------------------------------------------
(* Home Assistant and the network (external).                                *)

(* The first message of a connection must be the token; afterwards a message
   without an id gets no answer that names one, the others are answered in any
   order.                                                                    *)
HaReceive ==
    /\ out # <<>>
    /\ \/ /\ link = "auth"
          /\ link' = IF Head(out).job = "auth" THEN "accepted" ELSE "refused"
          /\ UNCHANGED answers
       \/ /\ link = "auth" /\ MayFail
          /\ link' = "refused"
          /\ UNCHANGED answers
       \/ /\ link \in {"accepted", "authed"}
          /\ answers' = IF Head(out).id = 0 THEN answers ELSE answers \union {Head(out)}
          /\ UNCHANGED link
    /\ out' = Tail(out)
    /\ UNCHANGED <<threadVars, connected, idVars, pending, deferred, callVars>>

(* The connection drops, or Home Assistant restarts. *)
Drop ==
    /\ link # "closed"
    /\ MayFail
    /\ CloseLink
    /\ UNCHANGED <<threadVars, connected, idVars, pending, deferred, callVars>>

Next ==
    \/ ConnectionThread
    \/ \E p \in Caller : Start(p) \/ SendMsg(p) \/ RestartHa(p)
    \/ HaReceive
    \/ Drop

Spec == Init /\ [][Next]_vars

(* Every thread that can take a step takes it in the end (sleeps and waits have
   a timeout, the lock is held for two statements) and Home Assistant reads
   what it is sent. Nothing makes it answer.                                 *)
Fairness ==
    /\ WF_vars(ConnectionThread)
    /\ \A p \in Caller : WF_vars(SendMsg(p) \/ RestartHa(p))
    /\ WF_vars(HaReceive)

FairSpec == Spec /\ Fairness

-----------------------------------------------------------------------------
(* Properties.                                                               *)

(* An answer is matched to a request by its id alone, ids start again with each
   connection, and a context survives the connection it was made on. A caller
   gets the answer to its own request, unless it is still waiting for one it
   sent on an earlier connection: on one connection answers never cross.     *)
AnswersMatch ==
    \A p \in Caller : LET m == call[p].got IN
        m # None => (m.from = p /\ m.con = call[p].con) \/ m.con > call[p].con

(* "Returns the response dict, or None on failure/timeout" (SendAndReceiveMsg):
   a call returns, it does not raise.                                        *)
ReturnsOrNone == \A p \in Caller : pc[p] # "raised"

(* Contexts do not pile up: each entry of PendingContexts belongs to a call that
   is still under way and has that id, however calls, timeouts and connections
   overlap.                                                                  *)
NoLeakedContext ==
    \A i \in DOMAIN pending :
        /\ call[pending[i]].id = i /\ call[pending[i]].job = "ask"
        /\ pc[pending[i]] \in {"put", "wait", "forget"}

(* The calls that have an id for the current connection and have not sent yet. *)
AboutToSend == {p \in Sender : /\ pc[p] \in {"bump", "register", "put"}
                               /\ call[p].con = conId /\ call[p].id # 0}

(* Home Assistant identifies a request by its id, so on one connection no two
   may share one, although MsgId is reset without its lock and a thread may
   hold an id from before the reset: the messages that are queued, those that
   await an answer and those about to be sent all have different ids.        *)
IdsUnique ==
    con \in {"connect", "run"} =>
        /\ \A j, k \in DOMAIN out : j # k /\ out[j].id # 0 => out[j].id # out[k].id
        /\ \A m \in answers : \A k \in DOMAIN out : m.id # out[k].id
        /\ \A m, n \in answers : m # n => m.id # n.id
        /\ \A p \in AboutToSend :
              /\ \A m \in answers : call[p].id # m.id
              /\ \A k \in DOMAIN out : call[p].id # out[k].id
              /\ \A q \in AboutToSend : p # q => call[p].id # call[q].id

(* "If set, when the websocket is connected, we should send the HA restart
   command" (IssueRestartOnConnect): a connection that is up and has nothing
   left to do in _OnConnected has no deferred restart waiting.               *)
NoRestartForgotten ==
    Receives /\ connected /\ link = "authed" => ~deferred

(* Every call returns, whatever becomes of the connection it was made on. *)
CallsReturn == \A p \in Caller : pc[p] # "idle" ~> pc[p] = "idle"

(* A connection that fails is replaced: once the failures end, the login is
   accepted and the connection stays.                                        *)
Reconnects == <>[](connected /\ link = "authed")

(* A restart that was deferred before the connection is attempted again is
   taken up by the connection that follows.                                  *)
DeferredRestartTaken == deferred /\ con = "sleep" ~> ~deferred

=============================================================================
