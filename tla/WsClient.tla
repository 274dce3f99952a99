------------------------------ MODULE WsClient ------------------------------
(***************************************************************************)
(* The threads of a WebSocket client: those that send, the one that drains *)
(* the send queue, the one that runs the socket, the one that reports an   *)
(* error and the one that closes, over the flags and the queue they share. *)
(*                                                                         *)
(* websocketimpl.py (Client).  The library under it and the network are    *)
(* external; a message weighs one unit of the queue's limit.               *)
(***************************************************************************)
EXTENDS Naturals, Sequences, FiniteSets

CONSTANTS
    Sender,     \* the threads that send messages
    MaxQueue,   \* c_MaxSendQueueSizeBytes, in messages
    MaxMsg      \* bound: how many messages are sent in all

ASSUME BoundAssumption == MaxQueue \in Nat /\ MaxMsg \in Nat

Service == {"run", "drain", "err", "closer"}
ASSUME SenderAssumption ==
    IsFiniteSet(Sender) /\ Sender \intersect Service = {} /\ 0 \notin Sender

Thread == Sender \union Service

Message == 1..MaxMsg
Poison == 0

VARIABLES
    requested,      \* hasClientRequestedClose
    isClosed,       \* isClosed
    wsRef,          \* self.Ws is not None
    fired,          \* hasFiredWsErrorCallback
    pendingFire,    \* hasPendingErrorCallbackFire
    deferredClose,  \* hasDeferredCloseCallbackDueToPendingErrorCallback
    queue,          \* SendQueue
    size,           \* SendQueueDataSizeBytes
    open,           \* SendQueueOpen
    sock,           \* the socket of the library: "none", "open", "closing", "gone"
    wire,           \* the messages the library has sent
    told,           \* the callbacks the client has made, in order
    pc,             \* where each thread is
    msg,            \* msg[t]: the message t has in hand
    next            \* the number of the next message

errorVars == <<fired, pendingFire, deferredClose>>
closeVars == <<requested, isClosed, wsRef>>
queueVars == <<queue, size, open>>
linkVars == <<sock, wire>>
vars == <<errorVars, closeVars, queueVars, linkVars, told, pc, msg, next>>

ClosePc == {"mark", "shut", "poison"}
Pc == ClosePc \union {"idle", "wait", "put", "error", "start", "checkClosed", "connect",
                      "running", "onClosed", "get", "send", "account", "finish",
                      "drop", "tell", "settle", "tellClose", "ask", "done"}

TypeOK ==
    /\ {requested, isClosed, wsRef, fired, pendingFire, deferredClose, open} \subseteq BOOLEAN
    /\ queue \in Seq(Message \union {Poison}) /\ size \in Nat
    /\ sock \in {"none", "open", "closing", "gone"}
    /\ wire \in Seq(Message) /\ told \in Seq({"open", "error", "close"})
    /\ pc \in [Thread -> Pc]
    /\ msg \in [Thread -> Message \union {Poison}]
    /\ next \in Nat \ {0}

Init ==
    /\ requested = FALSE /\ isClosed = FALSE /\ wsRef = TRUE
    /\ fired = FALSE /\ pendingFire = FALSE /\ deferredClose = FALSE
    /\ queue = <<>> /\ size = 0 /\ open = TRUE
    /\ sock = "none" /\ wire = <<>> /\ told = <<>>
    /\ pc = [t \in Thread |-> IF t = "run" THEN "start" ELSE IF t = "closer" THEN "ask" ELSE "idle"]
    /\ msg = [t \in Thread |-> Poison]
    /\ next = 1

Goto(t, to) == pc' = [pc EXCEPT ![t] = to]
At(t, from) == pc[t] = from

-----------------------------------------------------------------------------
(* Senders: SendWithOptCode.                                                 *)

(* A buffer whose offset and size do not fit raises. *)
Send(s) ==
    /\ At(s, "idle") /\ next <= MaxMsg
    /\ msg' = [msg EXCEPT ![s] = next] /\ next' = next + 1
    /\ \/ Goto(s, "wait")
       \/ Goto(s, "error")
    /\ UNCHANGED <<errorVars, closeVars, queueVars, linkVars, told>>

(* Mutant: the size is not added. *)
AdmitUncounted(s) ==
    /\ At(s, "wait")
    /\ ~open \/ size <= MaxQueue
    /\ Goto(s, IF open THEN "put" ELSE "idle")
    /\ UNCHANGED <<errorVars, closeVars, queueVars, linkVars, told, msg, next>>

(* Mutant: the queue is not tested again after the wait. *)
AdmitAfterClose(s) ==
    /\ At(s, "wait")
    /\ ~open \/ size <= MaxQueue
    /\ size' = size + 1
    /\ Goto(s, "put")
    /\ UNCHANGED <<errorVars, closeVars, queue, open, linkVars, told, msg, next>>

(* The loop gives the lock back while it sleeps; the test that ends it and the
   addition are under one hold of the lock.                                  *)
Admit(s) ==
    /\ At(s, "wait")
    /\ ~open \/ size <= MaxQueue
    /\ size' = IF open THEN size + 1 ELSE size
    /\ Goto(s, IF open THEN "put" ELSE "idle")
    /\ UNCHANGED <<errorVars, closeVars, queue, open, linkVars, told, msg, next>>

Put(s) ==
    /\ At(s, "put")
    /\ queue' = Append(queue, msg[s])
    /\ Goto(s, "idle")
    /\ UNCHANGED <<errorVars, closeVars, size, open, linkVars, told, msg, next>>

-----------------------------------------------------------------------------
(* handleWsError, on whatever thread met the exception, and the thread it
   starts.                                                                   *)

AfterError(t) == CASE t = "drain" -> "finish" [] t = "run" -> "onClosed" [] OTHER -> "idle"

HandleError(t) ==
    /\ At(t, "error")
    /\ IF requested \/ fired
       THEN UNCHANGED errorVars /\ Goto(t, AfterError(t))
       ELSE /\ fired' = TRUE /\ pendingFire' = TRUE
            /\ pc' = [pc EXCEPT ![t] = AfterError(t), !["err"] = "tell"]
            /\ UNCHANGED deferredClose
    /\ UNCHANGED <<closeVars, queueVars, linkVars, told, msg, next>>

TellError ==
    /\ At("err", "tell")
    /\ told' = Append(told, "error")
    /\ Goto("err", "settle")
    /\ UNCHANGED <<errorVars, closeVars, queueVars, linkVars, msg, next>>

(* Mutant: the deferred close is cleared and not called. *)
SettleForgets ==
    /\ At("err", "settle")
    /\ pendingFire' = FALSE /\ deferredClose' = FALSE
    /\ Goto("err", "mark")
    /\ UNCHANGED <<fired, closeVars, queueVars, linkVars, told, msg, next>>

Settle ==
    /\ At("err", "settle")
    /\ pendingFire' = FALSE /\ deferredClose' = FALSE
    /\ Goto("err", IF deferredClose THEN "tellClose" ELSE "mark")
    /\ UNCHANGED <<fired, closeVars, queueVars, linkVars, told, msg, next>>

TellDeferredClose ==
    /\ At("err", "tellClose")
    /\ told' = Append(told, "close")
    /\ Goto("err", "mark")
    /\ UNCHANGED <<errorVars, closeVars, queueVars, linkVars, msg, next>>

-----------------------------------------------------------------------------
(* _Close, on the threads that call it: the client's (Close), the one that
   reports an error, the one that drains the queue.                          *)

Close ==
    /\ At("closer", "ask")
    /\ requested' = TRUE
    /\ Goto("closer", "mark")
    /\ UNCHANGED <<errorVars, isClosed, wsRef, queueVars, linkVars, told, msg, next>>

MarkClosed(t) ==
    /\ At(t, "mark")
    /\ isClosed' = TRUE
    /\ Goto(t, "shut")
    /\ UNCHANGED <<errorVars, requested, wsRef, queueVars, linkVars, told, msg, next>>

ShutSocket(t) ==
    /\ At(t, "shut")
    /\ sock' = IF wsRef /\ sock = "open" THEN "closing" ELSE sock
    /\ Goto(t, "poison")
    /\ UNCHANGED <<errorVars, closeVars, queueVars, wire, told, msg, next>>

(* The empty buffer wakes the thread that drains the queue; self.Ws goes with it. *)
PutPoison(t) ==
    /\ At(t, "poison")
    /\ queue' = Append(queue, Poison) /\ wsRef' = FALSE
    /\ Goto(t, IF t = "drain" THEN "drop" ELSE "done")
    /\ UNCHANGED <<errorVars, requested, isClosed, size, open, linkVars, told, msg, next>>

-----------------------------------------------------------------------------
(* RunUntilClosed, and the callbacks of the library on its thread.           *)

StartDrain ==
    /\ At("run", "start")
    /\ pc' = [pc EXCEPT !["run"] = "checkClosed", !["drain"] = "checkClosed"]
    /\ UNCHANGED <<errorVars, closeVars, queueVars, linkVars, told, msg, next>>

CheckRun ==
    /\ At("run", "checkClosed")
    /\ Goto("run", IF isClosed \/ ~wsRef THEN "done" ELSE "connect")
    /\ UNCHANGED <<errorVars, closeVars, queueVars, linkVars, told, msg, next>>

(* run_forever connects, whether or not the app was closed in the meantime, and
   calls OnOpen; or it fails, which it reports with OnError.                 *)
Connect ==
    /\ At("run", "connect")
    /\ \/ sock' = "open" /\ told' = Append(told, "open") /\ Goto("run", "running")
       \/ sock' = "gone" /\ UNCHANGED told /\ Goto("run", "error")
    /\ UNCHANGED <<errorVars, closeVars, queueVars, wire, msg, next>>

(* The network drops the connection (with an error), the server closes it, or
   the library notices that the app was closed.                              *)
Lost ==
    /\ At("run", "running")
    /\ sock' = "gone"
    /\ \/ sock = "open" /\ Goto("run", "error")
       \/ Goto("run", "onClosed")
    /\ UNCHANGED <<errorVars, closeVars, queueVars, wire, told, msg, next>>

(* Mutant: the close callback is not deferred. *)
OnClosedAtOnce ==
    /\ At("run", "onClosed")
    /\ Goto("run", "tellClose")
    /\ UNCHANGED <<errorVars, closeVars, queueVars, linkVars, told, msg, next>>

OnClosed ==
    /\ At("run", "onClosed")
    /\ IF pendingFire
       THEN deferredClose' = TRUE /\ Goto("run", "done")
       ELSE UNCHANGED deferredClose /\ Goto("run", "tellClose")
    /\ UNCHANGED <<fired, pendingFire, closeVars, queueVars, linkVars, told, msg, next>>

TellClose ==
    /\ At("run", "tellClose")
    /\ told' = Append(told, "close")
    /\ Goto("run", "done")
    /\ UNCHANGED <<errorVars, closeVars, queueVars, linkVars, msg, next>>

-----------------------------------------------------------------------------
(* _SendQueueThread.                                                         *)

CheckDrain ==
    /\ At("drain", "checkClosed")
    /\ Goto("drain", IF isClosed THEN "finish" ELSE "get")
    /\ UNCHANGED <<errorVars, closeVars, queueVars, linkVars, told, msg, next>>

Get ==
    /\ At("drain", "get")
    /\ IF queue = <<>>
       THEN UNCHANGED <<queue, msg>> /\ Goto("drain", "checkClosed")   \* timeout
       ELSE /\ queue' = Tail(queue)
            /\ msg' = [msg EXCEPT !["drain"] = Head(queue)]
            /\ Goto("drain", IF Head(queue) = Poison THEN "finish" ELSE "send")
    /\ UNCHANGED <<errorVars, closeVars, size, open, linkVars, told, next>>

(* self.Ws is None or the library raises; a socket that is not open raises, one
   that is may.                                                              *)
Transmit ==
    /\ At("drain", "send")
    /\ \/ /\ wsRef /\ sock = "open"
          /\ wire' = Append(wire, msg["drain"])
          /\ Goto("drain", "account")
       \/ UNCHANGED wire /\ Goto("drain", "error")
    /\ UNCHANGED <<errorVars, closeVars, queueVars, sock, told, msg, next>>

Account ==
    /\ At("drain", "account")
    /\ size' = IF size > 0 THEN size - 1 ELSE 0
    /\ Goto("drain", "checkClosed")
    /\ msg' = [msg EXCEPT !["drain"] = Poison]
    /\ UNCHANGED <<errorVars, closeVars, queue, open, linkVars, told, next>>

(* Mutant: SendQueueOpen is not cleared, nor the size. *)
CloseQueueStaysOpen ==
    /\ At("drain", "finish")
    /\ msg' = [msg EXCEPT !["drain"] = Poison]
    /\ Goto("drain", "mark")
    /\ UNCHANGED <<errorVars, closeVars, queueVars, linkVars, told, next>>

CloseQueue ==
    /\ At("drain", "finish")
    /\ open' = FALSE /\ size' = 0
    /\ msg' = [msg EXCEPT !["drain"] = Poison]
    /\ Goto("drain", "mark")
    /\ UNCHANGED <<errorVars, closeVars, queue, linkVars, told, next>>

(* Mutant: waits for the queue to be empty. *)
DropQueueJoins ==
    /\ At("drain", "drop") /\ queue = <<>>
    /\ Goto("drain", "done")
    /\ UNCHANGED <<errorVars, closeVars, queueVars, linkVars, told, msg, next>>

DropQueue ==
    /\ At("drain", "drop")
    /\ queue' = <<>>
    /\ Goto("drain", "done")
    /\ UNCHANGED <<errorVars, closeVars, size, open, linkVars, told, msg, next>>

-----------------------------------------------------------------------------
Closer == {"closer", "err", "drain"}

SendStep(s) == Send(s) \/ Admit(s) \/ Put(s) \/ HandleError(s)
CloseStep(t) == MarkClosed(t) \/ ShutSocket(t) \/ PutPoison(t)
RunStep == StartDrain \/ CheckRun \/ Connect \/ Lost \/ OnClosed \/ TellClose \/ HandleError("run")
DrainStep == CheckDrain \/ Get \/ Transmit \/ Account \/ CloseQueue \/ DropQueue
                \/ HandleError("drain")
ErrorStep == TellError \/ Settle \/ TellDeferredClose

Next ==
    \/ \E s \in Sender : SendStep(s)
    \/ \E t \in Closer : CloseStep(t)
    \/ Close \/ RunStep \/ DrainStep \/ ErrorStep

Spec == Init /\ [][Next]_vars

(* Threads run; a read of the socket ends when the app was closed, a write ends
   with its timeout. Nobody has to close or to send, and a network may stay up.*)
FairSpec ==
    /\ Spec
    /\ \A s \in Sender : WF_vars(Admit(s) \/ Put(s) \/ HandleError(s))
    /\ \A t \in Closer : WF_vars(CloseStep(t))
    /\ WF_vars(StartDrain \/ CheckRun \/ Connect \/ OnClosed \/ TellClose
                 \/ HandleError("run") \/ (Lost /\ sock = "closing"))
    /\ WF_vars(DrainStep) /\ WF_vars(ErrorStep)

-----------------------------------------------------------------------------
(* Properties.                                                               *)

(* What a queue holds but for the empty buffers. *)
Messages(q) ==
    LET kept[i \in 0..Len(q)] ==
            IF i = 0 THEN <<>>
            ELSE IF q[i] = Poison THEN kept[i - 1] ELSE Append(kept[i - 1], q[i])
    IN  kept[Len(q)]

Drained == {"mark", "shut", "poison", "drop", "done"}

(* The limit that keeps a fast producer from filling the memory counts every
   message once: those queued, the one being sent and those of senders that were
   let in and have not queued theirs yet. It holds across the two locks and the
   queue, which are not taken together.                                      *)
SizeCounts ==
    open => size = Len(Messages(queue)) + Cardinality({s \in Sender : At(s, "put")})
                    + (IF pc["drain"] \in {"send", "account", "error"}
                            \/ (At("drain", "finish") /\ msg["drain"] # Poison) THEN 1 ELSE 0)

(* The last lines of _SendQueueThread clear the queue so that nothing is leaked.
   A sender that was let in before may still queue its message behind the
   thread: never more than one each, and none later.                         *)
LeakBounded ==
    At("drain", "done") =>
        Len(Messages(queue)) + Cardinality({s \in Sender : At(s, "put")}) <= Cardinality(Sender)

(* What the client promises (WsService), with what it keeps for later as the
   backlog, the flags of the error callback and the callbacks as made.       *)
InHand == IF At("drain", "send") \/ (pc["drain"] \in {"error", "finish"} /\ msg["drain"] # Poison)
          THEN <<msg["drain"]>> ELSE <<>>
Promise == INSTANCE WsService WITH
    backlog <- InHand \o Messages(queue),
    dead <- pc["drain"] \in Drained \union {"error", "finish"},
    error <- IF ~fired THEN "none" ELSE IF \E i \in 1..Len(told) : told[i] = "error"
             THEN "told" ELSE "noticed",
    closed <- IF \E i \in 1..Len(told) : told[i] = "close" THEN "told"
              ELSE IF "tellClose" \in {pc["run"], pc["err"]} THEN "due" ELSE "no"
KeepsPromise == Promise!Spec

(* A sender held back by a full queue is let go, when room is made or when the
   queue closes (the condition of the loop in SendWithOptCode).              *)
SendReturns == \A s \in Sender : At(s, "wait") ~> At(s, "idle")

(* A close or an error ends the thread that drains the queue, however many
   messages are in front of the empty buffer that wakes it.                  *)
CloseEndsDrain == isClosed ~> (pc["drain"] \in {"idle", "done"})

(* The close callback is not lost when it is put off for an error: a socket that
   is gone is told.                                                          *)
CloseTold == (sock = "gone") ~> (\E i \in 1..Len(told) : told[i] = "close")
=============================================================================
