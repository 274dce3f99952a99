------------------------ MODULE HaConnection_proof ------------------------
(***************************************************************************)
(* Theorems of HaConnection, for any number of threads and connections and *)
(* for every bound.                                                        *)
(***************************************************************************)
EXTENDS HaConnection, TLAPS

-----------------------------------------------------------------------------
(* The queue of messages.                                                    *)

LEMMA AppendElements ==
    ASSUME NEW S, NEW s \in Seq(S), NEW e \in S
    PROVE  /\ Append(s, e) \in Seq(S)
           /\ DOMAIN Append(s, e) = DOMAIN s \union {Len(s) + 1}
           /\ Len(s) + 1 \notin DOMAIN s
           /\ Append(s, e)[Len(s) + 1] = e
           /\ \A k \in DOMAIN s : Append(s, e)[k] = s[k]
OBVIOUS

LEMMA TailElements ==
    ASSUME NEW S, NEW s \in Seq(S), s # <<>>
    PROVE  /\ Tail(s) \in Seq(S)
           /\ 1 \in DOMAIN s /\ Head(s) = s[1] /\ Head(s) \in S
           /\ \A k \in DOMAIN Tail(s) : /\ k \in Nat /\ k + 1 \in DOMAIN s /\ k + 1 # 1
                                        /\ Tail(s)[k] = s[k + 1]
OBVIOUS

LEMMA EmptyElements ==
    ASSUME NEW S
    PROVE  <<>> \in Seq(S) /\ DOMAIN <<>> = {}
OBVIOUS

-----------------------------------------------------------------------------
(* Type correctness.                                                         *)

USE DEF Sender

LEMMA InitTyped == Init => TypeOK
<1>1. NoCall \in Call
  BY DEF NoCall, Call, Job, CallerJob
<1>2. <<>> \in Seq(Message)
  BY EmptyElements
<1>3. ASSUME Init PROVE DOMAIN pending = {} /\ pending \in [DOMAIN pending -> Sender]
  BY <1>3 DEF Init
<1>4. ASSUME Init PROVE pc \in [Sender -> Pc] /\ call \in [Sender -> Call]
  BY <1>1, <1>4 DEF Init, Pc
<1>5. ASSUME Init PROVE con \in ConPc /\ link \in Link /\ out \in Seq(Message)
  BY <1>2, <1>5 DEF Init, ConPc, Link
<1>6. ASSUME Init
      PROVE  conId \in Nat /\ ws \in Nat /\ msgId \in Nat \ {0} /\ answers \subseteq Message
  BY <1>6 DEF Init
<1>7. ASSUME Init
      PROVE  connected \in BOOLEAN /\ deferred \in BOOLEAN /\ idLock \in Sender \union {None}
  BY <1>7, Zenon DEF Init
<1> QED
  BY <1>3, <1>4, <1>5, <1>6, <1>7 DEF TypeOK


LEMMA NextTyped == TypeOK /\ [Next]_vars => TypeOK'
<1> SUFFICES ASSUME TypeOK, [Next]_vars
             PROVE  TypeOK'
  OBVIOUS
<1>1. ASSUME NEW p \in Caller, Start(p) PROVE TypeOK'
  <2>1. PICK j \in CallerJob :
          /\ call' = [call EXCEPT ![p] = [NoCall EXCEPT !.job = j]]
          /\ Goto(p, IF j = "restart" THEN "restartCheck" ELSE "check")
    BY <1>1 DEF Start
  <2>2. [NoCall EXCEPT !.job = j] \in Call
    BY DEF NoCall, Call, Job, CallerJob
  <2>3. call' \in [Sender -> Call] /\ pc' \in [Sender -> Pc]
    BY <2>1, <2>2 DEF Goto, TypeOK, Pc, SendPc, RestartPc
  <2>4. UNCHANGED <<threadVars, connected, idVars, pending, deferred, linkVars>>
    BY <1>1 DEF Start
  <2> QED
    BY <2>3, <2>4 DEF TypeOK, threadVars, idVars, linkVars
<1>2. ASSUME NEW p \in Sender, CheckConnected(p) PROVE TypeOK'
  <2>1. NoCall \in Call
    BY DEF NoCall, Call, Job, CallerJob
  <2> QED
    BY <1>2, <2>1 DEF CheckConnected, Goto, Return, TypeOK, threadVars, idVars, linkVars, callVars, Pc, SendPc, RestartPc
<1>3. ASSUME NEW p \in Sender, CaptureSocket(p) PROVE TypeOK'
  <2>1. NoCall \in Call
    BY DEF NoCall, Call, Job, CallerJob
  <2>2. [call EXCEPT ![p].con = ws] \in [Sender -> Call]
    BY DEF TypeOK, Call
  <2>3. call' \in [Sender -> Call]
    BY <1>3, <2>1, <2>2 DEF CaptureSocket, Return, TypeOK
  <2>5. pc' \in [Sender -> Pc]
    BY <1>3 DEF CaptureSocket, Goto, Return, TypeOK, Pc, SendPc
  <2>4. UNCHANGED <<threadVars, connected, idVars, pending, deferred, linkVars>>
    BY <1>3 DEF CaptureSocket
  <2> QED
    BY <2>3, <2>4, <2>5 DEF TypeOK, threadVars, idVars, linkVars
<1>4. ASSUME NEW p \in Sender, CheckNumber(p) PROVE TypeOK'
  BY <1>4 DEF CheckNumber, Numbered, Goto, TypeOK, threadVars, idVars, linkVars, callVars, Pc, SendPc, RestartPc
<1>5. ASSUME NEW p \in Sender, TakeId(p) PROVE TypeOK'
  <2>1. [call EXCEPT ![p].id = msgId] \in [Sender -> Call]
    BY DEF TypeOK, Call
  <2> QED
    BY <1>5, <2>1 DEF TakeId, Goto, TypeOK, threadVars, idVars, linkVars, callVars, Pc, SendPc, RestartPc
<1>6. ASSUME NEW p \in Sender, BumpId(p) PROVE TypeOK'
  <2>1. call[p].id \in Nat
    BY DEF TypeOK, Call
  <2>2. msgId' \in Nat \ {0}
    BY <1>6, <2>1 DEF BumpId, TypeOK
  <2> QED
    BY <1>6, <2>2 DEF BumpId, Numbered, Goto, TypeOK, threadVars, idVars, linkVars, callVars, Pc, SendPc, RestartPc
<1>7. ASSUME NEW p \in Sender, Register(p) PROVE TypeOK'
  <2>1. call[p].id \in Nat
    BY DEF TypeOK, Call
  <2> QED
    BY <1>7, <2>1 DEF Register, Goto, TypeOK, threadVars, idVars, linkVars, callVars, Pc, SendPc, RestartPc
<1>8. ASSUME NEW p \in Sender, Put(p) PROVE TypeOK'
  <2>1. NoCall \in Call
    BY DEF NoCall, Call, Job, CallerJob
  <2>2. MessageOf(p) \in Message
    BY DEF TypeOK, Call, MessageOf, Message
  <2>3. Append(out, MessageOf(p)) \in Seq(Message)
    BY <2>2 DEF TypeOK
  <2>4. call' \in [Sender -> Call] /\ pc' \in [Sender -> Pc]
    BY <1>8, <2>1 DEF Put, Goto, Return, TypeOK, Pc, SendPc
  <2>5. out' \in Seq(Message)
    BY <1>8, <2>3 DEF Put, TypeOK
  <2>6. UNCHANGED <<threadVars, connected, idVars, pending, deferred, link, answers>>
    BY <1>8 DEF Put
  <2> QED
    BY <2>4, <2>5, <2>6 DEF TypeOK, threadVars, idVars
<1>9. ASSUME NEW p \in Sender, Wake(p) PROVE TypeOK'
  BY <1>9 DEF Wake, Goto, TypeOK, threadVars, idVars, linkVars, callVars, Pc, SendPc, RestartPc
<1>10. ASSUME NEW p \in Sender, TimeOut(p) PROVE TypeOK'
  BY <1>10 DEF TimeOut, Goto, TypeOK, threadVars, idVars, linkVars, callVars, Pc, SendPc, RestartPc
<1>11. ASSUME NEW p \in Sender, Forget(p) PROVE TypeOK'
  <2>1. NoCall \in Call
    BY DEF NoCall, Call, Job, CallerJob
  <2> QED
    BY <1>11, <2>1 DEF Forget, Goto, Return, TypeOK, threadVars, idVars, linkVars, callVars, Pc, SendPc, RestartPc
<1>12. ASSUME NEW p \in Sender, Recover(p) PROVE TypeOK'
  <2>1. NoCall \in Call
    BY DEF NoCall, Call, Job, CallerJob
  <2> QED
    BY <1>12, <2>1 DEF Recover, Goto, Return, TypeOK, threadVars, idVars, linkVars, callVars, Pc, SendPc, RestartPc
<1>13. ASSUME NEW p \in Sender, RestartCheck(p) PROVE TypeOK'
  BY <1>13 DEF RestartCheck, Goto, TypeOK, threadVars, idVars, linkVars, callVars, Pc, SendPc, RestartPc
<1>14. ASSUME NEW p \in Sender, RestartClear(p) PROVE TypeOK'
  BY <1>14 DEF RestartClear, Goto, TypeOK, threadVars, idVars, linkVars, callVars, Pc, SendPc, RestartPc
<1>15. ASSUME NEW p \in Sender, RestartDefer(p) PROVE TypeOK'
  <2>1. NoCall \in Call
    BY DEF NoCall, Call, Job, CallerJob
  <2> QED
    BY <1>15, <2>1 DEF RestartDefer, Goto, Return, TypeOK, threadVars, idVars, linkVars, callVars, Pc, SendPc, RestartPc
<1>16. CASE ClearFlag
  BY <1>16 DEF ClearFlag, ConPc, TypeOK, threadVars, idVars, linkVars, callVars, Pc, SendPc, RestartPc
<1>17. CASE ClearWs
  BY <1>17 DEF ClearWs, ConPc, TypeOK, threadVars, idVars, linkVars, callVars, Pc, SendPc, RestartPc
<1>18. CASE ResetId
  BY <1>18 DEF ResetId, ConPc, TypeOK, threadVars, idVars, linkVars, callVars, Pc, SendPc, RestartPc
<1>19. CASE Sleep
  BY <1>19 DEF Sleep, ConPc, TypeOK, threadVars, idVars, linkVars, callVars, Pc, SendPc, RestartPc
<1>20. CASE GetToken
  BY <1>20 DEF GetToken, ConPc, TypeOK, threadVars, idVars, linkVars, callVars, Pc, SendPc, RestartPc
<1>21. CASE Connect
  BY <1>21, EmptyElements DEF Connect, ConPc, Link, TypeOK, threadVars, idVars, linkVars, callVars, Pc, SendPc, RestartPc
<1>22. CASE RunEnds
  BY <1>22 DEF RunEnds, ConPc, TypeOK, threadVars, idVars, linkVars, callVars, Pc, SendPc, RestartPc
<1>23. CASE OnAuthRequired
  <2>1. [NoCall EXCEPT !.job = "auth"] \in Call
    BY DEF NoCall, Call, Job, CallerJob
  <2> QED
    BY <1>23, <2>1 DEF OnAuthRequired, Goto, Link, TypeOK, threadVars, idVars, linkVars, callVars, Pc, SendPc, RestartPc
<1>24. CASE OnAuthOk
  BY <1>24 DEF OnAuthOk, Goto, Link, TypeOK, threadVars, idVars, linkVars, callVars, Pc, SendPc, RestartPc
<1>25. CASE OnConnected
  <2>1. /\ [NoCall EXCEPT !.job = "restart"] \in Call
        /\ [NoCall EXCEPT !.job = "subscribe"] \in Call
    BY DEF NoCall, Call, Job, CallerJob
  <2> QED
    BY <1>25, <2>1 DEF OnConnected, Goto, TypeOK, threadVars, idVars, linkVars, callVars, Pc, SendPc, RestartPc
<1>26. CASE OnAuthInvalid
  BY <1>26, EmptyElements DEF OnAuthInvalid, CloseLink, Link, TypeOK, threadVars, idVars, linkVars, callVars, Pc, SendPc, RestartPc
<1>27. CASE HaReceive
  <2>1. Tail(out) \in Seq(Message) /\ Head(out) \in Message
    BY <1>27, TailElements DEF HaReceive, TypeOK
  <2> QED
    BY <1>27, <2>1 DEF HaReceive, Link, TypeOK, threadVars, idVars, linkVars, callVars, Pc, SendPc, RestartPc
<1>28. CASE Drop
  BY <1>28, EmptyElements DEF Drop, CloseLink, Link, TypeOK, threadVars, idVars, linkVars, callVars, Pc, SendPc, RestartPc
<1>29. ASSUME NEW m \in answers, OnResult(m) PROVE TypeOK'
  <2>1. m \in Message
    BY DEF TypeOK
  <2>2. \A p \in Sender : [call[p] EXCEPT !.got = m] \in Call
    BY <2>1 DEF TypeOK, Call
  <2> QED
    BY <1>29, <2>2 DEF OnResult, TypeOK, threadVars, idVars, linkVars, callVars, Pc, SendPc, RestartPc
<1>30. CASE UNCHANGED vars
  BY <1>30 DEF vars, TypeOK, threadVars, idVars, linkVars, callVars, Pc, SendPc, RestartPc
<1>q. QED
  BY <1>1, <1>2, <1>3, <1>4, <1>5, <1>6, <1>7, <1>8, <1>9, <1>10, <1>11, <1>12, <1>13, <1>14, <1>15, <1>16, <1>17, <1>18, <1>19, <1>20, <1>21, <1>22, <1>23, <1>24, <1>25, <1>26, <1>27, <1>28, <1>29, <1>30
  DEF Next, ConnectionThread, SendMsg, RestartHa, Sender

(* Every variable keeps its type, for any number of threads and connections:
   in particular MsgId never becomes 0, the id of a message without one.     *)
THEOREM TypeCorrect == Spec => []TypeOK
<1>1. Init => TypeOK
  BY InitTyped
<1>2. TypeOK /\ [Next]_vars => TypeOK'
  BY NextTyped
<1> QED
  BY <1>1, <1>2, PTL DEF Spec

-----------------------------------------------------------------------------
(* The inductive invariant.                                                  *)

(* m is on its way to Home Assistant or awaits its answer. *)
Sent(m) == m \in answers \/ \E k \in DOMAIN out : m = out[k]

(* From the moment ConId names the next connection to the end of that
   connection. Outside, ids may clash, but nothing can be sent.              *)
Phase == con \in {"token", "connect", "run"}

(* How ConnectionThread, the socket and the calls go together. *)
ThreadInv ==
    /\ ws \in {0, conId}
    /\ con \in {"resetId", "sleep", "token"} => ws = 0
    /\ con \in {"connect", "run"} => ws = conId
    /\ Phase => conId > 0
    /\ \A p \in Sender : call[p].con <= conId
    /\ con = "token" => \A p \in Sender : call[p].con < conId
    /\ link # "closed" => con = "run"
    /\ link = "closed" /\ con # "connect" => out = <<>>
    /\ link = "closed" => answers = {}
    /\ \A k \in DOMAIN out : out[k].con = conId
    /\ \A m \in answers : m.con = conId /\ m.id # 0

(* Who holds the lock, whose context is kept, who has no id yet. *)
CallInv ==
    /\ \A p \in Sender : pc[p] = "bump" <=> idLock = p
    /\ \A p \in Sender : pc[p] = "bump" => call[p].id > 0
    /\ \A p \in Sender : pc[p] = "register" => call[p].job = "ask"
    /\ \A p \in Sender : pc[p] \in {"check", "capture", "number", "take", "restartCheck",
                                    "restartClear", "restartDefer"} =>
          call[p].id = 0 /\ call[p].got = None

Numbers == {"register", "put", "wait"}

(* No message of the current connection has an id. *)
NoneNumbered ==
    /\ \A k \in DOMAIN out : out[k].id = 0
    /\ answers = {}
    /\ \A q \in Sender : pc[q] \in Numbers /\ call[q].con = conId => call[q].id = 0

(* MsgId is above every id of the current connection. A thread that took its id
   before the reset and has not stored yet may lower or raise MsgId: it holds the
   lock, so nobody has taken an id since.                                    *)
FreshInv == Phase =>
    /\ \A m \in answers : m.id < msgId
    /\ \A k \in DOMAIN out : out[k].id < msgId
    /\ \A p \in Sender : pc[p] \in Numbers /\ call[p].con = conId => call[p].id < msgId
    /\ \A p \in Sender : pc[p] = "bump" =>
          /\ call[p].con = conId => call[p].id = msgId
          /\ call[p].id = msgId \/ NoneNumbered

(* The calls that have an id on the current connection. *)
Holds(p) == /\ pc[p] \in Numbers \union {"bump"}
            /\ call[p].con = conId /\ call[p].id # 0

(* Ids identify: the messages under way differ, no call shares its id with
   another, and the only message with the id of a call is its own, sent.     *)
UniqueInv == Phase =>
    /\ \A j, k \in DOMAIN out : j # k /\ out[j].id # 0 => out[j].id # out[k].id
    /\ \A m \in answers, k \in DOMAIN out : m.id # out[k].id
    /\ \A m, n \in answers : m # n => m.id # n.id
    /\ \A p, q \in Sender : p # q /\ Holds(p) /\ Holds(q) => call[p].id # call[q].id
    /\ \A p \in Sender : Holds(p) =>
          /\ \A m \in answers : m.id = call[p].id => m.from = p /\ pc[p] = "wait"
          /\ \A k \in DOMAIN out : out[k].id = call[p].id => out[k].from = p /\ pc[p] = "wait"

(* Where a step leaves the calls. *)
LEMMA GotoFacts ==
    ASSUME TypeOK, NEW p \in Sender, NEW l, Goto(p, l)
    PROVE  pc'[p] = l /\ \A q \in Sender : q # p => pc'[q] = pc[q]
BY DEF Goto, TypeOK

LEMMA ReturnFacts ==
    ASSUME TypeOK, NEW p \in Sender, Return(p)
    PROVE  /\ pc'[p] = "idle" /\ call'[p] = NoCall
           /\ \A q \in Sender : q # p => pc'[q] = pc[q] /\ call'[q] = call[q]
BY DEF Return, Goto, TypeOK

LEMMA ThreadStep == TypeOK /\ ThreadInv /\ [Next]_vars => ThreadInv'
<1> SUFFICES ASSUME TypeOK, ThreadInv, [Next]_vars
             PROVE  ThreadInv'
  OBVIOUS
<1>1. ASSUME NEW p \in Caller, Start(p) PROVE ThreadInv'
  BY <1>1 DEF Start, Goto, Return, NoCall, ThreadInv, Phase, threadVars, idVars, linkVars, callVars, TypeOK, Call
<1>2. ASSUME NEW p \in Sender, CheckConnected(p) PROVE ThreadInv'
  BY <1>2 DEF CheckConnected, Goto, Return, NoCall, ThreadInv, Phase, threadVars, idVars, linkVars, callVars, TypeOK, Call
<1>3. ASSUME NEW p \in Sender, CaptureSocket(p) PROVE ThreadInv'
  BY <1>3 DEF CaptureSocket, Goto, Return, NoCall, ThreadInv, Phase, threadVars, idVars, linkVars, callVars, TypeOK, Call
<1>4. ASSUME NEW p \in Sender, CheckNumber(p) PROVE ThreadInv'
  BY <1>4 DEF CheckNumber, Numbered, Goto, ThreadInv, Phase, threadVars, idVars, linkVars, callVars
<1>5. ASSUME NEW p \in Sender, TakeId(p) PROVE ThreadInv'
  BY <1>5 DEF TakeId, Goto, Return, NoCall, ThreadInv, Phase, threadVars, idVars, linkVars, callVars, TypeOK, Call
<1>6. ASSUME NEW p \in Sender, BumpId(p) PROVE ThreadInv'
  BY <1>6 DEF BumpId, Numbered, Goto, ThreadInv, Phase, threadVars, idVars, linkVars, callVars
<1>7. ASSUME NEW p \in Sender, Register(p) PROVE ThreadInv'
  BY <1>7 DEF Register, Goto, ThreadInv, Phase, threadVars, idVars, linkVars, callVars
<1>8. ASSUME NEW p \in Sender, Put(p) PROVE ThreadInv'
  <2>1. \A q \in Sender : call'[q].con = call[q].con \/ call'[q].con = 0
    BY <1>8 DEF Put, Goto, Return, NoCall, TypeOK, Call
  <2>2. UNCHANGED <<threadVars, link, answers>>
    BY <1>8 DEF Put
  <2>3. CASE out' = out
    BY <2>1, <2>2, <2>3 DEF ThreadInv, Phase, threadVars, idVars, linkVars, callVars, TypeOK
  <2>4. CASE Alive(p) /\ out' = Append(out, MessageOf(p))
    <3>1. MessageOf(p) \in Message /\ MessageOf(p).con = conId
      BY <2>4 DEF MessageOf, Message, Alive, TypeOK, Call
    <3>2. \A k \in DOMAIN out' : out'[k].con = conId
      BY <2>4, <3>1, AppendElements DEF ThreadInv, TypeOK
    <3>3. con = "connect" \/ link # "closed"
      BY <2>4 DEF Alive
    <3> QED
      BY <2>1, <2>2, <3>2, <3>3 DEF ThreadInv, Phase, threadVars, idVars, linkVars, callVars, TypeOK
  <2> QED
    BY <1>8, <2>3, <2>4 DEF Put
<1>9. ASSUME NEW p \in Sender, Wake(p) PROVE ThreadInv'
  BY <1>9 DEF Wake, Goto, ThreadInv, Phase, threadVars, idVars, linkVars, callVars
<1>10. ASSUME NEW p \in Sender, TimeOut(p) PROVE ThreadInv'
  BY <1>10 DEF TimeOut, Goto, ThreadInv, Phase, threadVars, idVars, linkVars, callVars
<1>11. ASSUME NEW p \in Sender, Forget(p) PROVE ThreadInv'
  <2>1. Return(p) \/ call' = call
    BY <1>11 DEF Forget
  <2>2. \A q \in Sender : call'[q].con = call[q].con \/ call'[q].con = 0
    BY <2>1, ReturnFacts DEF NoCall
  <2>3. UNCHANGED <<con, conId, ws, link, out, answers>>
    BY <1>11 DEF Forget, threadVars, linkVars
  <2> QED
    BY <2>2, <2>3 DEF ThreadInv, Phase, TypeOK
<1>12. ASSUME NEW p \in Sender, Recover(p) PROVE ThreadInv'
  BY <1>12 DEF Recover, Goto, Return, NoCall, ThreadInv, Phase, threadVars, idVars, linkVars, callVars, TypeOK, Call
<1>13. ASSUME NEW p \in Sender, RestartCheck(p) PROVE ThreadInv'
  BY <1>13 DEF RestartCheck, Goto, ThreadInv, Phase, threadVars, idVars, linkVars, callVars
<1>14. ASSUME NEW p \in Sender, RestartClear(p) PROVE ThreadInv'
  BY <1>14 DEF RestartClear, Goto, ThreadInv, Phase, threadVars, idVars, linkVars, callVars
<1>15. ASSUME NEW p \in Sender, RestartDefer(p) PROVE ThreadInv'
  BY <1>15 DEF RestartDefer, Goto, Return, NoCall, ThreadInv, Phase, threadVars, idVars, linkVars, callVars, TypeOK, Call
<1>16. CASE ClearFlag
  BY <1>16 DEF ClearFlag, Goto, Return, NoCall, ThreadInv, Phase, threadVars, idVars, linkVars, callVars, TypeOK, Call
<1>17. CASE ClearWs
  BY <1>17 DEF ClearWs, Goto, Return, NoCall, ThreadInv, Phase, threadVars, idVars, linkVars, callVars, TypeOK, Call
<1>18. CASE ResetId
  BY <1>18 DEF ResetId, Goto, Return, NoCall, ThreadInv, Phase, threadVars, idVars, linkVars, callVars, TypeOK, Call
<1>19. CASE Sleep
  BY <1>19 DEF Sleep, Goto, Return, NoCall, ThreadInv, Phase, threadVars, idVars, linkVars, callVars, TypeOK, Call
<1>20. CASE GetToken
  BY <1>20 DEF GetToken, Goto, Return, NoCall, ThreadInv, Phase, threadVars, idVars, linkVars, callVars, TypeOK, Call
<1>21. CASE Connect
  BY <1>21 DEF Connect, Goto, Return, NoCall, ThreadInv, Phase, threadVars, idVars, linkVars, callVars, TypeOK, Call
<1>22. CASE RunEnds
  BY <1>22 DEF RunEnds, Goto, Return, NoCall, ThreadInv, Phase, threadVars, idVars, linkVars, callVars, TypeOK, Call
<1>23. CASE OnAuthRequired
  BY <1>23 DEF OnAuthRequired, Goto, Return, NoCall, ThreadInv, Phase, threadVars, idVars, linkVars, callVars, TypeOK, Call
<1>24. CASE OnAuthOk
  BY <1>24 DEF OnAuthOk, Goto, Return, NoCall, ThreadInv, Phase, threadVars, idVars, linkVars, callVars, TypeOK, Call
<1>25. CASE OnConnected
  BY <1>25 DEF OnConnected, Goto, Return, NoCall, ThreadInv, Phase, threadVars, idVars, linkVars, callVars, TypeOK, Call
<1>26. CASE OnAuthInvalid
  BY <1>26 DEF OnAuthInvalid, CloseLink, ThreadInv, Phase, threadVars, idVars, linkVars, callVars
<1>27. CASE HaReceive
  BY <1>27 DEF HaReceive, Goto, Return, NoCall, ThreadInv, Phase, threadVars, idVars, linkVars, callVars, TypeOK, Call
<1>28. CASE Drop
  BY <1>28 DEF Drop, CloseLink, ThreadInv, Phase, threadVars, idVars, linkVars, callVars
<1>29. ASSUME NEW m \in answers, OnResult(m) PROVE ThreadInv'
  BY <1>29 DEF OnResult, Goto, Return, NoCall, ThreadInv, Phase, threadVars, idVars, linkVars, callVars, TypeOK, Call
<1>30. CASE UNCHANGED vars
  BY <1>30 DEF vars, ThreadInv, Phase, threadVars, idVars, linkVars, callVars
<1>q. QED
  BY <1>1, <1>2, <1>3, <1>4, <1>5, <1>6, <1>7, <1>8, <1>9, <1>10, <1>11, <1>12, <1>13, <1>14, <1>15, <1>16, <1>17, <1>18, <1>19, <1>20, <1>21, <1>22, <1>23, <1>24, <1>25, <1>26, <1>27, <1>28, <1>29, <1>30
  DEF Next, ConnectionThread, SendMsg, RestartHa, Sender

LEMMA CallStep == TypeOK /\ CallInv /\ [Next]_vars => CallInv'
<1> SUFFICES ASSUME TypeOK, CallInv, [Next]_vars
             PROVE  CallInv'
  OBVIOUS
<1> USE SenderAssumption
<1>1. ASSUME NEW p \in Caller, Start(p) PROVE CallInv'
  BY <1>1 DEF Start, Goto, Return, NoCall, CallInv, threadVars, idVars, linkVars, callVars, TypeOK, Call
<1>2. ASSUME NEW p \in Sender, CheckConnected(p) PROVE CallInv'
  <2>1. CASE Goto(p, "capture") /\ UNCHANGED call
    BY <1>2, <2>1, GotoFacts DEF CheckConnected, CallInv, idVars
  <2>2. CASE Return(p)
    BY <1>2, <2>2, ReturnFacts DEF CheckConnected, CallInv, idVars
  <2> QED
    BY <1>2, <2>1, <2>2 DEF CheckConnected
<1>3. ASSUME NEW p \in Sender, CaptureSocket(p) PROVE CallInv'
  <2>1. CASE Goto(p, "number") /\ call' = [call EXCEPT ![p].con = ws]
    <3>1. \A q \in Sender : call'[q].id = call[q].id /\ call'[q].job = call[q].job
      BY <2>1 DEF TypeOK, Call
    <3> QED
      BY <1>3, <2>1, <3>1, GotoFacts DEF CaptureSocket, CallInv, idVars
  <2>2. CASE Return(p)
    BY <1>3, <2>2, ReturnFacts DEF CaptureSocket, CallInv, idVars
  <2> QED
    BY <1>3, <2>1, <2>2 DEF CaptureSocket
<1>4. ASSUME NEW p \in Sender, CheckNumber(p) PROVE CallInv'
  BY <1>4 DEF CheckNumber, Numbered, Goto, CallInv, threadVars, idVars, linkVars, callVars, TypeOK
<1>5. ASSUME NEW p \in Sender, TakeId(p) PROVE CallInv'
  BY <1>5 DEF TakeId, Goto, Return, NoCall, CallInv, threadVars, idVars, linkVars, callVars, TypeOK, Call
<1>6. ASSUME NEW p \in Sender, BumpId(p) PROVE CallInv'
  BY <1>6 DEF BumpId, Numbered, Goto, CallInv, threadVars, idVars, linkVars, callVars, TypeOK
<1>7. ASSUME NEW p \in Sender, Register(p) PROVE CallInv'
  BY <1>7 DEF Register, Goto, Return, NoCall, CallInv, threadVars, idVars, linkVars, callVars, TypeOK, Call
<1>8. ASSUME NEW p \in Sender, Put(p) PROVE CallInv'
  <2>1. CASE Goto(p, "wait") /\ UNCHANGED call
    BY <1>8, <2>1, GotoFacts DEF Put, CallInv, idVars
  <2>2. CASE Return(p)
    BY <1>8, <2>2, ReturnFacts DEF Put, CallInv, idVars
  <2> QED
    BY <1>8, <2>1, <2>2 DEF Put
<1>9. ASSUME NEW p \in Sender, Wake(p) PROVE CallInv'
  BY <1>9 DEF Wake, Goto, Return, NoCall, CallInv, threadVars, idVars, linkVars, callVars, TypeOK, Call
<1>10. ASSUME NEW p \in Sender, TimeOut(p) PROVE CallInv'
  BY <1>10 DEF TimeOut, Goto, Return, NoCall, CallInv, threadVars, idVars, linkVars, callVars, TypeOK, Call
<1>11. ASSUME NEW p \in Sender, Forget(p) PROVE CallInv'
  <2>1. CASE Goto(p, "raised") /\ UNCHANGED call
    BY <1>11, <2>1, GotoFacts DEF Forget, CallInv, idVars
  <2>2. CASE Return(p)
    BY <1>11, <2>2, ReturnFacts DEF Forget, CallInv, idVars
  <2> QED
    BY <1>11, <2>1, <2>2 DEF Forget
<1>12. ASSUME NEW p \in Sender, Recover(p) PROVE CallInv'
  BY <1>12 DEF Recover, Goto, Return, NoCall, CallInv, threadVars, idVars, linkVars, callVars, TypeOK, Call
<1>13. ASSUME NEW p \in Sender, RestartCheck(p) PROVE CallInv'
  BY <1>13 DEF RestartCheck, Goto, Return, NoCall, CallInv, threadVars, idVars, linkVars, callVars, TypeOK, Call
<1>14. ASSUME NEW p \in Sender, RestartClear(p) PROVE CallInv'
  BY <1>14 DEF RestartClear, Goto, Return, NoCall, CallInv, threadVars, idVars, linkVars, callVars, TypeOK, Call
<1>15. ASSUME NEW p \in Sender, RestartDefer(p) PROVE CallInv'
  BY <1>15 DEF RestartDefer, Goto, Return, NoCall, CallInv, threadVars, idVars, linkVars, callVars, TypeOK, Call
<1>16. CASE ClearFlag
  BY <1>16 DEF ClearFlag, CallInv, threadVars, idVars, linkVars, callVars
<1>17. CASE ClearWs
  BY <1>17 DEF ClearWs, CallInv, threadVars, idVars, linkVars, callVars
<1>18. CASE ResetId
  BY <1>18 DEF ResetId, CallInv, threadVars, idVars, linkVars, callVars
<1>19. CASE Sleep
  BY <1>19 DEF Sleep, CallInv, threadVars, idVars, linkVars, callVars
<1>20. CASE GetToken
  BY <1>20 DEF GetToken, CallInv, threadVars, idVars, linkVars, callVars
<1>21. CASE Connect
  BY <1>21 DEF Connect, CallInv, threadVars, idVars, linkVars, callVars
<1>22. CASE RunEnds
  BY <1>22 DEF RunEnds, CallInv, threadVars, idVars, linkVars, callVars
<1>23. CASE OnAuthRequired
  BY <1>23 DEF OnAuthRequired, Goto, Return, NoCall, CallInv, threadVars, idVars, linkVars, callVars, TypeOK, Call, Receives
<1>24. CASE OnAuthOk
  BY <1>24 DEF OnAuthOk, Goto, Return, NoCall, CallInv, threadVars, idVars, linkVars, callVars, TypeOK, Call, Receives
<1>25. CASE OnConnected
  BY <1>25 DEF OnConnected, Goto, Return, NoCall, CallInv, threadVars, idVars, linkVars, callVars, TypeOK, Call
<1>26. CASE OnAuthInvalid
  BY <1>26 DEF OnAuthInvalid, CloseLink, CallInv, threadVars, idVars, linkVars, callVars
<1>27. CASE HaReceive
  BY <1>27 DEF HaReceive, CallInv, threadVars, idVars, linkVars, callVars
<1>28. CASE Drop
  BY <1>28 DEF Drop, CloseLink, CallInv, threadVars, idVars, linkVars, callVars
<1>29. ASSUME NEW m \in answers, OnResult(m) PROVE CallInv'
  BY <1>29 DEF OnResult, Awaits, CallInv, idVars, TypeOK, Call
<1>30. CASE UNCHANGED vars
  BY <1>30 DEF vars, CallInv, threadVars, idVars, linkVars, callVars
<1>q. QED
  BY <1>1, <1>2, <1>3, <1>4, <1>5, <1>6, <1>7, <1>8, <1>9, <1>10, <1>11, <1>12, <1>13, <1>14, <1>15, <1>16, <1>17, <1>18, <1>19, <1>20, <1>21, <1>22, <1>23, <1>24, <1>25, <1>26, <1>27, <1>28, <1>29, <1>30
  DEF Next, ConnectionThread, SendMsg, RestartHa, Sender

LEMMA LeakStep == TypeOK /\ CallInv /\ NoLeakedContext /\ [Next]_vars => NoLeakedContext'
<1> SUFFICES ASSUME TypeOK, CallInv, NoLeakedContext, [Next]_vars
             PROVE  NoLeakedContext'
  OBVIOUS
<1>1. ASSUME NEW p \in Caller, Start(p) PROVE NoLeakedContext'
  BY <1>1 DEF Start, Goto, Return, NoCall, Receives, NoLeakedContext, threadVars, idVars, linkVars, callVars, TypeOK, Call
<1>2. ASSUME NEW p \in Sender, CheckConnected(p) PROVE NoLeakedContext'
  BY <1>2 DEF CheckConnected, Goto, Return, NoCall, Receives, NoLeakedContext, threadVars, idVars, linkVars, callVars, TypeOK, Call
<1>3. ASSUME NEW p \in Sender, CaptureSocket(p) PROVE NoLeakedContext'
  <2>1. \A q \in Sender : q # p => call'[q] = call[q] /\ pc'[q] = pc[q]
    BY <1>3 DEF CaptureSocket, Goto, Return, TypeOK
  <2>2. \A i \in DOMAIN pending : pending[i] \in Sender /\ pending[i] # p
    BY <1>3 DEF CaptureSocket, NoLeakedContext, TypeOK
  <2> QED
    BY <1>3, <2>1, <2>2 DEF CaptureSocket, NoLeakedContext
<1>4. ASSUME NEW p \in Sender, CheckNumber(p) PROVE NoLeakedContext'
  BY <1>4 DEF CheckNumber, Numbered, Goto, NoLeakedContext, threadVars, idVars, linkVars, callVars, TypeOK
<1>5. ASSUME NEW p \in Sender, TakeId(p) PROVE NoLeakedContext'
  BY <1>5 DEF TakeId, Goto, Return, NoCall, Receives, NoLeakedContext, threadVars, idVars, linkVars, callVars, TypeOK, Call
<1>6. ASSUME NEW p \in Sender, BumpId(p) PROVE NoLeakedContext'
  BY <1>6 DEF BumpId, Numbered, Goto, NoLeakedContext, threadVars, idVars, linkVars, callVars, TypeOK
<1>7. ASSUME NEW p \in Sender, Register(p) PROVE NoLeakedContext'
  BY <1>7 DEF Register, Goto, Return, NoCall, Receives, NoLeakedContext, threadVars, idVars, linkVars, callVars, TypeOK, Call, CallInv
<1>8. ASSUME NEW p \in Sender, Put(p) PROVE NoLeakedContext'
  BY <1>8 DEF Put, Goto, Return, NoCall, Receives, NoLeakedContext, threadVars, idVars, linkVars, callVars, TypeOK, Call
<1>9. ASSUME NEW p \in Sender, Wake(p) PROVE NoLeakedContext'
  BY <1>9 DEF Wake, Goto, Return, NoCall, Receives, NoLeakedContext, threadVars, idVars, linkVars, callVars, TypeOK, Call
<1>10. ASSUME NEW p \in Sender, TimeOut(p) PROVE NoLeakedContext'
  BY <1>10 DEF TimeOut, Goto, Return, NoCall, Receives, NoLeakedContext, threadVars, idVars, linkVars, callVars, TypeOK, Call
<1>11. ASSUME NEW p \in Sender, Forget(p) PROVE NoLeakedContext'
  BY <1>11 DEF Forget, Goto, Return, NoCall, Receives, NoLeakedContext, threadVars, idVars, linkVars, callVars, TypeOK, Call
<1>12. ASSUME NEW p \in Sender, Recover(p) PROVE NoLeakedContext'
  BY <1>12 DEF Recover, Goto, Return, NoCall, Receives, NoLeakedContext, threadVars, idVars, linkVars, callVars, TypeOK, Call
<1>13. ASSUME NEW p \in Sender, RestartCheck(p) PROVE NoLeakedContext'
  BY <1>13 DEF RestartCheck, Goto, Return, NoCall, Receives, NoLeakedContext, threadVars, idVars, linkVars, callVars, TypeOK, Call
<1>14. ASSUME NEW p \in Sender, RestartClear(p) PROVE NoLeakedContext'
  BY <1>14 DEF RestartClear, Goto, Return, NoCall, Receives, NoLeakedContext, threadVars, idVars, linkVars, callVars, TypeOK, Call
<1>15. ASSUME NEW p \in Sender, RestartDefer(p) PROVE NoLeakedContext'
  BY <1>15 DEF RestartDefer, Goto, Return, NoCall, Receives, NoLeakedContext, threadVars, idVars, linkVars, callVars, TypeOK, Call
<1>16. CASE ClearFlag
  BY <1>16 DEF ClearFlag, NoLeakedContext, threadVars, idVars, linkVars, callVars
<1>17. CASE ClearWs
  BY <1>17 DEF ClearWs, NoLeakedContext, threadVars, idVars, linkVars, callVars
<1>18. CASE ResetId
  BY <1>18 DEF ResetId, NoLeakedContext, threadVars, idVars, linkVars, callVars
<1>19. CASE Sleep
  BY <1>19 DEF Sleep, NoLeakedContext, threadVars, idVars, linkVars, callVars
<1>20. CASE GetToken
  BY <1>20 DEF GetToken, NoLeakedContext, threadVars, idVars, linkVars, callVars
<1>21. CASE Connect
  BY <1>21 DEF Connect, NoLeakedContext, threadVars, idVars, linkVars, callVars
<1>22. CASE RunEnds
  BY <1>22 DEF RunEnds, NoLeakedContext, threadVars, idVars, linkVars, callVars
<1>23. CASE OnAuthRequired
  BY <1>23 DEF OnAuthRequired, Goto, Return, NoCall, Receives, NoLeakedContext, threadVars, idVars, linkVars, callVars, TypeOK, Call
<1>24. CASE OnAuthOk
  BY <1>24 DEF OnAuthOk, Goto, Return, NoCall, Receives, NoLeakedContext, threadVars, idVars, linkVars, callVars, TypeOK, Call
<1>25. CASE OnConnected
  BY <1>25 DEF OnConnected, Goto, Return, NoCall, Receives, NoLeakedContext, threadVars, idVars, linkVars, callVars, TypeOK, Call
<1>26. CASE OnAuthInvalid
  BY <1>26 DEF OnAuthInvalid, CloseLink, NoLeakedContext, threadVars, idVars, linkVars, callVars
<1>27. CASE HaReceive
  BY <1>27 DEF HaReceive, NoLeakedContext, threadVars, idVars, linkVars, callVars
<1>28. CASE Drop
  BY <1>28 DEF Drop, CloseLink, NoLeakedContext, threadVars, idVars, linkVars, callVars
<1>29. ASSUME NEW m \in answers, OnResult(m) PROVE NoLeakedContext'
  BY <1>29 DEF OnResult, Goto, Return, NoCall, Receives, NoLeakedContext, threadVars, idVars, linkVars, callVars, TypeOK, Call
<1>30. CASE UNCHANGED vars
  BY <1>30 DEF vars, NoLeakedContext, threadVars, idVars, linkVars, callVars
<1>q. QED
  BY <1>1, <1>2, <1>3, <1>4, <1>5, <1>6, <1>7, <1>8, <1>9, <1>10, <1>11, <1>12, <1>13, <1>14, <1>15, <1>16, <1>17, <1>18, <1>19, <1>20, <1>21, <1>22, <1>23, <1>24, <1>25, <1>26, <1>27, <1>28, <1>29, <1>30
  DEF Next, ConnectionThread, SendMsg, RestartHa, Sender

LEMMA MessagesTyped ==
    ASSUME TypeOK
    PROVE  /\ \A k \in DOMAIN out : out[k] \in Message
           /\ \A m \in answers : m \in Message
BY DEF TypeOK

(* A step that gives no call an id, and queues nothing. *)
LEMMA FreshKept ==
    ASSUME FreshInv, UNCHANGED <<con, conId, msgId, out, answers>>,
           \A q \in Sender : pc'[q] \in Numbers \union {"bump"} =>
               /\ pc[q] \in Numbers \union {"bump"} /\ call'[q] = call[q]
               /\ pc'[q] = "bump" <=> pc[q] = "bump"
    PROVE  FreshInv'
BY DEF FreshInv, NoneNumbered, Phase, Numbers

LEMMA FreshStep ==
    TypeOK /\ ThreadInv /\ CallInv /\ FreshInv /\ [Next]_vars => FreshInv'
<1> SUFFICES ASSUME TypeOK, ThreadInv, CallInv, FreshInv, [Next]_vars
             PROVE  FreshInv'
  OBVIOUS
<1>1. ASSUME NEW p \in Caller, Start(p) PROVE FreshInv'
  BY <1>1 DEF Start, Goto, Return, NoCall, FreshInv, NoneNumbered, Phase, Numbers, threadVars, idVars, linkVars, callVars, TypeOK, Call
<1>2. ASSUME NEW p \in Sender, CheckConnected(p) PROVE FreshInv'
  <2>1. pc'[p] \notin Numbers \union {"bump"}
    BY <1>2, GotoFacts, ReturnFacts DEF CheckConnected, Numbers
  <2>2. \A q \in Sender : q # p => pc'[q] = pc[q] /\ call'[q] = call[q]
    BY <1>2, GotoFacts, ReturnFacts DEF CheckConnected
  <2>3. UNCHANGED <<con, conId, msgId, out, answers>>
    BY <1>2 DEF CheckConnected, threadVars, idVars, linkVars
  <2> QED
    BY <2>1, <2>2, <2>3, FreshKept DEF Numbers
<1>3. ASSUME NEW p \in Sender, CaptureSocket(p) PROVE FreshInv'
  <2>1. pc'[p] \notin Numbers \union {"bump"}
    BY <1>3, GotoFacts, ReturnFacts DEF CaptureSocket, Numbers
  <2>2. ASSUME NEW q \in Sender, q # p
        PROVE  pc'[q] = pc[q] /\ call'[q] = call[q]
    <3>1. CASE Return(p)
      BY <2>2, <3>1, ReturnFacts
    <3>2. CASE call' = [call EXCEPT ![p].con = ws] /\ Goto(p, "number")
      <4>1. pc'[q] = pc[q]
        BY <2>2, <3>2, GotoFacts
      <4>2. call'[q] = call[q]
        BY <2>2, <3>2 DEF TypeOK
      <4> QED
        BY <4>1, <4>2
    <3> QED
      BY <1>3, <3>1, <3>2 DEF CaptureSocket
  <2>3. UNCHANGED <<con, conId, msgId, out, answers>>
    BY <1>3 DEF CaptureSocket, threadVars, idVars, linkVars
  <2>4. \A q \in Sender : pc'[q] \in Numbers \union {"bump"} => pc'[q] = pc[q] /\ call'[q] = call[q]
    BY <2>1, <2>2
  <2> QED
    BY <2>3, <2>4, FreshKept
<1>4. ASSUME NEW p \in Sender, CheckNumber(p) PROVE FreshInv'
  BY <1>4 DEF CheckNumber, Numbered, Goto, CallInv, FreshInv, NoneNumbered, Phase, Numbers, threadVars, idVars, linkVars, callVars, TypeOK, Call
<1>5. ASSUME NEW p \in Sender, TakeId(p) PROVE FreshInv'
  BY <1>5 DEF TakeId, Goto, Return, NoCall, FreshInv, NoneNumbered, Phase, Numbers, threadVars, idVars, linkVars, callVars, TypeOK, Call, CallInv
<1>6. ASSUME NEW p \in Sender, BumpId(p) PROVE FreshInv'
  <2>1. /\ pc[p] = "bump" /\ call' = call
        /\ pc'[p] \in Numbers /\ \A q \in Sender : q # p => pc'[q] = pc[q] /\ pc[q] # "bump"
    BY <1>6 DEF BumpId, Numbered, Goto, Numbers, CallInv, TypeOK
  <2>2. UNCHANGED <<con, conId, out, answers>>
    BY <1>6 DEF BumpId, threadVars, linkVars
  <2>3. /\ msgId \in Nat /\ \A q \in Sender : call[q].id \in Nat
        /\ \A k \in DOMAIN out : out[k].id \in Nat
        /\ \A m \in answers : m.id \in Nat
    BY MessagesTyped DEF TypeOK, Call, Message
  <2>4. ASSUME Phase
       PROVE  /\ call[p].con = conId => call[p].id = msgId
              /\ call[p].id = msgId \/ NoneNumbered
    BY <2>1, <2>4 DEF FreshInv
  <2>5. msgId' = msgId + 1 \/ msgId' = call[p].id + 1
    BY <1>6 DEF BumpId
  <2>6. CASE Phase /\ call[p].id = msgId
    <3>1. msgId' = msgId + 1
      BY <2>5, <2>6
    <3>2. \A i \in Nat : i < msgId \/ i = msgId => i < msgId'
      BY <2>3, <3>1
    <3>3. /\ \A m \in answers : m.id < msgId'
          /\ \A k \in DOMAIN out : out[k].id < msgId'
      BY <2>3, <2>6, <3>2 DEF FreshInv
    <3>4. \A q \in Sender : pc'[q] \in Numbers /\ call[q].con = conId => call[q].id < msgId'
      BY <2>1, <2>3, <2>6, <3>2 DEF FreshInv
    <3> QED
      BY <2>1, <2>2, <3>3, <3>4 DEF FreshInv, Phase, Numbers
  <2>7. CASE Phase /\ call[p].id # msgId
    <3>1. NoneNumbered /\ call[p].con # conId /\ msgId' > 0 /\ msgId' \in Nat
      BY <2>3, <2>4, <2>5, <2>7
    <3> QED
      BY <2>1, <2>2, <2>7, <3>1 DEF FreshInv, NoneNumbered, Phase, Numbers
  <2>8. CASE ~Phase
    BY <2>2, <2>8 DEF FreshInv, Phase
  <2> QED
    BY <2>6, <2>7, <2>8
<1>7. ASSUME NEW p \in Sender, Register(p) PROVE FreshInv'
  BY <1>7 DEF Register, Goto, Return, NoCall, FreshInv, NoneNumbered, Phase, Numbers, threadVars, idVars, linkVars, callVars, TypeOK, Call
<1>8. ASSUME NEW p \in Sender, Put(p) PROVE FreshInv'
  <2>1. /\ pc[p] = "put" /\ pc'[p] \in {"wait", "idle"}
        /\ \A q \in Sender : q # p => pc'[q] = pc[q] /\ call'[q] = call[q]
        /\ pc'[p] = "wait" => call'[p] = call[p]
    BY <1>8, GotoFacts, ReturnFacts DEF Put
  <2>2. UNCHANGED <<con, conId, msgId, answers>>
    BY <1>8 DEF Put, threadVars, idVars
  <2>3. CASE out' = out
    <3>1. UNCHANGED <<con, conId, msgId, out, answers>>
      BY <2>2, <2>3
    <3>2. \A q \in Sender : pc'[q] \in Numbers \union {"bump"} =>
              /\ pc[q] \in Numbers \union {"bump"} /\ call'[q] = call[q]
              /\ pc'[q] = "bump" <=> pc[q] = "bump"
      BY <2>1 DEF Numbers
    <3> QED
      BY <3>1, <3>2, FreshKept
  <2>4. CASE Alive(p) /\ out' = Append(out, MessageOf(p))
    <3>1. /\ MessageOf(p) \in Message /\ MessageOf(p).id = call[p].id
          /\ call[p].con = conId
      BY <2>4 DEF MessageOf, Message, Alive, TypeOK, Call
    <3>2. /\ DOMAIN out' = DOMAIN out \union {Len(out) + 1}
          /\ out'[Len(out) + 1].id = call[p].id
          /\ \A k \in DOMAIN out : out'[k] = out[k]
      BY <2>4, <3>1, AppendElements DEF TypeOK
    <3>3. \A q \in Sender : /\ pc'[q] \in Numbers => pc[q] \in Numbers /\ call'[q] = call[q]
                            /\ pc'[q] = "bump" => pc[q] = "bump" /\ call'[q] = call[q]
      BY <2>1 DEF Numbers
    <3>4. ASSUME NoneNumbered PROVE NoneNumbered'
      <4>1. \A k \in DOMAIN out' : out'[k].id = 0
        BY <2>1, <3>1, <3>2, <3>4 DEF NoneNumbered, Numbers
      <4> QED
        BY <2>2, <3>3, <3>4, <4>1 DEF NoneNumbered
    <3>5. ASSUME Phase
          PROVE  \A k \in DOMAIN out' : out'[k].id < msgId
      BY <2>1, <3>1, <3>2, <3>5 DEF FreshInv, Numbers
    <3> QED
      BY <2>2, <3>3, <3>4, <3>5 DEF FreshInv, Phase
  <2> QED
    BY <1>8, <2>3, <2>4 DEF Put
<1>9. ASSUME NEW p \in Sender, Wake(p) PROVE FreshInv'
  BY <1>9 DEF Wake, Goto, Return, NoCall, FreshInv, NoneNumbered, Phase, Numbers, threadVars, idVars, linkVars, callVars, TypeOK, Call
<1>10. ASSUME NEW p \in Sender, TimeOut(p) PROVE FreshInv'
  BY <1>10 DEF TimeOut, Goto, Return, NoCall, FreshInv, NoneNumbered, Phase, Numbers, threadVars, idVars, linkVars, callVars, TypeOK, Call
<1>11. ASSUME NEW p \in Sender, Forget(p) PROVE FreshInv'
  <2>1. pc'[p] \notin Numbers \union {"bump"}
    BY <1>11, GotoFacts, ReturnFacts DEF Forget, Numbers
  <2>2. \A q \in Sender : q # p => pc'[q] = pc[q] /\ call'[q] = call[q]
    BY <1>11, GotoFacts, ReturnFacts DEF Forget
  <2>3. UNCHANGED <<con, conId, msgId, out, answers>>
    BY <1>11 DEF Forget, threadVars, idVars, linkVars
  <2> QED
    BY <2>1, <2>2, <2>3, FreshKept DEF Numbers
<1>12. ASSUME NEW p \in Sender, Recover(p) PROVE FreshInv'
  BY <1>12 DEF Recover, Goto, Return, NoCall, FreshInv, NoneNumbered, Phase, Numbers, threadVars, idVars, linkVars, callVars, TypeOK, Call
<1>13. ASSUME NEW p \in Sender, RestartCheck(p) PROVE FreshInv'
  BY <1>13 DEF RestartCheck, Goto, Return, NoCall, FreshInv, NoneNumbered, Phase, Numbers, threadVars, idVars, linkVars, callVars, TypeOK, Call
<1>14. ASSUME NEW p \in Sender, RestartClear(p) PROVE FreshInv'
  BY <1>14 DEF RestartClear, Goto, Return, NoCall, FreshInv, NoneNumbered, Phase, Numbers, threadVars, idVars, linkVars, callVars, TypeOK, Call
<1>15. ASSUME NEW p \in Sender, RestartDefer(p) PROVE FreshInv'
  BY <1>15 DEF RestartDefer, Goto, Return, NoCall, FreshInv, NoneNumbered, Phase, Numbers, threadVars, idVars, linkVars, callVars, TypeOK, Call
<1>16. CASE ClearFlag
  BY <1>16 DEF ClearFlag, FreshInv, NoneNumbered, Phase, Numbers, threadVars, idVars, linkVars, callVars
<1>17. CASE ClearWs
  BY <1>17 DEF ClearWs, FreshInv, NoneNumbered, Phase, Numbers, threadVars, idVars, linkVars, callVars
<1>18. CASE ResetId
  BY <1>18 DEF ResetId, FreshInv, NoneNumbered, Phase, Numbers, threadVars, idVars, linkVars, callVars
<1>19. CASE Sleep
  <2>1. con = "sleep" /\ link = "closed"
    BY <1>19 DEF Sleep, ThreadInv
  <2>2. out' = <<>> /\ answers' = {}
    BY <1>19, <2>1 DEF Sleep, ThreadInv, linkVars
  <2>3. \A q \in Sender : call'[q].con # conId'
    BY <1>19 DEF Sleep, ThreadInv, callVars, TypeOK, Call
  <2>5. NoneNumbered'
    BY <2>2, <2>3, EmptyElements DEF NoneNumbered
  <2> QED
    BY <2>2, <2>3, <2>5, EmptyElements DEF FreshInv
<1>20. CASE GetToken
  BY <1>20 DEF GetToken, FreshInv, NoneNumbered, Phase, Numbers, threadVars, idVars, linkVars, callVars
<1>21. CASE Connect
  BY <1>21, EmptyElements DEF Connect, FreshInv, NoneNumbered, Phase, Numbers, threadVars, idVars, linkVars, callVars
<1>22. CASE RunEnds
  BY <1>22 DEF RunEnds, FreshInv, NoneNumbered, Phase, Numbers, threadVars, idVars, linkVars, callVars
<1>23. CASE OnAuthRequired
  BY <1>23 DEF OnAuthRequired, Goto, Return, NoCall, FreshInv, NoneNumbered, Phase, Numbers, threadVars, idVars, linkVars, callVars, TypeOK, Call
<1>24. CASE OnAuthOk
  BY <1>24 DEF OnAuthOk, Goto, Return, NoCall, FreshInv, NoneNumbered, Phase, Numbers, threadVars, idVars, linkVars, callVars, TypeOK, Call
<1>25. CASE OnConnected
  BY <1>25 DEF OnConnected, Goto, Return, NoCall, FreshInv, NoneNumbered, Phase, Numbers, threadVars, idVars, linkVars, callVars, TypeOK, Call
<1>26. CASE OnAuthInvalid
  BY <1>26, EmptyElements DEF OnAuthInvalid, CloseLink, FreshInv, NoneNumbered, Phase, Numbers, threadVars, idVars, linkVars, callVars
<1>27. CASE HaReceive
  BY <1>27 DEF HaReceive, Goto, Return, NoCall, FreshInv, NoneNumbered, Phase, Numbers, threadVars, idVars, linkVars, callVars, TypeOK, Call
<1>28. CASE Drop
  BY <1>28, EmptyElements DEF Drop, CloseLink, FreshInv, NoneNumbered, Phase, Numbers, threadVars, idVars, linkVars, callVars
<1>29. ASSUME NEW m \in answers, OnResult(m) PROVE FreshInv'
  BY <1>29 DEF OnResult, Goto, Return, NoCall, FreshInv, NoneNumbered, Phase, Numbers, threadVars, idVars, linkVars, callVars, TypeOK, Call
<1>30. CASE UNCHANGED vars
  BY <1>30 DEF vars, FreshInv, NoneNumbered, Phase, Numbers, threadVars, idVars, linkVars, callVars
<1>q. QED
  BY <1>1, <1>2, <1>3, <1>4, <1>5, <1>6, <1>7, <1>8, <1>9, <1>10, <1>11, <1>12, <1>13, <1>14, <1>15, <1>16, <1>17, <1>18, <1>19, <1>20, <1>21, <1>22, <1>23, <1>24, <1>25, <1>26, <1>27, <1>28, <1>29, <1>30
  DEF Next, ConnectionThread, SendMsg, RestartHa, Sender

(* A step that gives no call an id, queues nothing and lets nobody stop waiting
   but by returning.                                                         *)
LEMMA UniqueKept ==
    ASSUME UniqueInv, UNCHANGED <<con, conId, out, answers>>,
           \A q \in Sender : Holds(q)' =>
               Holds(q) /\ call'[q].id = call[q].id /\ (pc[q] = "wait" => pc'[q] = "wait")
    PROVE  UniqueInv'
BY DEF UniqueInv, Phase

LEMMA UniqueStep ==
    TypeOK /\ ThreadInv /\ CallInv /\ FreshInv /\ UniqueInv /\ [Next]_vars => UniqueInv'
<1> SUFFICES ASSUME TypeOK, ThreadInv, CallInv, FreshInv, UniqueInv, [Next]_vars
             PROVE  UniqueInv'
  OBVIOUS
<1>1. ASSUME NEW p \in Caller, Start(p) PROVE UniqueInv'
  <2>1. \A q \in Sender : Holds(q)' =>
          Holds(q) /\ call'[q].id = call[q].id /\ (pc[q] = "wait" => pc'[q] = "wait")
    BY <1>1 DEF Start, Goto, Return, NoCall, Holds, Numbers, threadVars, idVars, linkVars, callVars, TypeOK, Call
  <2>2. UNCHANGED <<con, conId, out, answers>>
    BY <1>1 DEF Start, threadVars, idVars, linkVars, callVars
  <2> QED
    BY <2>1, <2>2, UniqueKept
<1>2. ASSUME NEW p \in Sender, CheckConnected(p) PROVE UniqueInv'
  <2>1. pc'[p] \notin Numbers \union {"bump"}
    BY <1>2, GotoFacts, ReturnFacts DEF CheckConnected, Numbers
  <2>2. \A q \in Sender : q # p => pc'[q] = pc[q] /\ call'[q] = call[q]
    BY <1>2, GotoFacts, ReturnFacts DEF CheckConnected
  <2>3. UNCHANGED <<con, conId, out, answers>>
    BY <1>2 DEF CheckConnected, threadVars, linkVars
  <2> QED
    BY <2>1, <2>2, <2>3, UniqueKept DEF Holds, Numbers
<1>3. ASSUME NEW p \in Sender, CaptureSocket(p) PROVE UniqueInv'
  <2>1. pc'[p] \notin Numbers \union {"bump"}
    BY <1>3, GotoFacts, ReturnFacts DEF CaptureSocket, Numbers
  <2>2. \A q \in Sender : q # p => pc'[q] = pc[q] /\ call'[q] = call[q]
    BY <1>3, GotoFacts, ReturnFacts DEF CaptureSocket, Goto, Return, TypeOK
  <2>3. UNCHANGED <<con, conId, out, answers>>
    BY <1>3 DEF CaptureSocket, threadVars, linkVars
  <2> QED
    BY <2>1, <2>2, <2>3, UniqueKept DEF Holds, Numbers
<1>4. ASSUME NEW p \in Sender, CheckNumber(p) PROVE UniqueInv'
  <2>1. \A q \in Sender : Holds(q)' =>
          Holds(q) /\ call'[q].id = call[q].id /\ (pc[q] = "wait" => pc'[q] = "wait")
    BY <1>4 DEF CheckNumber, Goto, Return, NoCall, Holds, Numbers, threadVars, idVars, linkVars, callVars, TypeOK, Call, Numbered, CallInv
  <2>2. UNCHANGED <<con, conId, out, answers>>
    BY <1>4 DEF CheckNumber, threadVars, idVars, linkVars, callVars
  <2> QED
    BY <2>1, <2>2, UniqueKept
<1>5. ASSUME NEW p \in Sender, TakeId(p) PROVE UniqueInv'
  <2>1. /\ pc[p] = "take" /\ pc'[p] = "bump" /\ call'[p].id = msgId
        /\ \A q \in Sender : call'[q].con = call[q].con
        /\ \A q \in Sender : q # p => call'[q] = call[q] /\ pc'[q] = pc[q] /\ pc[q] # "bump"
    BY <1>5, SenderAssumption DEF TakeId, Goto, CallInv, TypeOK, Call
  <2>2. UNCHANGED <<con, conId, out, answers>>
    BY <1>5 DEF TakeId, threadVars, linkVars
  <2>3. ASSUME Phase
        PROVE  /\ \A q \in Sender : q # p /\ Holds(q) => call[q].id < msgId
               /\ \A m \in answers : m.id < msgId
               /\ \A k \in DOMAIN out : out[k].id < msgId
    BY <2>1, <2>3 DEF FreshInv, Holds
  <2>4. /\ \A q \in Sender : call[q].id \in Nat
        /\ \A k \in DOMAIN out : out[k].id \in Nat
        /\ \A m \in answers : m.id \in Nat
        /\ msgId \in Nat
    BY MessagesTyped DEF TypeOK, Call, Message
  <2>5. \A q \in Sender : q # p => (Holds(q)' <=> Holds(q))
    BY <2>1, <2>2 DEF Holds
  <2>6. ASSUME Phase
        PROVE  /\ \A q \in Sender : q # p /\ Holds(q) => call'[q].id # call'[p].id
               /\ \A m \in answers : m.id # call'[p].id
               /\ \A k \in DOMAIN out : out[k].id # call'[p].id
    BY <2>1, <2>3, <2>4, <2>6
  <2> QED
    BY <2>1, <2>2, <2>5, <2>6 DEF UniqueInv, Phase
<1>6. ASSUME NEW p \in Sender, BumpId(p) PROVE UniqueInv'
  <2>1. \A q \in Sender : Holds(q)' =>
          Holds(q) /\ call'[q].id = call[q].id /\ (pc[q] = "wait" => pc'[q] = "wait")
    BY <1>6 DEF BumpId, Goto, Return, NoCall, Holds, Numbers, threadVars, idVars, linkVars, callVars, TypeOK, Call, Numbered, CallInv
  <2>2. UNCHANGED <<con, conId, out, answers>>
    BY <1>6 DEF BumpId, threadVars, idVars, linkVars, callVars
  <2> QED
    BY <2>1, <2>2, UniqueKept
<1>7. ASSUME NEW p \in Sender, Register(p) PROVE UniqueInv'
  <2>1. \A q \in Sender : Holds(q)' =>
          Holds(q) /\ call'[q].id = call[q].id /\ (pc[q] = "wait" => pc'[q] = "wait")
    BY <1>7 DEF Register, Goto, Return, NoCall, Holds, Numbers, threadVars, idVars, linkVars, callVars, TypeOK, Call
  <2>2. UNCHANGED <<con, conId, out, answers>>
    BY <1>7 DEF Register, threadVars, idVars, linkVars, callVars
  <2> QED
    BY <2>1, <2>2, UniqueKept
<1>8. ASSUME NEW p \in Sender, Put(p) PROVE UniqueInv'
  <2>1. /\ pc[p] = "put" /\ pc'[p] \in {"wait", "idle"}
        /\ \A q \in Sender : q # p => pc'[q] = pc[q] /\ call'[q] = call[q]
        /\ pc'[p] = "wait" => call'[p] = call[p]
    BY <1>8, GotoFacts, ReturnFacts DEF Put
  <2>2. UNCHANGED <<con, conId, answers>>
    BY <1>8 DEF Put, threadVars
  <2>3. \A q \in Sender : Holds(q)' =>
            Holds(q) /\ call'[q].id = call[q].id /\ (pc[q] = "wait" => pc'[q] = "wait")
    BY <2>1, <2>2 DEF Holds, Numbers
  <2>4. CASE out' = out
    BY <2>2, <2>3, <2>4, UniqueKept
  <2>5. CASE Phase /\ Alive(p) /\ out' = Append(out, MessageOf(p))
    <3> DEFINE n == Len(out) + 1
    <3>1. /\ MessageOf(p) \in Message /\ MessageOf(p).id = call[p].id
          /\ MessageOf(p).from = p /\ call[p].con = conId
      BY <2>5 DEF MessageOf, Message, Alive, TypeOK, Call
    <3>2. /\ DOMAIN out' = DOMAIN out \union {n} /\ n \notin DOMAIN out
          /\ out'[n].id = call[p].id /\ out'[n].from = p
          /\ \A k \in DOMAIN out : out'[k] = out[k]
      BY <2>5, <3>1, AppendElements DEF TypeOK
    <3> HIDE DEF n
    <3>3. call[p].id # 0 => Holds(p)
      BY <2>1, <3>1 DEF Holds, Numbers
    <3>4. /\ \A k \in DOMAIN out : call[p].id # 0 => out[k].id # call[p].id
          /\ \A m \in answers : m.id # call[p].id
          /\ \A q \in Sender : q # p /\ Holds(q) => call[q].id # call[p].id
      <4>1. CASE call[p].id # 0
        BY <2>1, <2>5, <3>3, <4>1 DEF UniqueInv
      <4>2. CASE call[p].id = 0
        BY <4>2 DEF ThreadInv, Holds
      <4> QED
        BY <4>1, <4>2
    <3>5. /\ \A j, k \in DOMAIN out' : j # k /\ out'[j].id # 0 => out'[j].id # out'[k].id
          /\ \A m \in answers, k \in DOMAIN out' : m.id # out'[k].id
      BY <2>5, <3>2, <3>4 DEF UniqueInv
    <3>6. ASSUME NEW q \in Sender, Holds(q)'
          PROVE  \A k \in DOMAIN out' : out'[k].id = call'[q].id => out'[k].from = q /\ pc'[q] = "wait"
      BY <2>1, <2>3, <2>5, <3>2, <3>4, <3>6 DEF UniqueInv, Holds, Numbers
    <3>7. ASSUME NEW q \in Sender, Holds(q)'
          PROVE  \A m \in answers : m.id = call'[q].id => m.from = q /\ pc'[q] = "wait"
      BY <2>3, <2>5, <3>7 DEF UniqueInv
    <3>8. \A q, r \in Sender : q # r /\ Holds(q)' /\ Holds(r)' => call'[q].id # call'[r].id
      BY <2>3, <2>5 DEF UniqueInv
    <3> QED
      BY <2>2, <2>5, <3>5, <3>6, <3>7, <3>8 DEF UniqueInv
  <2>6. CASE ~Phase
    BY <2>2, <2>6 DEF UniqueInv, Phase
  <2> QED
    BY <1>8, <2>4, <2>5, <2>6 DEF Put
<1>9. ASSUME NEW p \in Sender, Wake(p) PROVE UniqueInv'
  <2>1. \A q \in Sender : Holds(q)' =>
          Holds(q) /\ call'[q].id = call[q].id /\ (pc[q] = "wait" => pc'[q] = "wait")
    BY <1>9 DEF Wake, Goto, Return, NoCall, Holds, Numbers, threadVars, idVars, linkVars, callVars, TypeOK, Call
  <2>2. UNCHANGED <<con, conId, out, answers>>
    BY <1>9 DEF Wake, threadVars, idVars, linkVars, callVars
  <2> QED
    BY <2>1, <2>2, UniqueKept
<1>10. ASSUME NEW p \in Sender, TimeOut(p) PROVE UniqueInv'
  <2>1. \A q \in Sender : Holds(q)' =>
          Holds(q) /\ call'[q].id = call[q].id /\ (pc[q] = "wait" => pc'[q] = "wait")
    BY <1>10 DEF TimeOut, Goto, Return, NoCall, Holds, Numbers, threadVars, idVars, linkVars, callVars, TypeOK, Call
  <2>2. UNCHANGED <<con, conId, out, answers>>
    BY <1>10 DEF TimeOut, threadVars, idVars, linkVars, callVars
  <2> QED
    BY <2>1, <2>2, UniqueKept
<1>11. ASSUME NEW p \in Sender, Forget(p) PROVE UniqueInv'
  <2>1. pc'[p] \notin Numbers \union {"bump"}
    BY <1>11, GotoFacts, ReturnFacts DEF Forget, Numbers
  <2>2. \A q \in Sender : q # p => pc'[q] = pc[q] /\ call'[q] = call[q]
    BY <1>11, GotoFacts, ReturnFacts DEF Forget
  <2>3. UNCHANGED <<con, conId, out, answers>>
    BY <1>11 DEF Forget, threadVars, linkVars
  <2> QED
    BY <2>1, <2>2, <2>3, UniqueKept DEF Holds, Numbers
<1>12. ASSUME NEW p \in Sender, Recover(p) PROVE UniqueInv'
  <2>1. \A q \in Sender : Holds(q)' =>
          Holds(q) /\ call'[q].id = call[q].id /\ (pc[q] = "wait" => pc'[q] = "wait")
    BY <1>12 DEF Recover, Goto, Return, NoCall, Holds, Numbers, threadVars, idVars, linkVars, callVars, TypeOK, Call
  <2>2. UNCHANGED <<con, conId, out, answers>>
    BY <1>12 DEF Recover, threadVars, idVars, linkVars, callVars
  <2> QED
    BY <2>1, <2>2, UniqueKept
<1>13. ASSUME NEW p \in Sender, RestartCheck(p) PROVE UniqueInv'
  <2>1. \A q \in Sender : Holds(q)' =>
          Holds(q) /\ call'[q].id = call[q].id /\ (pc[q] = "wait" => pc'[q] = "wait")
    BY <1>13 DEF RestartCheck, Goto, Return, NoCall, Holds, Numbers, threadVars, idVars, linkVars, callVars, TypeOK, Call
  <2>2. UNCHANGED <<con, conId, out, answers>>
    BY <1>13 DEF RestartCheck, threadVars, idVars, linkVars, callVars
  <2> QED
    BY <2>1, <2>2, UniqueKept
<1>14. ASSUME NEW p \in Sender, RestartClear(p) PROVE UniqueInv'
  <2>1. \A q \in Sender : Holds(q)' =>
          Holds(q) /\ call'[q].id = call[q].id /\ (pc[q] = "wait" => pc'[q] = "wait")
    BY <1>14 DEF RestartClear, Goto, Return, NoCall, Holds, Numbers, threadVars, idVars, linkVars, callVars, TypeOK, Call
  <2>2. UNCHANGED <<con, conId, out, answers>>
    BY <1>14 DEF RestartClear, threadVars, idVars, linkVars, callVars
  <2> QED
    BY <2>1, <2>2, UniqueKept
<1>15. ASSUME NEW p \in Sender, RestartDefer(p) PROVE UniqueInv'
  <2>1. \A q \in Sender : Holds(q)' =>
          Holds(q) /\ call'[q].id = call[q].id /\ (pc[q] = "wait" => pc'[q] = "wait")
    BY <1>15 DEF RestartDefer, Goto, Return, NoCall, Holds, Numbers, threadVars, idVars, linkVars, callVars, TypeOK, Call
  <2>2. UNCHANGED <<con, conId, out, answers>>
    BY <1>15 DEF RestartDefer, threadVars, idVars, linkVars, callVars
  <2> QED
    BY <2>1, <2>2, UniqueKept
<1>16. CASE ClearFlag
  BY <1>16 DEF ClearFlag, UniqueInv, Phase
<1>17. CASE ClearWs
  BY <1>17 DEF ClearWs, UniqueInv, Phase
<1>18. CASE ResetId
  BY <1>18 DEF ResetId, UniqueInv, Phase
<1>19. CASE Sleep
  <2>1. out' = <<>> /\ answers' = {}
    BY <1>19 DEF Sleep, ThreadInv, linkVars
  <2>2. DOMAIN out' = {}
    BY <2>1, EmptyElements
  <2>3. \A q \in Sender : ~Holds(q)'
    BY <1>19 DEF Sleep, Holds, ThreadInv, callVars, TypeOK, Call
  <2> QED
    BY <2>1, <2>2, <2>3 DEF UniqueInv
<1>20. CASE GetToken
  <2>1. UNCHANGED <<conId, out, answers, pc, call>>
    BY <1>20 DEF GetToken, callVars, linkVars
  <2>2. Phase' => Phase
    BY <1>20 DEF GetToken, Phase
  <2> QED
    BY <2>1, <2>2 DEF UniqueInv, Holds
<1>21. CASE Connect
  <2>1. UNCHANGED <<conId, answers, pc, call>> /\ Phase
    BY <1>21 DEF Connect, callVars, Phase
  <2>2. CASE out' = out
    BY <2>1, <2>2 DEF UniqueInv, Holds
  <2>3. CASE out' = <<>>
    <3>1. DOMAIN out' = {}
      BY <2>3, EmptyElements
    <3> QED
      BY <2>1, <3>1 DEF UniqueInv, Holds
  <2> QED
    BY <1>21, <2>2, <2>3 DEF Connect
<1>22. CASE RunEnds
  BY <1>22 DEF RunEnds, UniqueInv, Phase
<1>23. CASE OnAuthRequired
  <2>1. \A q \in Sender : Holds(q)' =>
          Holds(q) /\ call'[q].id = call[q].id /\ (pc[q] = "wait" => pc'[q] = "wait")
    BY <1>23 DEF OnAuthRequired, Goto, Return, NoCall, Holds, Numbers, threadVars, idVars, linkVars, callVars, TypeOK, Call, Receives
  <2>2. UNCHANGED <<con, conId, out, answers>>
    BY <1>23 DEF OnAuthRequired, threadVars, idVars, linkVars, callVars
  <2> QED
    BY <2>1, <2>2, UniqueKept
<1>24. CASE OnAuthOk
  <2>1. \A q \in Sender : Holds(q)' =>
          Holds(q) /\ call'[q].id = call[q].id /\ (pc[q] = "wait" => pc'[q] = "wait")
    BY <1>24 DEF OnAuthOk, Goto, Return, NoCall, Holds, Numbers, threadVars, idVars, linkVars, callVars, TypeOK, Call, Receives
  <2>2. UNCHANGED <<con, conId, out, answers>>
    BY <1>24 DEF OnAuthOk, threadVars, idVars, linkVars, callVars
  <2> QED
    BY <2>1, <2>2, UniqueKept
<1>25. CASE OnConnected
  <2>1. \A q \in Sender : Holds(q)' =>
          Holds(q) /\ call'[q].id = call[q].id /\ (pc[q] = "wait" => pc'[q] = "wait")
    BY <1>25 DEF OnConnected, Goto, Return, NoCall, Holds, Numbers, threadVars, idVars, linkVars, callVars, TypeOK, Call
  <2>2. UNCHANGED <<con, conId, out, answers>>
    BY <1>25 DEF OnConnected, threadVars, idVars, linkVars, callVars
  <2> QED
    BY <2>1, <2>2, UniqueKept
<1>26. CASE OnAuthInvalid
  <2>1. out' = <<>> /\ answers' = {}
    BY <1>26 DEF OnAuthInvalid, CloseLink
  <2>2. DOMAIN out' = {}
    BY <2>1, EmptyElements
  <2>3. \A q \in Sender : Holds(q)' => Holds(q) /\ call'[q].id = call[q].id
    BY <1>26 DEF OnAuthInvalid, Holds, callVars, threadVars
  <2>4. Phase' => Phase
    BY <1>26 DEF OnAuthInvalid, Phase, threadVars
  <2> QED
    BY <2>1, <2>2, <2>3, <2>4 DEF UniqueInv
<1>27. CASE HaReceive
  <2>1. /\ out # <<>> /\ out' = Tail(out)
        /\ answers' = answers \/ (answers' = answers \union {Head(out)} /\ Head(out).id # 0)
    BY <1>27 DEF HaReceive
  <2>2. UNCHANGED <<con, conId, pc, call>>
    BY <1>27 DEF HaReceive, threadVars, callVars
  <2>3. /\ 1 \in DOMAIN out /\ Head(out) = out[1]
        /\ \A k \in DOMAIN out' : k + 1 \in DOMAIN out /\ k + 1 # 1 /\ out'[k] = out[k + 1]
        /\ \A j, k \in DOMAIN out' : j # k => j + 1 # k + 1
    BY <2>1, TailElements DEF TypeOK
  <2>4. ASSUME Phase
        PROVE  /\ \A j, k \in DOMAIN out' : j # k /\ out'[j].id # 0 => out'[j].id # out'[k].id
               /\ \A m \in answers, k \in DOMAIN out' : m.id # out'[k].id
               /\ \A k \in DOMAIN out' : Head(out).id # 0 => Head(out).id # out'[k].id
               /\ \A m \in answers : m.id # Head(out).id
    BY <2>3, <2>4 DEF UniqueInv
  <2>5. ASSUME Phase, NEW q \in Sender, Holds(q)
        PROVE  /\ \A k \in DOMAIN out' : out'[k].id = call[q].id => out'[k].from = q /\ pc[q] = "wait"
               /\ Head(out).id = call[q].id => Head(out).from = q /\ pc[q] = "wait"
               /\ \A m \in answers : m.id = call[q].id => m.from = q /\ pc[q] = "wait"
    BY <2>3, <2>5 DEF UniqueInv
  <2> QED
    BY <2>1, <2>2, <2>4, <2>5 DEF UniqueInv, Holds, Phase
<1>28. CASE Drop
  <2>1. out' = <<>> /\ answers' = {}
    BY <1>28 DEF Drop, CloseLink
  <2>2. DOMAIN out' = {}
    BY <2>1, EmptyElements
  <2>3. \A q \in Sender : Holds(q)' => Holds(q) /\ call'[q].id = call[q].id
    BY <1>28 DEF Drop, Holds, callVars, threadVars
  <2>4. Phase' => Phase
    BY <1>28 DEF Drop, Phase, threadVars
  <2> QED
    BY <2>1, <2>2, <2>3, <2>4 DEF UniqueInv
<1>29. ASSUME NEW m \in answers, OnResult(m) PROVE UniqueInv'
  <2>1. \A q \in Sender : call'[q].id = call[q].id /\ call'[q].con = call[q].con
    BY <1>29 DEF OnResult, TypeOK, Call
  <2>2. UNCHANGED <<con, conId, out, pc>> /\ answers' \subseteq answers
    BY <1>29 DEF OnResult, threadVars
  <2>3. \A q \in Sender : Holds(q)' <=> Holds(q)
    BY <2>1, <2>2 DEF Holds
  <2> QED
    BY <2>1, <2>2, <2>3 DEF UniqueInv, Phase
<1>30. CASE UNCHANGED vars
  BY <1>30 DEF vars, UniqueInv, Holds, Phase, threadVars, idVars, linkVars, callVars
<1>q. QED
  BY <1>1, <1>2, <1>3, <1>4, <1>5, <1>6, <1>7, <1>8, <1>9, <1>10, <1>11, <1>12, <1>13, <1>14, <1>15, <1>16, <1>17, <1>18, <1>19, <1>20, <1>21, <1>22, <1>23, <1>24, <1>25, <1>26, <1>27, <1>28, <1>29, <1>30
  DEF Next, ConnectionThread, SendMsg, RestartHa, Sender

LEMMA MatchStep ==
    TypeOK /\ ThreadInv /\ CallInv /\ NoLeakedContext /\ UniqueInv /\ AnswersMatch /\ [Next]_vars
        => AnswersMatch'
<1> SUFFICES ASSUME TypeOK, ThreadInv, CallInv, NoLeakedContext, UniqueInv, AnswersMatch, [Next]_vars
             PROVE  AnswersMatch'
  OBVIOUS
<1>1. ASSUME NEW p \in Caller, Start(p) PROVE AnswersMatch'
  <2>1. \A q \in Sender : call'[q].got # None => call'[q].got = call[q].got /\ call'[q].con = call[q].con
    BY <1>1 DEF Start, Goto, Return, NoCall, threadVars, idVars, linkVars, callVars, TypeOK, Call
  <2> QED
    BY <2>1 DEF AnswersMatch
<1>2. ASSUME NEW p \in Sender, CheckConnected(p) PROVE AnswersMatch'
  <2>1. \A q \in Sender : call'[q].got # None => call'[q].got = call[q].got /\ call'[q].con = call[q].con
    BY <1>2 DEF CheckConnected, Goto, Return, NoCall, threadVars, idVars, linkVars, callVars, TypeOK, Call
  <2> QED
    BY <2>1 DEF AnswersMatch
<1>3. ASSUME NEW p \in Sender, CaptureSocket(p) PROVE AnswersMatch'
  <2>1. CASE call' = [call EXCEPT ![p].con = ws]
    <3>1. call'[p].got = None /\ \A q \in Sender : q # p => call'[q] = call[q]
      BY <1>3, <2>1 DEF CaptureSocket, CallInv, TypeOK, Call
    <3> QED
      BY <3>1 DEF AnswersMatch
  <2>2. CASE Return(p)
    BY <2>2, ReturnFacts DEF AnswersMatch, NoCall
  <2> QED
    BY <1>3, <2>1, <2>2 DEF CaptureSocket
<1>4. ASSUME NEW p \in Sender, CheckNumber(p) PROVE AnswersMatch'
  <2>1. \A q \in Sender : call'[q].got # None => call'[q].got = call[q].got /\ call'[q].con = call[q].con
    BY <1>4 DEF CheckNumber, Goto, Return, NoCall, threadVars, idVars, linkVars, callVars, TypeOK, Call, Numbered
  <2> QED
    BY <2>1 DEF AnswersMatch
<1>5. ASSUME NEW p \in Sender, TakeId(p) PROVE AnswersMatch'
  <2>1. \A q \in Sender : call'[q].got # None => call'[q].got = call[q].got /\ call'[q].con = call[q].con
    BY <1>5 DEF TakeId, Goto, Return, NoCall, threadVars, idVars, linkVars, callVars, TypeOK, Call
  <2> QED
    BY <2>1 DEF AnswersMatch
<1>6. ASSUME NEW p \in Sender, BumpId(p) PROVE AnswersMatch'
  <2>1. \A q \in Sender : call'[q].got # None => call'[q].got = call[q].got /\ call'[q].con = call[q].con
    BY <1>6 DEF BumpId, Goto, Return, NoCall, threadVars, idVars, linkVars, callVars, TypeOK, Call, Numbered
  <2> QED
    BY <2>1 DEF AnswersMatch
<1>7. ASSUME NEW p \in Sender, Register(p) PROVE AnswersMatch'
  <2>1. \A q \in Sender : call'[q].got # None => call'[q].got = call[q].got /\ call'[q].con = call[q].con
    BY <1>7 DEF Register, Goto, Return, NoCall, threadVars, idVars, linkVars, callVars, TypeOK, Call
  <2> QED
    BY <2>1 DEF AnswersMatch
<1>8. ASSUME NEW p \in Sender, Put(p) PROVE AnswersMatch'
  <2>1. \A q \in Sender : call'[q] = call[q] \/ call'[q] = NoCall
    BY <1>8, ReturnFacts DEF Put
  <2> QED
    BY <2>1 DEF AnswersMatch, NoCall
<1>9. ASSUME NEW p \in Sender, Wake(p) PROVE AnswersMatch'
  <2>1. \A q \in Sender : call'[q].got # None => call'[q].got = call[q].got /\ call'[q].con = call[q].con
    BY <1>9 DEF Wake, Goto, Return, NoCall, threadVars, idVars, linkVars, callVars, TypeOK, Call
  <2> QED
    BY <2>1 DEF AnswersMatch
<1>10. ASSUME NEW p \in Sender, TimeOut(p) PROVE AnswersMatch'
  <2>1. \A q \in Sender : call'[q].got # None => call'[q].got = call[q].got /\ call'[q].con = call[q].con
    BY <1>10 DEF TimeOut, Goto, Return, NoCall, threadVars, idVars, linkVars, callVars, TypeOK, Call
  <2> QED
    BY <2>1 DEF AnswersMatch
<1>11. ASSUME NEW p \in Sender, Forget(p) PROVE AnswersMatch'
  <2>1. \A q \in Sender : call'[q] = call[q] \/ call'[q] = NoCall
    BY <1>11, ReturnFacts DEF Forget
  <2> QED
    BY <2>1 DEF AnswersMatch, NoCall
<1>12. ASSUME NEW p \in Sender, Recover(p) PROVE AnswersMatch'
  <2>1. \A q \in Sender : call'[q].got # None => call'[q].got = call[q].got /\ call'[q].con = call[q].con
    BY <1>12 DEF Recover, Goto, Return, NoCall, threadVars, idVars, linkVars, callVars, TypeOK, Call
  <2> QED
    BY <2>1 DEF AnswersMatch
<1>13. ASSUME NEW p \in Sender, RestartCheck(p) PROVE AnswersMatch'
  <2>1. \A q \in Sender : call'[q].got # None => call'[q].got = call[q].got /\ call'[q].con = call[q].con
    BY <1>13 DEF RestartCheck, Goto, Return, NoCall, threadVars, idVars, linkVars, callVars, TypeOK, Call
  <2> QED
    BY <2>1 DEF AnswersMatch
<1>14. ASSUME NEW p \in Sender, RestartClear(p) PROVE AnswersMatch'
  <2>1. \A q \in Sender : call'[q].got # None => call'[q].got = call[q].got /\ call'[q].con = call[q].con
    BY <1>14 DEF RestartClear, Goto, Return, NoCall, threadVars, idVars, linkVars, callVars, TypeOK, Call
  <2> QED
    BY <2>1 DEF AnswersMatch
<1>15. ASSUME NEW p \in Sender, RestartDefer(p) PROVE AnswersMatch'
  <2>1. \A q \in Sender : call'[q].got # None => call'[q].got = call[q].got /\ call'[q].con = call[q].con
    BY <1>15 DEF RestartDefer, Goto, Return, NoCall, threadVars, idVars, linkVars, callVars, TypeOK, Call
  <2> QED
    BY <2>1 DEF AnswersMatch
<1>16. CASE ClearFlag
  BY <1>16 DEF ClearFlag, AnswersMatch, callVars
<1>17. CASE ClearWs
  BY <1>17 DEF ClearWs, AnswersMatch, callVars
<1>18. CASE ResetId
  BY <1>18 DEF ResetId, AnswersMatch, callVars
<1>19. CASE Sleep
  BY <1>19 DEF Sleep, AnswersMatch, callVars
<1>20. CASE GetToken
  BY <1>20 DEF GetToken, AnswersMatch, callVars
<1>21. CASE Connect
  BY <1>21 DEF Connect, AnswersMatch, callVars
<1>22. CASE RunEnds
  BY <1>22 DEF RunEnds, AnswersMatch, callVars
<1>23. CASE OnAuthRequired
  <2>1. \A q \in Sender : call'[q].got # None => call'[q].got = call[q].got /\ call'[q].con = call[q].con
    BY <1>23 DEF OnAuthRequired, Goto, Return, NoCall, threadVars, idVars, linkVars, callVars, TypeOK, Call
  <2> QED
    BY <2>1 DEF AnswersMatch
<1>24. CASE OnAuthOk
  <2>1. \A q \in Sender : call'[q].got # None => call'[q].got = call[q].got /\ call'[q].con = call[q].con
    BY <1>24 DEF OnAuthOk, Goto, Return, NoCall, threadVars, idVars, linkVars, callVars, TypeOK, Call
  <2> QED
    BY <2>1 DEF AnswersMatch
<1>25. CASE OnConnected
  <2>1. \A q \in Sender : call'[q].got # None => call'[q].got = call[q].got /\ call'[q].con = call[q].con
    BY <1>25 DEF OnConnected, Goto, Return, NoCall, threadVars, idVars, linkVars, callVars, TypeOK, Call
  <2> QED
    BY <2>1 DEF AnswersMatch
<1>26. CASE OnAuthInvalid
  <2>1. \A q \in Sender : call'[q].got # None => call'[q].got = call[q].got /\ call'[q].con = call[q].con
    BY <1>26 DEF OnAuthInvalid, Goto, Return, NoCall, threadVars, idVars, linkVars, callVars, TypeOK, Call, CloseLink
  <2> QED
    BY <2>1 DEF AnswersMatch
<1>27. CASE HaReceive
  BY <1>27 DEF HaReceive, AnswersMatch, callVars
<1>28. CASE Drop
  <2>1. \A q \in Sender : call'[q].got # None => call'[q].got = call[q].got /\ call'[q].con = call[q].con
    BY <1>28 DEF Drop, Goto, Return, NoCall, threadVars, idVars, linkVars, callVars, TypeOK, Call, CloseLink
  <2> QED
    BY <2>1 DEF AnswersMatch
<1>29. ASSUME NEW m \in answers, OnResult(m) PROVE AnswersMatch'
  <2>1. m.con = conId /\ m.id # 0 /\ m \in Message
    BY DEF ThreadInv, TypeOK
  <2>2. Phase /\ con = "run"
    BY <1>29 DEF OnResult, Receives, Phase
  <2>3. ASSUME NEW p \in Sender, p \in Awaits(m.id)
        PROVE  m.con > call[p].con \/ (m.from = p /\ m.con = call[p].con)
    <3>1. call[p].id = m.id /\ pc[p] \in Numbers
      BY <2>3 DEF Awaits, NoLeakedContext, Numbers
    <3>2. call[p].con \in Nat /\ conId \in Nat /\ call[p].con <= conId
      BY DEF ThreadInv, TypeOK, Call
    <3>3. CASE call[p].con = conId
      <4>1. Holds(p)
        BY <2>1, <3>1, <3>3 DEF Holds
      <4> QED
        BY <2>1, <2>2, <3>1, <3>3, <4>1 DEF UniqueInv
    <3> QED
      BY <2>1, <3>2, <3>3
  <2>4. /\ \A p \in Awaits(m.id) : call'[p].got = m /\ call'[p].con = call[p].con
        /\ \A p \in Sender \ Awaits(m.id) : call'[p] = call[p]
    BY <1>29 DEF OnResult, Awaits, TypeOK, Call
  <2> QED
    BY <2>3, <2>4 DEF AnswersMatch
<1>30. CASE UNCHANGED vars
  BY <1>30 DEF vars, AnswersMatch, threadVars, idVars, linkVars, callVars
<1>q. QED
  BY <1>1, <1>2, <1>3, <1>4, <1>5, <1>6, <1>7, <1>8, <1>9, <1>10, <1>11, <1>12, <1>13, <1>14, <1>15, <1>16, <1>17, <1>18, <1>19, <1>20, <1>21, <1>22, <1>23, <1>24, <1>25, <1>26, <1>27, <1>28, <1>29, <1>30
  DEF Next, ConnectionThread, SendMsg, RestartHa, Sender

-----------------------------------------------------------------------------
(* The theorems.                                                             *)

IInv ==
    /\ TypeOK /\ ThreadInv /\ CallInv /\ FreshInv /\ UniqueInv
    /\ NoLeakedContext /\ AnswersMatch

LEMMA InitInv == Init => IInv
<1> SUFFICES ASSUME Init PROVE IInv
  OBVIOUS
<1>1. TypeOK
  BY InitTyped
<1>2. DOMAIN out = {} /\ DOMAIN pending = {}
  BY EmptyElements DEF Init
<1>3. \A p \in Sender : pc[p] = "idle" /\ call[p] = NoCall
  BY DEF Init
<1>4. ThreadInv
  BY <1>2, <1>3 DEF Init, ThreadInv, Phase, NoCall
<1>5. CallInv
  BY <1>3, SenderAssumption DEF Init, CallInv
<1>6. FreshInv /\ UniqueInv
  BY DEF Init, FreshInv, UniqueInv, Phase
<1>7. NoLeakedContext /\ AnswersMatch
  BY <1>2, <1>3 DEF NoLeakedContext, AnswersMatch, NoCall
<1> QED
  BY <1>1, <1>4, <1>5, <1>6, <1>7 DEF IInv

LEMMA NextInv == IInv /\ [Next]_vars => IInv'
BY NextTyped, ThreadStep, CallStep, FreshStep, UniqueStep, LeakStep, MatchStep DEF IInv

LEMMA Inductive == Spec => []IInv
<1>1. Init => IInv
  BY InitInv
<1>2. IInv /\ [Next]_vars => IInv'
  BY NextInv
<1> QED
  BY <1>1, <1>2, PTL DEF Spec

LEMMA UniqueIds == IInv => IdsUnique
<1> SUFFICES ASSUME UniqueInv, Phase, ThreadInv PROVE IdsUnique
  BY DEF IInv, IdsUnique, Phase
<1>1. \A p \in AboutToSend : p \in Sender /\ Holds(p) /\ pc[p] # "wait"
  BY DEF AboutToSend, Holds, Numbers
<1> QED
  BY <1>1 DEF UniqueInv, IdsUnique

(* On one connection no two messages that are queued, under way or about to be
   sent share an id, although MsgId is reset without its lock.               *)
THEOREM IdsUniqueHolds == Spec => []IdsUnique
<1>1. IInv => IdsUnique
  BY UniqueIds
<1> QED
  BY <1>1, Inductive, PTL

(* An answer goes to the request it answers, or to a caller that is still
   waiting for one it sent on an earlier connection.                         *)
THEOREM AnswersMatchHolds == Spec => []AnswersMatch
<1>1. IInv => AnswersMatch
  BY DEF IInv
<1> QED
  BY <1>1, Inductive, PTL

(* Whatever calls overlap and whoever removes whose context, every entry of
   PendingContexts belongs to a call that is under way with that id.         *)
THEOREM NoLeakedContextHolds == Spec => []NoLeakedContext
<1>1. IInv => NoLeakedContext
  BY DEF IInv
<1> QED
  BY <1>1, Inductive, PTL

=============================================================================
