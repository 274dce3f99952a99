--------------------------- MODULE WsClient_proof ---------------------------
(***************************************************************************)
(* Proofs about WsClient, for every set of senders, limit and number of    *)
(* messages: its type invariant, the count that holds senders back, what   *)
(* is left behind at the end, and that it implements WsService.            *)
(*                                                                         *)
(* Messages is a recursive function over a queue. What it gives is proved  *)
(* by induction on the length, with the least element of a set of numbers: *)
(* no operator is passed to a theorem.                                     *)
(***************************************************************************)
EXTENDS WsClient, FiniteSetTheorems, SequenceTheorems, WellFoundedInduction, TLAPS

(***************************************************************************)
(* Induction over the natural numbers, on a set of them.                   *)
(***************************************************************************)

Before == OpToRel(<, Nat)

LEMMA BeforeDef == Before = {p \in Nat \X Nat : p[1] < p[2]}
BY DEF Before, OpToRel

LEMMA BeforeWellFounded == IsWellFoundedOn(Before, Nat)
BY NatLessThanWellFounded DEF Before, OpToRel

LEMMA Induction ==
  ASSUME NEW S, 0 \in S, \A n \in Nat : n \in S => n + 1 \in S
  PROVE  \A n \in Nat : n \in S
<1> DEFINE T == Nat \ S
<1>1. SUFFICES ASSUME T # {} PROVE FALSE
  OBVIOUS
<1>2. T \subseteq Nat
  OBVIOUS
<1>3. PICK x \in T : \A y \in T : <<y, x>> \notin Before
  <2> HIDE DEF T
  <2> QED
    BY <1>1, <1>2, BeforeWellFounded, WFMin
<1>4. x - 1 \in T
  <2>1. x # 0
    OBVIOUS
  <2> QED
    BY <2>1
<1>5. <<x - 1, x>> \in Before
  BY <1>4, BeforeDef
<1> QED
  BY <1>3, <1>4, <1>5

(***************************************************************************)
(* Messages: the recursive function exists, and what Append and Tail do.   *)
(***************************************************************************)

(* The body of the function, up to an index. *)
Step(q, f, n) ==
  [i \in 0..n |-> IF i = 0 THEN <<>>
                  ELSE IF q[i] = Poison THEN f[i - 1] ELSE Append(f[i - 1], q[i])]

LEMMA KeptExists ==
  ASSUME NEW q, NEW n \in Nat
  PROVE  \E f : f = Step(q, f, n)
<1> DEFINE S == {k \in Nat : \E f : f = Step(q, f, k)}
<1>1. 0 \in S
  <2> DEFINE f == [i \in 0..0 |-> <<>>]
  <2>1. f = Step(q, f, 0)
    BY DEF Step
  <2> QED
    BY <2>1
<1>2. ASSUME NEW k \in Nat, k \in S
      PROVE  k + 1 \in S
  <2>1. PICK f : f = Step(q, f, k)
    BY <1>2
  <2> DEFINE g == [i \in 0..(k + 1) |->
                     IF i \in 0..k THEN f[i]
                     ELSE IF q[k + 1] = Poison THEN f[k] ELSE Append(f[k], q[k + 1])]
  <2>2. ASSUME NEW i \in 0..(k + 1)
        PROVE  g[i] = IF i = 0 THEN <<>>
                      ELSE IF q[i] = Poison THEN g[i - 1] ELSE Append(g[i - 1], q[i])
    <3>1. CASE i = 0
      BY <2>1, <3>1 DEF Step
    <3>2. CASE i # 0 /\ i \in 0..k
      <4>1. i - 1 \in 0..k /\ i - 1 \in 0..(k + 1)
        BY <3>2
      <4>2. g[i] = f[i] /\ g[i - 1] = f[i - 1]
        BY <3>2, <4>1
      <4>3. f[i] = IF q[i] = Poison THEN f[i - 1] ELSE Append(f[i - 1], q[i])
        <5>1. Step(q, f, k)[i] = IF q[i] = Poison THEN f[i - 1] ELSE Append(f[i - 1], q[i])
          BY <3>2 DEF Step
        <5> QED
          BY <2>1, <5>1
      <4> QED
        BY <3>2, <4>2, <4>3
    <3>3. CASE i = k + 1
      <4>1. i \notin 0..k /\ k \in 0..k /\ k \in 0..(k + 1) /\ i - 1 = k /\ i # 0
        BY <3>3
      <4>2. g[k] = f[k]
        BY <4>1
      <4> QED
        BY <3>3, <4>1, <4>2
    <3> QED
      BY <3>1, <3>2, <3>3
  <2>3. g = Step(q, g, k + 1)
    BY <2>2, Zenon DEF Step
  <2> HIDE DEF g
  <2> QED
    BY <2>3
<1> HIDE DEF S
<1>3. n \in S
  BY <1>1, <1>2, Induction
<1> QED
  BY <1>3 DEF S

LEMMA MessagesDef ==
  ASSUME NEW q, Len(q) \in Nat
  PROVE  \E f : f = Step(q, f, Len(q)) /\ Messages(q) = f[Len(q)]
<1> DEFINE F == CHOOSE f : f = Step(q, f, Len(q))
<1>1. F = Step(q, F, Len(q))
  BY KeptExists
<1>2. Messages(q) = F[Len(q)]
  BY DEF Messages, Step
<1> QED
  BY <1>1, <1>2

(* One step of the function. *)
LEMMA StepAt ==
  ASSUME NEW q, NEW n \in Nat, NEW f, f = Step(q, f, n)
  PROVE  /\ f[0] = <<>>
         /\ \A i \in 1..n : f[i] = IF q[i] = Poison THEN f[i - 1] ELSE Append(f[i - 1], q[i])
<1>1. \A i \in 0..n : f[i] = IF i = 0 THEN <<>>
                            ELSE IF q[i] = Poison THEN f[i - 1] ELSE Append(f[i - 1], q[i])
  <2>1. \A i \in 0..n : Step(q, f, n)[i] =
            IF i = 0 THEN <<>>
            ELSE IF q[i] = Poison THEN f[i - 1] ELSE Append(f[i - 1], q[i])
    BY DEF Step
  <2> QED
    BY <2>1
<1> QED
  BY <1>1

Entry == Message \union {Poison}

(* Every value of the function is a sequence of the messages that q holds. *)
LEMMA KeptType ==
  ASSUME NEW q \in Seq(Entry), NEW f, f = Step(q, f, Len(q))
  PROVE  \A i \in 0..Len(q) :
           /\ f[i] \in Seq(Message)
           /\ \A j \in 1..Len(f[i]) : \E k \in 1..i : f[i][j] = q[k]
<1> DEFINE Good(i) == /\ f[i] \in Seq(Message)
                      /\ \A j \in 1..Len(f[i]) : \E k \in 1..i : f[i][j] = q[k]
           S == {i \in Nat : i <= Len(q) => Good(i)}
<1>1. 0 \in S
  <2>1. Len(q) \in Nat
    OBVIOUS
  <2>2. f[0] = <<>>
    BY <2>1, StepAt
  <2>3. Good(0)
    BY <2>2
  <2> QED
    BY <2>3
<1>2. ASSUME NEW n \in Nat, n \in S
      PROVE  n + 1 \in S
  <2> SUFFICES ASSUME n + 1 <= Len(q)
               PROVE  Good(n + 1)
    OBVIOUS
  <2>0. n <= Len(q)
    OBVIOUS
  <2>1. Good(n)
    <3> HIDE DEF Good
    <3> QED
      BY <1>2, <2>0
  <2>2. n + 1 \in 1..Len(q) /\ (n + 1) - 1 = n
    OBVIOUS
  <2>3. f[n + 1] = IF q[n + 1] = Poison THEN f[n] ELSE Append(f[n], q[n + 1])
    BY <2>2, StepAt
  <2>4. CASE q[n + 1] = Poison
    <3>1. f[n + 1] = f[n]
      BY <2>3, <2>4
    <3>2. ASSUME NEW j \in 1..Len(f[n + 1])
          PROVE  \E k \in 1..(n + 1) : f[n + 1][j] = q[k]
      <4>1. PICK k \in 1..n : f[n][j] = q[k]
        BY <2>1, <3>1
      <4> QED
        BY <3>1, <4>1
    <3> QED
      BY <2>1, <3>1, <3>2
  <2>5. CASE q[n + 1] # Poison
    <3>1. q[n + 1] \in Message
      BY <2>2, <2>5 DEF Entry
    <3>2. f[n + 1] = Append(f[n], q[n + 1])
      BY <2>3, <2>5
    <3>3. f[n + 1] \in Seq(Message)
      BY <2>1, <3>1, <3>2
    <3>4. ASSUME NEW j \in 1..Len(f[n + 1])
          PROVE  \E k \in 1..(n + 1) : f[n + 1][j] = q[k]
      <4>1. Len(f[n + 1]) = Len(f[n]) + 1
        BY <2>1, <3>1, <3>2
      <4>2. CASE j \in 1..Len(f[n])
        <5>1. f[n + 1][j] = f[n][j]
          BY <2>1, <3>1, <3>2, <4>2
        <5> QED
          BY <2>1, <4>2, <5>1
      <4>3. CASE j = Len(f[n]) + 1
        <5>1. f[n + 1][j] = q[n + 1]
          BY <2>1, <3>1, <3>2, <4>3
        <5> QED
          BY <5>1
      <4> QED
        BY <2>1, <4>1, <4>2, <4>3
    <3> QED
      BY <3>3, <3>4
  <2> QED
    BY <2>4, <2>5
<1> HIDE DEF Good
<1>3. \A n \in Nat : n \in S
  <2> HIDE DEF S
  <2> QED
    BY <1>1, <1>2, Induction
<1> QED
  BY <1>3 DEF Good

LEMMA MessagesType ==
  ASSUME NEW q \in Seq(Entry)
  PROVE  /\ Messages(q) \in Seq(Message)
         /\ \A j \in 1..Len(Messages(q)) : \E k \in 1..Len(q) : Messages(q)[j] = q[k]
<1>1. PICK f : f = Step(q, f, Len(q)) /\ Messages(q) = f[Len(q)]
  BY MessagesDef
<1> QED
  BY <1>1, KeptType

LEMMA MessagesEmpty == Messages(<<>>) = <<>>
<1>1. PICK f : f = Step(<<>>, f, Len(<<>>)) /\ Messages(<<>>) = f[Len(<<>>)]
  BY MessagesDef
<1>2. Len(<<>>) = 0
  OBVIOUS
<1>3. f = Step(<<>>, f, 0) /\ Messages(<<>>) = f[0]
  BY <1>1, <1>2
<1>4. f[0] = <<>>
  BY <1>3, StepAt
<1> QED
  BY <1>3, <1>4

(* Two queues that begin alike. *)
LEMMA SameKept ==
  ASSUME NEW q, NEW r, NEW n \in Nat, NEW m \in Nat, NEW f, NEW g,
         f = Step(q, f, n), g = Step(r, g, m),
         NEW h \in Nat, h <= n, h <= m, \A i \in 1..h : q[i] = r[i]
  PROVE  f[h] = g[h]
<1> DEFINE S == {i \in Nat : i <= h => f[i] = g[i]}
<1>1. 0 \in S
  <2>1. f[0] = <<>>
    <3>1. n \in Nat /\ f = Step(q, f, n)
      OBVIOUS
    <3> QED
      BY ONLY <3>1, StepAt
  <2>2. g[0] = <<>>
    <3>1. m \in Nat /\ g = Step(r, g, m)
      OBVIOUS
    <3> QED
      BY ONLY <3>1, StepAt
  <2> QED
    BY <2>1, <2>2
<1>2. ASSUME NEW k \in Nat, k \in S
      PROVE  k + 1 \in S
  <2> SUFFICES ASSUME k + 1 <= h
               PROVE  f[k + 1] = g[k + 1]
    OBVIOUS
  <2>1. k + 1 \in 1..n /\ k + 1 \in 1..m /\ k + 1 \in 1..h /\ (k + 1) - 1 = k
    OBVIOUS
  <2>2. f[k + 1] = IF q[k + 1] = Poison THEN f[k] ELSE Append(f[k], q[k + 1])
    BY <2>1, StepAt
  <2>3. g[k + 1] = IF r[k + 1] = Poison THEN g[k] ELSE Append(g[k], r[k + 1])
    BY <2>1, StepAt
  <2> QED
    BY <1>2, <2>1, <2>2, <2>3
<1>3. \A k \in Nat : k \in S
  <2> HIDE DEF S
  <2> QED
    BY <1>1, <1>2, Induction
<1> QED
  BY <1>3

LEMMA MessagesAppend ==
  ASSUME NEW q \in Seq(Entry), NEW m \in Entry
  PROVE  Messages(Append(q, m)) = IF m = Poison THEN Messages(q) ELSE Append(Messages(q), m)
<1> DEFINE r == Append(q, m)
<1>1. /\ r \in Seq(Entry) /\ Len(r) = Len(q) + 1 /\ r[Len(q) + 1] = m
      /\ \A i \in 1..Len(q) : r[i] = q[i]
  BY AppendProperties
<1> HIDE DEF r
<1>2. PICK f : f = Step(q, f, Len(q)) /\ Messages(q) = f[Len(q)]
  BY MessagesDef
<1>3. PICK g : g = Step(r, g, Len(r)) /\ Messages(r) = g[Len(r)]
  BY <1>1, MessagesDef
<1>4. f[Len(q)] = g[Len(q)]
  <2>1. Len(q) \in Nat /\ Len(r) \in Nat /\ Len(q) <= Len(r)
    BY <1>1
  <2> QED
    <3>1. \A i \in 1..Len(q) : q[i] = r[i]
      BY <1>1
    <3> HIDE <1>1
    <3> QED
      BY <1>2, <1>3, <2>1, <3>1, SameKept
<1>5. g[Len(r)] = IF m = Poison THEN g[Len(q)] ELSE Append(g[Len(q)], m)
  <2>1. Len(r) \in 1..Len(r) /\ Len(r) - 1 = Len(q) /\ Len(r) \in Nat /\ r[Len(r)] = m
    BY <1>1
  <2>2. g[Len(r)] = IF r[Len(r)] = Poison THEN g[Len(r) - 1] ELSE Append(g[Len(r) - 1], r[Len(r)])
    BY <1>3, <2>1, StepAt
  <2> QED
    BY <2>1, <2>2
<1>6. Messages(r) = IF m = Poison THEN Messages(q) ELSE Append(Messages(q), m)
  BY <1>2, <1>3, <1>4, <1>5
<1> QED
  BY <1>6 DEF r

LEMMA ConcatAppend ==
  ASSUME NEW s \in Seq(Message), NEW t \in Seq(Message), NEW e \in Message
  PROVE  Append(s \o t, e) = s \o Append(t, e)
<1>1. <<e>> \in Seq(Message) /\ s \o t \in Seq(Message)
  BY ConcatProperties
<1>2. (s \o t) \o <<e>> = s \o (t \o <<e>>)
  BY <1>1, ConcatAssociative
<1>3. Append(s \o t, e) = (s \o t) \o <<e>> /\ Append(t, e) = t \o <<e>>
  BY <1>1, AppendIsConcat
<1> QED
  BY <1>2, <1>3

LEMMA MessagesTail ==
  ASSUME NEW q \in Seq(Entry), q # <<>>
  PROVE  Messages(q) = IF Head(q) = Poison THEN Messages(Tail(q))
                       ELSE <<Head(q)>> \o Messages(Tail(q))
<1> DEFINE r == Tail(q)
           front == IF Head(q) = Poison THEN <<>> ELSE <<Head(q)>>
<1>1. /\ r \in Seq(Entry) /\ Len(r) \in Nat /\ Len(q) = Len(r) + 1
      /\ \A i \in 1..Len(r) : q[i + 1] = r[i]
      /\ q[1] = Head(q) /\ Head(q) \in Entry
  BY HeadTailProperties
<1>2. front \in Seq(Message)
  BY <1>1 DEF Entry
<1> HIDE DEF r
<1>3. PICK f : f = Step(q, f, Len(q)) /\ Messages(q) = f[Len(q)]
  BY MessagesDef
<1>4. PICK g : g = Step(r, g, Len(r)) /\ Messages(r) = g[Len(r)]
  BY <1>1, MessagesDef
<1>5. \A i \in 0..Len(r) : g[i] \in Seq(Message)
  BY <1>1, <1>4, KeptType
<1> DEFINE S == {i \in Nat : i <= Len(r) => f[i + 1] = front \o g[i]}
<1>6. 0 \in S
  <2>1. 1 \in 1..Len(q) /\ 1 - 1 = 0 /\ Len(q) \in Nat
    BY <1>1
  <2>2. f[0] = <<>> /\ g[0] = <<>>
    BY <1>1, <1>3, <1>4, <2>1, StepAt
  <2>3. f[1] = IF q[1] = Poison THEN f[1 - 1] ELSE Append(f[1 - 1], q[1])
    BY <1>3, <2>1, StepAt
  <2>4. f[1] = IF q[1] = Poison THEN <<>> ELSE Append(<<>>, q[1])
    BY <2>1, <2>2, <2>3
  <2>5. f[1] = front
    <3>1. CASE Head(q) = Poison
      BY <1>1, <2>4, <3>1
    <3>2. CASE Head(q) # Poison
      <4>1. f[1] = Append(<<>>, Head(q)) /\ front = <<Head(q)>>
        BY <1>1, <2>4, <3>2
      <4> HIDE DEF front
      <4> QED
        BY <1>1, <4>1
    <3> QED
      BY <3>1, <3>2
  <2> HIDE DEF front
  <2>6. front \o <<>> = front
    BY <1>2, ConcatEmptySeq
  <2>7. f[0 + 1] = front \o g[0]
    BY <2>2, <2>5, <2>6
  <2> QED
    BY <2>7
<1> HIDE DEF front
<1>7. ASSUME NEW n \in Nat, n \in S
      PROVE  n + 1 \in S
  <2> SUFFICES ASSUME n + 1 <= Len(r)
               PROVE  f[(n + 1) + 1] = front \o g[n + 1]
    OBVIOUS
  <2>1. /\ n + 1 \in 1..Len(r) /\ n + 2 \in 1..Len(q) /\ n \in 0..Len(r)
        /\ (n + 2) - 1 = n + 1 /\ (n + 1) - 1 = n /\ (n + 1) + 1 = n + 2 /\ Len(q) \in Nat
    BY <1>1
  <2>2. f[n + 1] = front \o g[n]
    BY <1>7, <2>1
  <2>3. q[n + 2] = r[n + 1]
    BY <1>1, <2>1
  <2>4. f[n + 2] = IF q[n + 2] = Poison THEN f[n + 1] ELSE Append(f[n + 1], q[n + 2])
    BY <1>3, <2>1, StepAt
  <2>5. g[n + 1] = IF r[n + 1] = Poison THEN g[n] ELSE Append(g[n], r[n + 1])
    BY <1>1, <1>4, <2>1, StepAt
  <2>6. CASE r[n + 1] = Poison
    BY <2>1, <2>2, <2>3, <2>4, <2>5, <2>6
  <2>7. CASE r[n + 1] # Poison
    <3>1. r[n + 1] \in Message /\ g[n] \in Seq(Message)
      BY <1>1, <1>5, <2>1, <2>7 DEF Entry
    <3>2. Append(front \o g[n], r[n + 1]) = front \o Append(g[n], r[n + 1])
      BY <1>2, <3>1, ConcatAppend
    <3> QED
      BY <2>1, <2>2, <2>3, <2>4, <2>5, <2>7, <3>2
  <2> QED
    BY <2>6, <2>7
<1>8. \A n \in Nat : n \in S
  <2> HIDE DEF S
  <2> QED
    BY <1>6, <1>7, Induction
<1>9. f[Len(q)] = front \o g[Len(r)]
  BY <1>1, <1>8
<1>10. Messages(q) = front \o Messages(r)
  BY <1>3, <1>4, <1>9
<1>11. CASE Head(q) = Poison
  <2>1. <<>> \o Messages(r) = Messages(r)
    BY <1>1, MessagesType, ConcatEmptySeq
  <2> QED
    BY <1>10, <1>11, <2>1 DEF front, r
<1>12. CASE Head(q) # Poison
  BY <1>10, <1>12 DEF front, r
<1> QED
  BY <1>11, <1>12

-----------------------------------------------------------------------------
(* The inductive invariant.                                                  *)

SenderPc == {"idle", "wait", "put", "error"}
DrainPc == {"idle", "checkClosed", "get", "send", "account", "error", "finish"} \union Drained
RunPc == {"start", "checkClosed", "connect", "running", "error", "onClosed", "tellClose", "done"}
ErrPc == {"idle", "tell", "settle", "tellClose", "mark", "shut", "poison", "done"}
CloserPc == {"ask", "mark", "shut", "poison", "done"}

Has(s, v) == \E i \in 1..Len(s) : s[i] = v

(* Where each thread may be, and whether it has a message in hand. *)
InPlace ==
    /\ \A s \in Sender : /\ pc[s] \in SenderPc
                         /\ pc[s] \in {"wait", "put"} => msg[s] \in Message
    /\ pc["drain"] \in DrainPc
    /\ pc["drain"] \in {"idle", "checkClosed", "get"} \union Drained => msg["drain"] = Poison
    /\ pc["drain"] \in {"send", "account", "error"} => msg["drain"] \in Message
    /\ pc["run"] = "start" => pc["drain"] = "idle"
    /\ pc["run"] \in RunPc /\ pc["err"] \in ErrPc /\ pc["closer"] \in CloserPc

(* A message that is not queued yet is nowhere else, nor is the next one. *)
Fresh(m) ==
    /\ ~Has(queue, m) /\ ~Has(wire, m)
    /\ m # msg["drain"]
FreshInHand ==
    /\ \A m \in Nat : m >= next => Fresh(m)
    /\ \A s \in Sender : pc[s] \in {"wait", "put"} =>
           /\ msg[s] < next /\ Fresh(msg[s])
           /\ \A t \in Sender \ {s} : pc[t] \in {"wait", "put"} => msg[t] # msg[s]

(* The flags say how far the error callback has come, and the close callback is
   in one place at a time.                                                   *)
Callbacks ==
    /\ fired <=> pc["err"] # "idle"
    /\ Has(told, "error") <=> pc["err"] \notin {"idle", "tell"}
    /\ pendingFire <=> pc["err"] \in {"tell", "settle"}
    /\ deferredClose => pendingFire /\ pc["run"] = "done" /\ ~Has(told, "close")
    /\ Has(told, "close") => pc["run"] = "done" /\ pc["err"] # "tellClose"
    /\ pc["err"] = "tellClose" => pc["run"] = "done"

(* The queue is closed before the thread that drains it goes. *)
ShutFirst == pc["drain"] \in Drained => ~open

-----------------------------------------------------------------------------
(* Type correctness.                                                         *)

LEMMA MessageEntry == Message \union {Poison} = Entry /\ Message \subseteq Nat /\ Poison \notin Message
BY BoundAssumption DEF Entry, Message, Poison

LEMMA AfterErrorPc == \A t : AfterError(t) \in Pc
BY DEF AfterError, Pc

(* What the actions do to the sequences. *)
LEMMA SeqType ==
  ASSUME TypeOK
  PROVE  /\ <<>> \in Seq(Message \union {Poison})
         /\ <<>> \in Seq(Message) /\ <<>> \in Seq({"open", "error", "close"})
         /\ queue # <<>> => Tail(queue) \in Seq(Message \union {Poison})
         /\ queue # <<>> => Head(queue) \in Message \union {Poison}
         /\ \A m \in Message \union {Poison} : Append(queue, m) \in Seq(Message \union {Poison})
         /\ \A m \in Message : Append(wire, m) \in Seq(Message)
         /\ \A v \in {"open", "error", "close"} : Append(told, v) \in Seq({"open", "error", "close"})
<1> DEFINE E == Message \union {Poison}
           C == {"open", "error", "close"}
<1>1. queue \in Seq(E) /\ wire \in Seq(Message) /\ told \in Seq(C)
  BY DEF TypeOK
<1> HIDE DEF E, C
<1>2. \A S : <<>> \in Seq(S)
  OBVIOUS
<1>3. \A m \in E : Append(queue, m) \in Seq(E)
  BY <1>1, AppendProperties
<1>4. \A m \in Message : Append(wire, m) \in Seq(Message)
  BY <1>1, AppendProperties
<1>5. \A v \in C : Append(told, v) \in Seq(C)
  BY <1>1, AppendProperties
<1>6. queue # <<>> => Tail(queue) \in Seq(E) /\ Head(queue) \in E
  BY <1>1, HeadTailProperties
<1> QED
  BY <1>2, <1>3, <1>4, <1>5, <1>6 DEF E, C

LEMMA InitType == Init => TypeOK
<1> SUFFICES ASSUME Init PROVE TypeOK
  OBVIOUS
<1>1. pc \in [Thread -> Pc] /\ msg \in [Thread -> Message \union {Poison}]
  BY DEF Init, Pc
<1>2. \A S : <<>> \in Seq(S)
  OBVIOUS
<1>3. {requested, isClosed, wsRef, fired, pendingFire, deferredClose, open} \subseteq BOOLEAN
  BY DEF Init
<1> QED
  BY <1>1, <1>2, <1>3 DEF Init, TypeOK

LEMMA StepType ==
  ASSUME TypeOK, InPlace, [Next]_vars
  PROVE  TypeOK'
<1> USE DEF TypeOK, Goto, At
<1>1. ASSUME NEW s \in Sender, SendStep(s)
      PROVE  TypeOK'
  <2>1. s \in Thread /\ {"wait", "put", "idle", "error"} \subseteq Pc
    BY DEF Thread, Pc
  <2>2. CASE Send(s)
    <3>1. next \in Message
      BY <2>2 DEF Send, Message
    <3>2. next' \in Nat \ {0} /\ msg' \in [Thread -> Message \union {Poison}]
      BY <2>1, <2>2, <3>1 DEF Send
    <3>3. pc' \in [Thread -> Pc]
      BY <2>1, <2>2 DEF Send
    <3> QED
      BY <2>2, <3>2, <3>3 DEF Send, errorVars, closeVars, queueVars, linkVars
  <2>3. CASE Admit(s)
    BY <2>1, <2>3 DEF Admit, errorVars, closeVars, linkVars
  <2>4. CASE Put(s)
    BY <2>1, <2>4, SeqType DEF Put, errorVars, closeVars, linkVars
  <2>5. CASE HandleError(s)
    <3>1. AfterError(s) \in Pc /\ "tell" \in Pc /\ s \in Thread /\ "err" \in Thread
      BY <2>1, AfterErrorPc DEF Pc, Thread, Service
    <3>2. CASE requested \/ fired
      BY <2>5, <3>1, <3>2 DEF HandleError, errorVars, closeVars, queueVars, linkVars
    <3>3. CASE ~(requested \/ fired)
      BY <2>5, <3>1, <3>3 DEF HandleError, errorVars, closeVars, queueVars, linkVars
    <3> QED
      BY <3>2, <3>3
  <2> QED
    BY <1>1, <2>2, <2>3, <2>4, <2>5 DEF SendStep
<1>2. ASSUME NEW t \in Closer, CloseStep(t)
      PROVE  TypeOK'
  <2>1. {"shut", "poison", "drop", "done"} \subseteq Pc
    BY DEF Pc, ClosePc
  <2>2. CASE MarkClosed(t)
    BY <2>1, <2>2 DEF MarkClosed, errorVars, queueVars, linkVars
  <2>3. CASE ShutSocket(t)
    BY <2>1, <2>3 DEF ShutSocket, errorVars, closeVars, queueVars
  <2>4. CASE PutPoison(t)
    BY <2>1, <2>4, SeqType DEF PutPoison, errorVars, linkVars
  <2> QED
    BY <1>2, <2>2, <2>3, <2>4 DEF CloseStep
<1>3. CASE Close
  BY <1>3 DEF Close, Pc, ClosePc, errorVars, queueVars, linkVars
<1>4. CASE RunStep
  <2>1. CASE StartDrain
    BY <2>1 DEF StartDrain, Pc, errorVars, closeVars, queueVars, linkVars
  <2>2. CASE CheckRun
    BY <2>2 DEF CheckRun, Pc, errorVars, closeVars, queueVars, linkVars
  <2>3. CASE Connect
    BY <2>3, SeqType DEF Connect, Pc, errorVars, closeVars, queueVars
  <2>4. CASE Lost
    BY <2>4 DEF Lost, Pc, errorVars, closeVars, queueVars
  <2>5. CASE OnClosed
    BY <2>5 DEF OnClosed, Pc, closeVars, queueVars, linkVars
  <2>6. CASE TellClose
    BY <2>6, SeqType DEF TellClose, Pc, errorVars, closeVars, queueVars, linkVars
  <2>7. CASE HandleError("run")
    <3>1. AfterError("run") \in Pc /\ "tell" \in Pc /\ "run" \in Thread /\ "err" \in Thread
      BY AfterErrorPc DEF Pc, Thread, Service
    <3>2. CASE requested \/ fired
      BY <2>7, <3>1, <3>2 DEF HandleError, errorVars, closeVars, queueVars, linkVars
    <3>3. CASE ~(requested \/ fired)
      BY <2>7, <3>1, <3>3 DEF HandleError, errorVars, closeVars, queueVars, linkVars
    <3> QED
      BY <3>2, <3>3
  <2> QED
    BY <1>4, <2>1, <2>2, <2>3, <2>4, <2>5, <2>6, <2>7 DEF RunStep
<1>5. CASE DrainStep
  <2>1. CASE CheckDrain
    BY <2>1 DEF CheckDrain, Pc, errorVars, closeVars, queueVars, linkVars
  <2>2. CASE Get
    <3>1. {"checkClosed", "finish", "send"} \subseteq Pc /\ "drain" \in Thread
      BY DEF Pc, Thread, Service
    <3>2. CASE queue = <<>>
      BY <2>2, <3>1, <3>2 DEF Get, errorVars, closeVars, linkVars
    <3>3. CASE queue # <<>>
      BY <2>2, <3>1, <3>3, SeqType DEF Get, errorVars, closeVars, linkVars
    <3> QED
      BY <3>2, <3>3
  <2>3. CASE Transmit
    <3>1. {"account", "error"} \subseteq Pc /\ "drain" \in Thread /\ msg["drain"] \in Message
      BY <2>3 DEF Transmit, InPlace, Pc, Thread, Service
    <3> QED
      BY <2>3, <3>1, SeqType DEF Transmit, errorVars, closeVars, queueVars
  <2>4. CASE Account
    <3>1. "checkClosed" \in Pc /\ "drain" \in Thread
      BY DEF Pc, Thread, Service
    <3>2. size' \in Nat
      BY <2>4 DEF Account
    <3> QED
      BY <2>4, <3>1, <3>2 DEF Account, errorVars, closeVars, linkVars
  <2>5. CASE CloseQueue
    BY <2>5 DEF CloseQueue, Pc, ClosePc, errorVars, closeVars, linkVars
  <2>6. CASE DropQueue
    BY <2>6, SeqType DEF DropQueue, Pc, errorVars, closeVars, linkVars
  <2>7. CASE HandleError("drain")
    <3>1. AfterError("drain") \in Pc /\ "tell" \in Pc /\ "drain" \in Thread /\ "err" \in Thread
      BY AfterErrorPc DEF Pc, Thread, Service
    <3>2. CASE requested \/ fired
      BY <2>7, <3>1, <3>2 DEF HandleError, errorVars, closeVars, queueVars, linkVars
    <3>3. CASE ~(requested \/ fired)
      BY <2>7, <3>1, <3>3 DEF HandleError, errorVars, closeVars, queueVars, linkVars
    <3> QED
      BY <3>2, <3>3
  <2> QED
    BY <1>5, <2>1, <2>2, <2>3, <2>4, <2>5, <2>6, <2>7 DEF DrainStep
<1>6. CASE ErrorStep
  <2>1. CASE TellError
    BY <2>1, SeqType DEF TellError, Pc, errorVars, closeVars, queueVars, linkVars
  <2>2. CASE Settle
    BY <2>2 DEF Settle, Pc, ClosePc, closeVars, queueVars, linkVars
  <2>3. CASE TellDeferredClose
    BY <2>3, SeqType DEF TellDeferredClose, Pc, ClosePc, errorVars, closeVars, queueVars, linkVars
  <2> QED
    BY <1>6, <2>1, <2>2, <2>3 DEF ErrorStep
<1>7. CASE UNCHANGED vars
  BY <1>7 DEF vars, errorVars, closeVars, queueVars, linkVars
<1> QED
  BY <1>1, <1>2, <1>3, <1>4, <1>5, <1>6, <1>7 DEF Next

-----------------------------------------------------------------------------
(* Where the threads are.                                                    *)

LEMMA Names ==
  /\ Service \subseteq Thread /\ Closer \subseteq Service
  /\ \A s \in Sender : s \in Thread /\ s \notin Service
BY SenderAssumption DEF Thread, Service, Closer

LEMMA StepInPlace ==
  ASSUME TypeOK, InPlace, [Next]_vars
  PROVE  InPlace'
<1> USE Names DEF TypeOK, InPlace, SenderPc, DrainPc, RunPc, ErrPc, CloserPc, Drained,
           Service, Closer, Goto, At
<1>1. ASSUME NEW s \in Sender, Send(s)
      PROVE  InPlace'
  <2>1. next \in Message
    BY <1>1 DEF Send, Message
  <2> QED
    BY <1>1, <2>1 DEF Send, errorVars, closeVars, queueVars, linkVars
<1>2. ASSUME NEW s \in Sender, Admit(s)
      PROVE  InPlace'
  BY <1>2 DEF Admit, errorVars, closeVars, linkVars
<1>3. ASSUME NEW s \in Sender, Put(s)
      PROVE  InPlace'
  BY <1>3 DEF Put, errorVars, closeVars, linkVars
<1>4. ASSUME NEW s \in Sender, HandleError(s)
      PROVE  InPlace'
  BY <1>4 DEF HandleError, errorVars, closeVars, queueVars, linkVars, AfterError
<1>5. ASSUME NEW t \in Closer, MarkClosed(t)
      PROVE  InPlace'
  BY <1>5 DEF MarkClosed, errorVars, queueVars, linkVars
<1>6. ASSUME NEW t \in Closer, ShutSocket(t)
      PROVE  InPlace'
  BY <1>6 DEF ShutSocket, errorVars, closeVars, queueVars
<1>7. ASSUME NEW t \in Closer, PutPoison(t)
      PROVE  InPlace'
  BY <1>7 DEF PutPoison, errorVars, linkVars
<1>8. CASE Close
  BY <1>8 DEF Close, errorVars, queueVars, linkVars
<1>9. CASE StartDrain
  BY <1>9 DEF StartDrain, errorVars, closeVars, queueVars, linkVars
<1>10. CASE CheckRun
  BY <1>10 DEF CheckRun, errorVars, closeVars, queueVars, linkVars
<1>11. CASE Connect
  BY <1>11 DEF Connect, errorVars, closeVars, queueVars
<1>12. CASE Lost
  BY <1>12 DEF Lost, errorVars, closeVars, queueVars
<1>13. CASE OnClosed
  BY <1>13 DEF OnClosed, closeVars, queueVars, linkVars
<1>14. CASE TellClose
  BY <1>14 DEF TellClose, errorVars, closeVars, queueVars, linkVars
<1>15. CASE HandleError("run")
  <2>1. /\ pc["run"] = "error" /\ msg' = msg /\ pc'["run"] = "onClosed"
        /\ pc'["err"] \in {pc["err"], "tell"}
        /\ \A u \in Thread \ {"run", "err"} : pc'[u] = pc[u]
    BY <1>15 DEF HandleError, AfterError
  <2> QED
    BY <2>1
<1>16. CASE CheckDrain
  BY <1>16 DEF CheckDrain, errorVars, closeVars, queueVars, linkVars
<1>17. CASE Get
  BY <1>17 DEF Get, errorVars, closeVars, linkVars
<1>18. CASE Transmit
  BY <1>18 DEF Transmit, errorVars, closeVars, queueVars
<1>19. CASE Account
  BY <1>19 DEF Account, errorVars, closeVars, linkVars
<1>20. CASE CloseQueue
  BY <1>20 DEF CloseQueue, errorVars, closeVars, linkVars
<1>21. CASE DropQueue
  BY <1>21 DEF DropQueue, errorVars, closeVars, linkVars
<1>22. CASE HandleError("drain")
  <2>1. /\ pc["drain"] = "error" /\ msg' = msg /\ pc'["drain"] = "finish"
        /\ pc'["err"] \in {pc["err"], "tell"}
        /\ \A u \in Thread \ {"drain", "err"} : pc'[u] = pc[u]
    BY <1>22 DEF HandleError, AfterError
  <2> QED
    BY <2>1
<1>23. CASE TellError
  BY <1>23 DEF TellError, errorVars, closeVars, queueVars, linkVars
<1>24. CASE Settle
  BY <1>24 DEF Settle, closeVars, queueVars, linkVars
<1>25. CASE TellDeferredClose
  BY <1>25 DEF TellDeferredClose, errorVars, closeVars, queueVars, linkVars
<1>26. CASE UNCHANGED vars
  BY <1>26 DEF vars, errorVars, closeVars, queueVars, linkVars
<1> QED
  BY <1>1, <1>2, <1>3, <1>4, <1>5, <1>6, <1>7, <1>8, <1>9,
     <1>10, <1>11, <1>12, <1>13, <1>14, <1>15, <1>16, <1>17, <1>18,
     <1>19, <1>20, <1>21, <1>22, <1>23, <1>24, <1>25, <1>26
     DEF Next, SendStep, CloseStep, RunStep, DrainStep, ErrorStep

-----------------------------------------------------------------------------
(* The callbacks.                                                            *)

LEMMA HasAppend ==
  ASSUME NEW S, NEW q \in Seq(S), NEW e \in S, NEW v
  PROVE  Has(Append(q, e), v) <=> Has(q, v) \/ e = v
<1>1. /\ Len(Append(q, e)) = Len(q) + 1 /\ Len(q) \in Nat
      /\ \A i \in 1..Len(q) : Append(q, e)[i] = q[i]
      /\ Append(q, e)[Len(q) + 1] = e
  BY AppendProperties
<1>2. ASSUME Has(q, v) \/ e = v
      PROVE  Has(Append(q, e), v)
  <2>1. CASE Has(q, v)
    BY <1>1, <2>1 DEF Has
  <2>2. CASE e = v
    BY <1>1, <2>2 DEF Has
  <2> QED
    BY <1>2, <2>1, <2>2
<1>3. ASSUME Has(Append(q, e), v)
      PROVE  Has(q, v) \/ e = v
  <2>1. PICK i \in 1..Len(Append(q, e)) : Append(q, e)[i] = v
    BY <1>3 DEF Has
  <2>2. CASE i \in 1..Len(q)
    BY <1>1, <2>1, <2>2 DEF Has
  <2>3. CASE i = Len(q) + 1
    BY <1>1, <2>1, <2>3
  <2> QED
    BY <1>1, <2>1, <2>2, <2>3
<1> QED
  BY <1>2, <1>3

LEMMA HasTold ==
  ASSUME TypeOK, NEW v \in {"open", "error", "close"}, NEW w
  PROVE  Has(Append(told, v), w) <=> Has(told, w) \/ v = w
<1>1. told \in Seq({"open", "error", "close"})
  BY DEF TypeOK
<1> QED
  BY <1>1, HasAppend

LEMMA StepCallbacks ==
  ASSUME TypeOK, InPlace, Callbacks, [Next]_vars
  PROVE  Callbacks'
<1> USE Names DEF TypeOK, InPlace, SenderPc, DrainPc, RunPc, ErrPc, CloserPc, Drained,
           Service, Closer, Goto, At, Callbacks
<1>1. ASSUME NEW s \in Sender, Send(s)
      PROVE  Callbacks'
  BY <1>1 DEF Send, errorVars, closeVars, queueVars, linkVars
<1>2. ASSUME NEW s \in Sender, Admit(s)
      PROVE  Callbacks'
  BY <1>2 DEF Admit, errorVars, closeVars, linkVars
<1>3. ASSUME NEW s \in Sender, Put(s)
      PROVE  Callbacks'
  BY <1>3 DEF Put, errorVars, closeVars, linkVars
<1>4. ASSUME NEW s \in Sender, HandleError(s)
      PROVE  Callbacks'
  BY <1>4 DEF HandleError, errorVars, closeVars, queueVars, linkVars, AfterError
<1>5. ASSUME NEW t \in Closer, MarkClosed(t)
      PROVE  Callbacks'
  BY <1>5 DEF MarkClosed, errorVars, queueVars, linkVars
<1>6. ASSUME NEW t \in Closer, ShutSocket(t)
      PROVE  Callbacks'
  BY <1>6 DEF ShutSocket, errorVars, closeVars, queueVars
<1>7. ASSUME NEW t \in Closer, PutPoison(t)
      PROVE  Callbacks'
  BY <1>7 DEF PutPoison, errorVars, linkVars
<1>8. CASE Close
  BY <1>8 DEF Close, errorVars, queueVars, linkVars
<1>9. CASE StartDrain
  BY <1>9 DEF StartDrain, errorVars, closeVars, queueVars, linkVars
<1>10. CASE CheckRun
  BY <1>10 DEF CheckRun, errorVars, closeVars, queueVars, linkVars
<1>11. CASE Connect
  <2>1. CASE told' = told
    BY <1>11, <2>1 DEF Connect, errorVars, closeVars, queueVars
  <2>2. CASE told' = Append(told, "open")
    <3>1. /\ Has(Append(told, "open"), "error") <=> Has(told, "error")
          /\ Has(Append(told, "open"), "close") <=> Has(told, "close")
      BY HasTold
    <3> QED
      BY <1>11, <2>2, <3>1 DEF Connect, errorVars, closeVars, queueVars
  <2> QED
    BY <1>11, <2>1, <2>2 DEF Connect
<1>12. CASE Lost
  BY <1>12 DEF Lost, errorVars, closeVars, queueVars
<1>13. CASE OnClosed
  BY <1>13 DEF OnClosed, closeVars, queueVars, linkVars
<1>14. CASE TellClose
  BY <1>14, HasTold DEF TellClose, errorVars, closeVars, queueVars, linkVars
<1>15. CASE HandleError("run")
  BY <1>15 DEF HandleError, errorVars, closeVars, queueVars, linkVars, AfterError
<1>16. CASE CheckDrain
  BY <1>16 DEF CheckDrain, errorVars, closeVars, queueVars, linkVars
<1>17. CASE Get
  BY <1>17 DEF Get, errorVars, closeVars, linkVars
<1>18. CASE Transmit
  BY <1>18 DEF Transmit, errorVars, closeVars, queueVars
<1>19. CASE Account
  BY <1>19 DEF Account, errorVars, closeVars, linkVars
<1>20. CASE CloseQueue
  BY <1>20 DEF CloseQueue, errorVars, closeVars, linkVars
<1>21. CASE DropQueue
  BY <1>21 DEF DropQueue, errorVars, closeVars, linkVars
<1>22. CASE HandleError("drain")
  BY <1>22 DEF HandleError, errorVars, closeVars, queueVars, linkVars, AfterError
<1>23. CASE TellError
  BY <1>23, HasTold DEF TellError, errorVars, closeVars, queueVars, linkVars
<1>24. CASE Settle
  BY <1>24 DEF Settle, closeVars, queueVars, linkVars
<1>25. CASE TellDeferredClose
  BY <1>25, HasTold DEF TellDeferredClose, errorVars, closeVars, queueVars, linkVars
<1>26. CASE UNCHANGED vars
  BY <1>26 DEF vars, errorVars, closeVars, queueVars, linkVars
<1> QED
  BY <1>1, <1>2, <1>3, <1>4, <1>5, <1>6, <1>7, <1>8, <1>9,
     <1>10, <1>11, <1>12, <1>13, <1>14, <1>15, <1>16, <1>17, <1>18,
     <1>19, <1>20, <1>21, <1>22, <1>23, <1>24, <1>25, <1>26
     DEF Next, SendStep, CloseStep, RunStep, DrainStep, ErrorStep

-----------------------------------------------------------------------------
(* Messages that are not queued yet.                                         *)

LEMMA HasQueue ==
  ASSUME TypeOK
  PROVE  /\ \A m \in Entry : \A v : Has(Append(queue, m), v) <=> Has(queue, v) \/ m = v
         /\ \A m \in Message : \A v : Has(Append(wire, m), v) <=> Has(wire, v) \/ m = v
         /\ queue # <<>> => Has(queue, Head(queue))
         /\ queue # <<>> => \A v : Has(Tail(queue), v) => Has(queue, v)
         /\ \A v : ~Has(<<>>, v)
<1>1. queue \in Seq(Entry) /\ wire \in Seq(Message)
  BY DEF TypeOK, Entry
<1>2. \A m \in Entry : \A v : Has(Append(queue, m), v) <=> Has(queue, v) \/ m = v
  BY <1>1, HasAppend
<1>3. \A m \in Message : \A v : Has(Append(wire, m), v) <=> Has(wire, v) \/ m = v
  BY <1>1, HasAppend
<1>4. ASSUME queue # <<>>
      PROVE  Has(queue, Head(queue)) /\ \A v : Has(Tail(queue), v) => Has(queue, v)
  <2>1. /\ Head(queue) = queue[1] /\ Len(queue) \in Nat /\ Len(queue) > 0
        /\ Len(Tail(queue)) = Len(queue) - 1
        /\ \A i \in 1..Len(Tail(queue)) : Tail(queue)[i] = queue[i + 1]
    BY <1>1, <1>4, HeadTailProperties
  <2> QED
    BY <2>1 DEF Has
<1>5. \A v : ~Has(<<>>, v)
  BY DEF Has
<1> QED
  BY <1>2, <1>3, <1>4, <1>5

LEMMA HasPoison ==
  ASSUME TypeOK
  PROVE  \A v : Has(Append(queue, Poison), v) <=> Has(queue, v) \/ Poison = v
BY HasQueue DEF Entry

LEMMA StepFresh ==
  ASSUME TypeOK, InPlace, FreshInHand, [Next]_vars
  PROVE  FreshInHand'
<1> USE Names DEF TypeOK, InPlace, SenderPc, DrainPc, Drained,
           Service, Closer, Goto, At, FreshInHand, Fresh
<1>0. /\ \A m \in Nat : m >= next => m # Poison
      /\ \A s \in Sender : pc[s] \in {"wait", "put"} => msg[s] \in Nat /\ msg[s] # Poison
  <2>1. \A m \in Nat : m >= next => m # Poison
    BY DEF Poison
  <2>2. \A m \in Message : m \in Nat /\ m # Poison
    BY MessageEntry
  <2> QED
    BY <2>1, <2>2
<1>1. ASSUME NEW s \in Sender, Send(s)
      PROVE  FreshInHand'
  <2>1. /\ next \in Nat /\ next' = next + 1 /\ queue' = queue /\ wire' = wire
        /\ msg'["drain"] = msg["drain"] /\ msg'[s] = next
        /\ \A t \in Sender \ {s} : msg'[t] = msg[t] /\ pc'[t] = pc[t]
    BY <1>1 DEF Send, queueVars, linkVars
  <2>2. \A m \in Nat : m >= next' => Fresh(m)'
    BY <2>1
  <2>3. ASSUME NEW u \in Sender, pc'[u] \in {"wait", "put"}
        PROVE  /\ msg'[u] < next' /\ Fresh(msg[u])'
               /\ \A t \in Sender \ {u} : pc'[t] \in {"wait", "put"} => msg'[t] # msg'[u]
    <3>1. CASE u = s
      <4>1. \A t \in Sender \ {u} : pc'[t] \in {"wait", "put"} => msg'[t] < next /\ msg'[t] \in Nat
        BY <1>0, <2>1, <3>1
      <4>2. msg'[u] = next /\ next < next'
        BY <2>1, <3>1
      <4>3. ~Has(queue', next) /\ ~Has(wire', next) /\ next # msg'["drain"]
        BY <2>1
      <4>4. Fresh(msg[u])'
        BY ONLY <4>2, <4>3 DEF Fresh
      <4>5. \A t \in Sender \ {u} : pc'[t] \in {"wait", "put"} => msg'[t] # msg'[u]
        BY <2>1, <4>1, <4>2
      <4> QED
        BY <2>1, <4>2, <4>4, <4>5
    <3>2. CASE u # s
      <4>1. /\ msg'[u] = msg[u] /\ pc[u] \in {"wait", "put"} /\ msg[u] < next /\ msg[u] \in Nat
            /\ Fresh(msg[u])
        BY <1>0, <2>1, <2>3, <3>2
      <4>2. Fresh(msg[u])'
        BY <2>1, <4>1
      <4>3. ASSUME NEW t \in Sender \ {u}, pc'[t] \in {"wait", "put"}
            PROVE  msg'[t] # msg'[u]
        <5>1. CASE t = s
          BY <2>1, <4>1, <5>1
        <5>2. CASE t # s
          BY <2>1, <3>2, <4>1, <4>3, <5>2
        <5> QED
          BY <5>1, <5>2
      <4> QED
        BY <2>1, <4>1, <4>2, <4>3
    <3> QED
      BY <3>1, <3>2
  <2> QED
    BY <2>2, <2>3
<1>2. ASSUME NEW s \in Sender, Admit(s)
      PROVE  FreshInHand'
  BY <1>2 DEF Admit, errorVars, closeVars, linkVars
<1>3. ASSUME NEW s \in Sender, Put(s)
      PROVE  FreshInHand'
  BY <1>3, HasQueue, MessageEntry DEF Put, errorVars, closeVars, linkVars
<1>4. ASSUME NEW s \in Sender, HandleError(s)
      PROVE  FreshInHand'
  BY <1>4 DEF HandleError, errorVars, closeVars, queueVars, linkVars, AfterError
<1>5. ASSUME NEW t \in Closer, MarkClosed(t)
      PROVE  FreshInHand'
  BY <1>5 DEF MarkClosed, errorVars, queueVars, linkVars
<1>6. ASSUME NEW t \in Closer, ShutSocket(t)
      PROVE  FreshInHand'
  BY <1>6 DEF ShutSocket, errorVars, closeVars, queueVars
<1>7. ASSUME NEW t \in Closer, PutPoison(t)
      PROVE  FreshInHand'
  BY <1>0, <1>7, HasPoison DEF PutPoison, errorVars, linkVars
<1>8. CASE Close
  BY <1>8 DEF Close, errorVars, queueVars, linkVars
<1>9. CASE StartDrain
  BY <1>9 DEF StartDrain, errorVars, closeVars, queueVars, linkVars
<1>10. CASE CheckRun
  BY <1>10 DEF CheckRun, errorVars, closeVars, queueVars, linkVars
<1>11. CASE Connect
  BY <1>11 DEF Connect, errorVars, closeVars, queueVars
<1>12. CASE Lost
  BY <1>12 DEF Lost, errorVars, closeVars, queueVars
<1>13. CASE OnClosed
  BY <1>13 DEF OnClosed, closeVars, queueVars, linkVars
<1>14. CASE TellClose
  BY <1>14 DEF TellClose, errorVars, closeVars, queueVars, linkVars
<1>15. CASE HandleError("run")
  BY <1>15 DEF HandleError, errorVars, closeVars, queueVars, linkVars, AfterError
<1>16. CASE CheckDrain
  BY <1>16 DEF CheckDrain, errorVars, closeVars, queueVars, linkVars
<1>17. CASE Get
  <2>1. CASE queue = <<>>
    BY <1>17, <2>1 DEF Get, errorVars, closeVars, linkVars
  <2>2. CASE queue # <<>>
    <3>1. /\ queue' = Tail(queue) /\ msg'["drain"] = Head(queue) /\ next' = next /\ wire' = wire
          /\ \A s \in Sender : msg'[s] = msg[s] /\ pc'[s] = pc[s]
      BY <1>17, <2>2 DEF Get, linkVars
    <3>2. \A m : Fresh(m) => Fresh(m)'
      BY <2>2, <3>1, HasQueue
    <3> QED
      BY <3>1, <3>2
  <2> QED
    BY <2>1, <2>2
<1>18. CASE Transmit
  <2>1. /\ UNCHANGED <<queue, msg, next>>
        /\ \A s \in Sender : pc'[s] = pc[s]
        /\ msg["drain"] \in Message
        /\ wire' = wire \/ wire' = Append(wire, msg["drain"])
    BY <1>18 DEF Transmit, queueVars
  <2>2. \A m : Fresh(m) => Fresh(m)'
    <3>1. \A v : Has(Append(wire, msg["drain"]), v) <=> Has(wire, v) \/ msg["drain"] = v
      BY <2>1, HasQueue
    <3> QED
      BY <2>1, <3>1
  <2> QED
    BY <2>1, <2>2
<1>19. CASE Account
  BY <1>0, <1>19 DEF Account, errorVars, closeVars, linkVars
<1>20. CASE CloseQueue
  BY <1>0, <1>20 DEF CloseQueue, errorVars, closeVars, linkVars
<1>21. CASE DropQueue
  BY <1>21, HasQueue DEF DropQueue, errorVars, closeVars, linkVars
<1>22. CASE HandleError("drain")
  BY <1>22 DEF HandleError, errorVars, closeVars, queueVars, linkVars, AfterError
<1>23. CASE TellError
  BY <1>23 DEF TellError, errorVars, closeVars, queueVars, linkVars
<1>24. CASE Settle
  BY <1>24 DEF Settle, closeVars, queueVars, linkVars
<1>25. CASE TellDeferredClose
  BY <1>25 DEF TellDeferredClose, errorVars, closeVars, queueVars, linkVars
<1>26. CASE UNCHANGED vars
  BY <1>26 DEF vars, errorVars, closeVars, queueVars, linkVars
<1> QED
  BY <1>1, <1>2, <1>3, <1>4, <1>5, <1>6, <1>7, <1>8, <1>9,
     <1>10, <1>11, <1>12, <1>13, <1>14, <1>15, <1>16, <1>17, <1>18,
     <1>19, <1>20, <1>21, <1>22, <1>23, <1>24, <1>25, <1>26
     DEF Next, SendStep, CloseStep, RunStep, DrainStep, ErrorStep

-----------------------------------------------------------------------------
(* The count of messages.                                                    *)

Putting == {s \in Sender : At(s, "put")}
Queued == Len(Messages(queue))
BeingSent == IF pc["drain"] \in {"send", "account", "error"}
                  \/ (At("drain", "finish") /\ msg["drain"] # Poison) THEN 1 ELSE 0

Counted ==
    /\ pc["drain"] \in Drained => ~open
    /\ open => size = Queued + Cardinality(Putting) + BeingSent
    /\ At("drain", "done") => Queued + Cardinality(Putting) <= Cardinality(Sender)

LEMMA CountedIs == (ShutFirst /\ SizeCounts /\ LeakBounded) <=> Counted
BY DEF ShutFirst, SizeCounts, LeakBounded, Counted, Putting, Queued, BeingSent

LEMMA PuttingSize ==
  /\ IsFiniteSet(Putting) /\ Cardinality(Putting) \in Nat
  /\ Cardinality(Sender) \in Nat /\ Cardinality(Putting) <= Cardinality(Sender)
  /\ \A s \in Putting : Cardinality(Putting \ {s}) = Cardinality(Putting) - 1
  /\ \A s \in Sender \ Putting : Cardinality(Putting \union {s}) = Cardinality(Putting) + 1
<1>1. Putting \in SUBSET Sender /\ IsFiniteSet(Sender)
  BY SenderAssumption DEF Putting
<1> HIDE DEF Putting
<1>2. IsFiniteSet(Putting) /\ Cardinality(Putting) <= Cardinality(Sender)
  BY <1>1, FS_Subset
<1>3. Cardinality(Putting) \in Nat /\ Cardinality(Sender) \in Nat
  BY <1>1, <1>2, FS_CardinalityType
<1>4. \A s \in Putting : Cardinality(Putting \ {s}) = Cardinality(Putting) - 1
  BY <1>2, FS_RemoveElement
<1>5. \A s \in Sender \ Putting : Cardinality(Putting \union {s}) = Cardinality(Putting) + 1
  BY <1>2, FS_AddElement
<1> QED
  BY <1>1, <1>2, <1>3, <1>4, <1>5

LEMMA QueuedIs ==
  ASSUME TypeOK
  PROVE  /\ Queued \in Nat
         /\ queue' = queue => Queued' = Queued
         /\ queue' = <<>> => Queued' = 0
         /\ queue' = Append(queue, Poison) => Queued' = Queued
         /\ \A m \in Message : queue' = Append(queue, m) => Queued' = Queued + 1
         /\ queue # <<>> /\ queue' = Tail(queue) =>
                Queued = (IF Head(queue) = Poison THEN Queued' ELSE Queued' + 1) /\ Queued' \in Nat
<1>1. queue \in Seq(Entry) /\ Poison \in Entry /\ Message \subseteq Entry /\ Poison \notin Message
  BY MessageEntry DEF TypeOK, Entry
<1>2. Messages(queue) \in Seq(Message) /\ Queued \in Nat
  BY <1>1, MessagesType DEF Queued
<1>3. queue' = <<>> => Queued' = 0
  BY MessagesEmpty DEF Queued
<1>4. queue' = Append(queue, Poison) => Queued' = Queued
  BY <1>1, MessagesAppend DEF Queued
<1>5. ASSUME NEW m \in Message, queue' = Append(queue, m)
      PROVE  Queued' = Queued + 1
  <2>1. Messages(Append(queue, m)) = Append(Messages(queue), m)
    BY <1>1, MessagesAppend
  <2>2. Len(Append(Messages(queue), m)) = Len(Messages(queue)) + 1
    BY <1>2, AppendProperties
  <2> QED
    BY <1>5, <2>1, <2>2 DEF Queued
<1>6. ASSUME queue # <<>>, queue' = Tail(queue)
      PROVE  Queued = (IF Head(queue) = Poison THEN Queued' ELSE Queued' + 1) /\ Queued' \in Nat
  <2>1. Tail(queue) \in Seq(Entry) /\ Head(queue) \in Entry
    BY <1>1, <1>6, HeadTailProperties
  <2>2. Messages(Tail(queue)) \in Seq(Message)
    BY <2>1, MessagesType
  <2>3. CASE Head(queue) = Poison
    <3>1. Messages(queue) = Messages(Tail(queue))
      BY <1>1, <1>6, <2>3, MessagesTail
    <3> QED
      BY <1>6, <2>2, <2>3, <3>1 DEF Queued
  <2>4. CASE Head(queue) # Poison
    <3>1. Messages(queue) = <<Head(queue)>> \o Messages(Tail(queue))
      BY <1>1, <1>6, <2>4, MessagesTail
    <3>2. <<Head(queue)>> \in Seq(Message) /\ Len(<<Head(queue)>>) = 1
      BY <2>1, <2>4 DEF Entry
    <3>3. Len(Messages(queue)) = 1 + Len(Messages(Tail(queue)))
      BY <2>2, <3>1, <3>2, ConcatProperties
    <3> QED
      BY <1>6, <2>2, <2>4, <3>3 DEF Queued
  <2> QED
    BY <2>3, <2>4
<1> QED
  BY <1>2, <1>3, <1>4, <1>5, <1>6 DEF Queued

LEMMA PuttingStep ==
  ASSUME TypeOK
  PROVE  /\ (\A s \in Sender : pc'[s] = "put" <=> pc[s] = "put") => Putting' = Putting
         /\ \A s \in Sender : pc' = [pc EXCEPT ![s] = "put"] => Putting' = Putting \union {s}
         /\ \A s \in Sender : pc' = [pc EXCEPT ![s] = "idle"] => Putting' = Putting \ {s}
BY Names DEF Putting, At, TypeOK

(* Steps that leave the queue alone and count the message in hand as before. *)
LEMMA CountedKept ==
  ASSUME TypeOK, Counted, UNCHANGED queueVars, BeingSent' = BeingSent,
         \A s \in Sender : pc'[s] = "put" <=> pc[s] = "put",
         pc'["drain"] \in Drained => pc["drain"] \in Drained,
         pc'["drain"] = "done" => pc["drain"] = "done"
  PROVE  Counted'
<1>1. Putting' = Putting
  BY PuttingStep
<1>2. Queued' = Queued
  BY QueuedIs DEF queueVars
<1> QED
  BY <1>1, <1>2 DEF Counted, queueVars, At

LEMMA BeingSentIs == BeingSent \in {0, 1}
BY DEF BeingSent

LEMMA StepCounted ==
  ASSUME TypeOK, InPlace, Counted, [Next]_vars
  PROVE  Counted'
<1> USE DEF TypeOK, InPlace, SenderPc, DrainPc, RunPc, ErrPc, CloserPc, Drained,
           Service, Closer, Goto, At, BeingSent
<1>1. ASSUME NEW s \in Sender, Send(s)
      PROVE  Counted'
  BY <1>1, CountedKept, Names DEF Send, errorVars, closeVars, linkVars
<1>2. ASSUME NEW s \in Sender, Admit(s)
      PROVE  Counted'
  <2>1. /\ queue' = queue /\ open' = open /\ BeingSent' = BeingSent /\ pc'["drain"] = pc["drain"]
        /\ size' = (IF open THEN size + 1 ELSE size) /\ s \notin Putting
    BY <1>2, Names DEF Admit, Putting
  <2>2. Queued' = Queued /\ Queued \in Nat
    BY <2>1, QueuedIs
  <2>3. CASE open
    <3>1. Putting' = Putting \union {s}
      BY <1>2, <2>3, PuttingStep DEF Admit
    <3>2. Cardinality(Putting') = Cardinality(Putting) + 1
      BY <2>1, <3>1, PuttingSize
    <3>3. BeingSent \in Nat /\ Cardinality(Putting) \in Nat
      BY PuttingSize, BeingSentIs
    <3>4. Counted
      OBVIOUS
    <3>5. pc["drain"] # "done"
      BY <2>3, <3>4 DEF Counted
    <3> QED
      BY ONLY <2>1, <2>2, <2>3, <3>2, <3>3, <3>4, <3>5 DEF Counted, At, Drained
  <2>4. CASE ~open
    <3>1. \A u \in Sender : pc'[u] = "put" <=> pc[u] = "put"
      BY <1>2, <2>4, Names DEF Admit
    <3>2. Putting' = Putting
      BY <3>1, PuttingStep
    <3> QED
      BY <2>1, <2>2, <2>4, <3>2 DEF Counted
  <2> QED
    BY <2>3, <2>4
<1>3. ASSUME NEW s \in Sender, Put(s)
      PROVE  Counted'
  <2>1. /\ queue' = Append(queue, msg[s]) /\ msg[s] \in Message /\ BeingSent' = BeingSent
        /\ open' = open /\ size' = size /\ pc'["drain"] = pc["drain"] /\ s \in Putting
    BY <1>3, Names DEF Put, Putting
  <2>2. Queued' = Queued + 1 /\ Queued \in Nat
    BY <2>1, QueuedIs
  <2>3. Putting' = Putting \ {s}
    BY <1>3, PuttingStep DEF Put
  <2>4. Cardinality(Putting') = Cardinality(Putting) - 1
    BY <2>1, <2>3, PuttingSize
  <2>5. BeingSent \in Nat /\ Cardinality(Putting) \in Nat
    BY PuttingSize, BeingSentIs
  <2>6. Counted
    OBVIOUS
  <2> QED
    BY ONLY <2>1, <2>2, <2>4, <2>5, <2>6, PuttingSize DEF Counted, At, Drained
<1>4. ASSUME NEW s \in Sender, HandleError(s)
      PROVE  Counted'
  BY <1>4, CountedKept, Names DEF HandleError, errorVars, closeVars, linkVars, AfterError
<1>5. ASSUME NEW t \in Closer, MarkClosed(t)
      PROVE  Counted'
  BY <1>5, CountedKept, Names DEF MarkClosed, errorVars, linkVars
<1>6. ASSUME NEW t \in Closer, ShutSocket(t)
      PROVE  Counted'
  BY <1>6, CountedKept, Names DEF ShutSocket, errorVars, closeVars
<1>7. ASSUME NEW t \in Closer, PutPoison(t)
      PROVE  Counted'
  <2>1. /\ queue' = Append(queue, Poison) /\ open' = open /\ size' = size
        /\ BeingSent' = BeingSent /\ (pc'["drain"] \in Drained <=> pc["drain"] \in Drained)
        /\ (pc'["drain"] = "done" => pc["drain"] = "done")
        /\ \A u \in Sender : pc'[u] = "put" <=> pc[u] = "put"
    <3>1. /\ pc[t] = "poison" /\ queue' = Append(queue, Poison) /\ open' = open /\ size' = size
          /\ pc' = [pc EXCEPT ![t] = IF t = "drain" THEN "drop" ELSE "done"] /\ msg' = msg
      BY <1>7 DEF PutPoison
    <3>2. \A u \in Sender : pc'[u] = pc[u]
      BY <3>1, Names
    <3>3. CASE t = "drain"
      BY <3>1, <3>2, <3>3, Names
    <3>4. CASE t # "drain"
      BY <3>1, <3>2, <3>4, Names
    <3> QED
      BY <3>3, <3>4
  <2>2. Queued' = Queued
    BY <2>1, QueuedIs
  <2>3. Putting' = Putting
    BY <2>1, PuttingStep
  <2> HIDE DEF BeingSent
  <2> QED
    BY <2>1, <2>2, <2>3 DEF Counted
<1>8. CASE Close
  BY <1>8, CountedKept, Names DEF Close, errorVars, linkVars
<1>9. CASE StartDrain
  BY <1>9, CountedKept, Names DEF StartDrain, errorVars, closeVars, linkVars
<1>10. CASE CheckRun
  BY <1>10, CountedKept, Names DEF CheckRun, errorVars, closeVars, linkVars
<1>11. CASE Connect
  BY <1>11, CountedKept, Names DEF Connect, errorVars, closeVars
<1>12. CASE Lost
  BY <1>12, CountedKept, Names DEF Lost, errorVars, closeVars
<1>13. CASE OnClosed
  BY <1>13, CountedKept, Names DEF OnClosed, closeVars, linkVars
<1>14. CASE TellClose
  BY <1>14, CountedKept, Names DEF TellClose, errorVars, closeVars, linkVars
<1>15. CASE HandleError("run")
  <2>1. /\ pc'["drain"] = pc["drain"] /\ msg' = msg /\ UNCHANGED queueVars
        /\ \A u \in Sender : pc'[u] = "put" <=> pc[u] = "put"
    <3>1. /\ msg' = msg /\ UNCHANGED queueVars
          /\ \A u \in Thread \ {"run", "err"} : pc'[u] = pc[u]
      BY <1>15 DEF HandleError
    <3> QED
      BY <3>1, Names
  <2> QED
    BY <2>1, CountedKept
<1>16. CASE CheckDrain
  BY <1>16, CountedKept, Names DEF CheckDrain, errorVars, closeVars, linkVars
<1>17. CASE Get
  <2>1. /\ \A u \in Sender : pc'[u] = "put" <=> pc[u] = "put"
        /\ BeingSent = 0 /\ open' = open /\ size' = size /\ pc'["drain"] \notin Drained
    BY <1>17, Names DEF Get
  <2>2. Putting' = Putting
    BY <2>1, PuttingStep
  <2>3. CASE queue = <<>>
    <3>1. queue' = queue /\ BeingSent' = 0
      BY <1>17, <2>3, Names DEF Get
    <3>2. Queued' = Queued
      BY <3>1, QueuedIs
    <3> HIDE DEF BeingSent
    <3> QED
      BY <2>1, <2>2, <3>1, <3>2 DEF Counted
  <2>4. CASE queue # <<>>
    <3>1. queue' = Tail(queue) /\ BeingSent' = IF Head(queue) = Poison THEN 0 ELSE 1
      BY <1>17, <2>4, Names DEF Get
    <3>2. Queued = (IF Head(queue) = Poison THEN Queued' ELSE Queued' + 1) /\ Queued' \in Nat
      BY <2>4, <3>1, QueuedIs
    <3> HIDE DEF BeingSent
    <3> QED
      BY <2>1, <2>2, <3>1, <3>2, PuttingSize DEF Counted
  <2> QED
    BY <2>3, <2>4
<1>18. CASE Transmit
  BY <1>18, CountedKept, Names DEF Transmit, errorVars, closeVars
<1>19. CASE Account
  <2>1. /\ \A u \in Sender : pc'[u] = "put" <=> pc[u] = "put"
        /\ BeingSent = 1 /\ BeingSent' = 0 /\ open' = open /\ queue' = queue
        /\ size' = (IF size > 0 THEN size - 1 ELSE 0) /\ pc'["drain"] \notin Drained
    BY <1>19, Names DEF Account
  <2>2. Putting' = Putting
    BY <2>1, PuttingStep
  <2>3. Queued' = Queued /\ Queued \in Nat
    BY <2>1, QueuedIs
  <2>4. size \in Nat /\ Cardinality(Putting) \in Nat
    BY PuttingSize
  <2> HIDE DEF BeingSent
  <2>5. open => size' = Queued' + Cardinality(Putting') + BeingSent'
    BY <2>1, <2>2, <2>3, <2>4 DEF Counted
  <2> QED
    BY <2>1, <2>5 DEF Counted
<1>20. CASE CloseQueue
  BY <1>20 DEF CloseQueue, Counted
<1>21. CASE DropQueue
  <2>1. /\ \A u \in Sender : pc'[u] = "put" <=> pc[u] = "put"
        /\ open' = open /\ queue' = <<>> /\ pc["drain"] \in Drained
    BY <1>21, Names DEF DropQueue
  <2>2. Putting' = Putting
    BY <2>1, PuttingStep
  <2>3. Queued' = 0
    BY <2>1, QueuedIs
  <2> HIDE DEF BeingSent
  <2> QED
    BY <2>1, <2>2, <2>3, PuttingSize DEF Counted
<1>22. CASE HandleError("drain")
  <2>1. msg["drain"] # Poison /\ pc["drain"] = "error"
    BY <1>22, MessageEntry DEF HandleError
  <2>2. /\ pc'["drain"] = "finish" /\ msg' = msg /\ UNCHANGED queueVars
        /\ \A u \in Sender : pc'[u] = "put" <=> pc[u] = "put"
    BY <1>22, Names DEF HandleError, AfterError
  <2> QED
    BY <2>1, <2>2, CountedKept
<1>23. CASE TellError
  BY <1>23, CountedKept, Names DEF TellError, errorVars, closeVars, linkVars
<1>24. CASE Settle
  BY <1>24, CountedKept, Names DEF Settle, closeVars, linkVars
<1>25. CASE TellDeferredClose
  BY <1>25, CountedKept, Names DEF TellDeferredClose, errorVars, closeVars, linkVars
<1>26. CASE UNCHANGED vars
  BY <1>26, CountedKept DEF vars
<1> QED
  BY <1>1, <1>2, <1>3, <1>4, <1>5, <1>6, <1>7, <1>8, <1>9,
     <1>10, <1>11, <1>12, <1>13, <1>14, <1>15, <1>16, <1>17, <1>18,
     <1>19, <1>20, <1>21, <1>22, <1>23, <1>24, <1>25, <1>26
     DEF Next, SendStep, CloseStep, RunStep, DrainStep, ErrorStep

-----------------------------------------------------------------------------
(* The invariant holds in every state.                                       *)

IInv == TypeOK /\ InPlace /\ FreshInHand /\ Callbacks /\ Counted

LEMMA InitInv == Init => IInv
<1> SUFFICES ASSUME Init PROVE IInv
  OBVIOUS
<1>1. TypeOK
  BY InitType
<1>2. /\ pc["run"] = "start" /\ pc["closer"] = "ask" /\ pc["drain"] = "idle" /\ pc["err"] = "idle"
      /\ \A s \in Sender : pc[s] = "idle"
      /\ \A t \in Thread : msg[t] = Poison
  BY Names DEF Init, Service
<1>3. InPlace
  BY <1>2, Names DEF InPlace, SenderPc, DrainPc, RunPc, ErrPc, CloserPc, Service, Drained
<1>4. \A v : ~Has(queue, v) /\ ~Has(wire, v) /\ ~Has(told, v)
  BY DEF Init, Has
<1>5. FreshInHand
  BY <1>2, <1>4, Names DEF FreshInHand, Fresh, Init, Service, Poison
<1>6. Callbacks
  BY <1>2, <1>4 DEF Callbacks, Init
<1>7. Counted
  <2>1. Putting = {} /\ BeingSent = 0 /\ size = 0
    BY <1>2 DEF Putting, BeingSent, At, Init
  <2>2. Queued = 0
    BY MessagesEmpty DEF Queued, Init
  <2>3. Cardinality(Putting) = 0
    BY <2>1, FS_EmptySet
  <2> QED
    BY <1>2, <2>1, <2>2, <2>3 DEF Counted, At, Drained
<1> QED
  BY <1>1, <1>3, <1>5, <1>6, <1>7 DEF IInv

LEMMA StepInv == IInv /\ [Next]_vars => IInv'
BY StepType, StepInPlace, StepFresh, StepCallbacks, StepCounted DEF IInv

LEMMA Invariant == Spec => []IInv
BY InitInv, StepInv, PTL DEF Spec

(* Every variable of a client keeps its type, whatever its threads are and
   however large the queue may grow.                                         *)
THEOREM TypeCorrect == Spec => []TypeOK
<1>1. IInv => TypeOK
  BY DEF IInv
<1> QED
  BY <1>1, Invariant, PTL

(* The size that holds senders back counts every message once, for any number
   of senders and any limit: the ones queued, the one being sent and those of
   senders that were let in.                                                 *)
THEOREM SizeCorrect == Spec => []SizeCounts
<1>1. IInv => SizeCounts
  BY CountedIs DEF IInv
<1> QED
  BY <1>1, Invariant, PTL

(* When the thread that drains the queue is gone, no more messages are left or
   on their way than there are senders: one each, let in before.             *)
THEOREM LeakCorrect == Spec => []LeakBounded
<1>1. IInv => LeakBounded
  BY CountedIs DEF IInv
<1> QED
  BY <1>1, Invariant, PTL

-----------------------------------------------------------------------------
(* The client implements WsService.                                          *)

Backlog == InHand \o Messages(queue)
Dead == pc["drain"] \in Drained \union {"error", "finish"}
ErrorIs == IF ~fired THEN "none" ELSE IF Has(told, "error") THEN "told" ELSE "noticed"
ClosedIs == IF Has(told, "close") THEN "told"
            ELSE IF "tellClose" \in {pc["run"], pc["err"]} THEN "due" ELSE "no"

(* The actions of WsService under the mapping. *)
LEMMA MappedVars == Promise!vars = <<Backlog, wire, Dead, ErrorIs, ClosedIs>>
BY DEF Promise!vars, Backlog, Dead, ErrorIs, ClosedIs, Has

LEMMA MappedNext ==
  /\ \A m : Promise!Accept(m) <=>
       /\ \A i \in 1..Len(wire \o Backlog) : (wire \o Backlog)[i] # m
       /\ Backlog' = Append(Backlog, m)
       /\ wire' = wire /\ Dead' = Dead /\ ErrorIs' = ErrorIs /\ ClosedIs' = ClosedIs
  /\ Promise!Transmit <=>
       /\ ~Dead /\ Backlog # <<>>
       /\ wire' = Append(wire, Head(Backlog)) /\ Backlog' = Tail(Backlog)
       /\ Dead' = Dead /\ ErrorIs' = ErrorIs /\ ClosedIs' = ClosedIs
  /\ Promise!Die <=>
       /\ ~Dead /\ Dead' = TRUE
       /\ Backlog' = Backlog /\ wire' = wire /\ ErrorIs' = ErrorIs /\ ClosedIs' = ClosedIs
  /\ Promise!Forget <=>
       /\ Dead
       /\ \E n \in 1..Len(Backlog) : Backlog' = SubSeq(Backlog, n + 1, Len(Backlog))
       /\ wire' = wire /\ Dead' = Dead /\ ErrorIs' = ErrorIs /\ ClosedIs' = ClosedIs
  /\ Promise!NoticeError <=>
       /\ ErrorIs = "none" /\ ErrorIs' = "noticed"
       /\ Backlog' = Backlog /\ wire' = wire /\ Dead' = Dead /\ ClosedIs' = ClosedIs
  /\ Promise!TellError <=>
       /\ ErrorIs = "noticed" /\ ErrorIs' = "told"
       /\ Backlog' = Backlog /\ wire' = wire /\ Dead' = Dead /\ ClosedIs' = ClosedIs
  /\ Promise!CloseDue <=>
       /\ ClosedIs = "no" /\ ErrorIs # "noticed" /\ ClosedIs' = "due"
       /\ Backlog' = Backlog /\ wire' = wire /\ Dead' = Dead /\ ErrorIs' = ErrorIs
  /\ Promise!TellClose <=>
       /\ ClosedIs = "due" /\ ClosedIs' = "told"
       /\ Backlog' = Backlog /\ wire' = wire /\ Dead' = Dead /\ ErrorIs' = ErrorIs
BY DEF Promise!Accept, Promise!Transmit, Promise!Die, Promise!Forget, Promise!NoticeError,
       Promise!TellError, Promise!CloseDue, Promise!TellClose,
       Backlog, Dead, ErrorIs, ClosedIs, Has

(* A step that changes nothing the promise speaks of. *)
Stutter == UNCHANGED <<Backlog, wire, Dead, ErrorIs, ClosedIs>>
CallsKept == ErrorIs' = ErrorIs /\ ClosedIs' = ClosedIs
WorkKept == Backlog' = Backlog /\ wire' = wire /\ Dead' = Dead

Promised == [Promise!Next]_(Promise!vars)

LEMMA PromisedIs ==
  /\ Stutter => Promised
  /\ (\E m \in Message : Promise!Accept(m)) => Promised
  /\ Promise!Transmit \/ Promise!Die \/ Promise!Forget \/ Promise!NoticeError => Promised
  /\ Promise!TellError \/ Promise!CloseDue \/ Promise!TellClose => Promised
<1>1. Stutter => UNCHANGED Promise!vars
  BY DEF Stutter, Promise!vars, Backlog, Dead, ErrorIs, ClosedIs, Has
<1> QED
  BY <1>1 DEF Promised, Promise!Next

(* What the mapping reads. *)
LEMMA CallsAlone ==
  ASSUME UNCHANGED <<fired, told>>,
         "tellClose" \in {pc'["run"], pc'["err"]} <=> "tellClose" \in {pc["run"], pc["err"]}
  PROVE  CallsKept
BY DEF CallsKept, ErrorIs, ClosedIs

LEMMA WorkAlone ==
  ASSUME UNCHANGED <<queue, wire>>, pc'["drain"] = pc["drain"], msg'["drain"] = msg["drain"]
  PROVE  WorkKept
BY DEF WorkKept, Backlog, InHand, Dead, At

LEMMA BacklogType ==
  ASSUME IInv
  PROVE  /\ queue \in Seq(Entry) /\ wire \in Seq(Message)
         /\ Messages(queue) \in Seq(Message)
         /\ InHand \in Seq(Message) /\ Backlog \in Seq(Message)
         /\ InHand = <<>> \/ (InHand = <<msg["drain"]>> /\ msg["drain"] \in Message)
<1>1. queue \in Seq(Entry) /\ wire \in Seq(Message)
  BY DEF IInv, TypeOK, Entry
<1>2. Messages(queue) \in Seq(Message)
  BY <1>1, MessagesType
<1>3. InHand = <<>> \/ (InHand = <<msg["drain"]>> /\ msg["drain"] \in Message)
  <2>1. msg["drain"] \in Message \union {Poison}
    BY Names DEF IInv, TypeOK, Service
  <2> QED
    BY <2>1 DEF IInv, InPlace, InHand, At
<1>4. InHand \in Seq(Message)
  <2>1. CASE InHand = <<>>
    <3>1. <<>> \in Seq(Message)
      OBVIOUS
    <3> QED
      BY <2>1, <3>1
  <2>2. CASE InHand = <<msg["drain"]>> /\ msg["drain"] \in Message
    <3>1. \A m \in Message : <<m>> \in Seq(Message)
      OBVIOUS
    <3> QED
      BY <2>2, <3>1
  <2> QED
    BY <1>3, <2>1, <2>2
<1>5. Backlog \in Seq(Message)
  BY <1>2, <1>4, ConcatProperties DEF Backlog
<1> QED
  BY <1>1, <1>2, <1>3, <1>4, <1>5

(* A message a sender is about to queue was neither sent nor accepted. *)
LEMMA NotSeen ==
  ASSUME IInv, NEW s \in Sender, pc[s] = "put"
  PROVE  /\ msg[s] \in Message
         /\ \A i \in 1..Len(wire \o Backlog) : (wire \o Backlog)[i] # msg[s]
<1>1. msg[s] \in Message /\ ~Has(queue, msg[s]) /\ ~Has(wire, msg[s]) /\ msg[s] # msg["drain"]
  BY DEF IInv, InPlace, FreshInHand, Fresh
<1> DEFINE m == msg[s]
           q == Messages(queue)
<1>2. /\ wire \in Seq(Message) /\ InHand \in Seq(Message) /\ q \in Seq(Message)
      /\ Backlog \in Seq(Message) /\ Backlog = InHand \o q
  BY BacklogType DEF Backlog
<1>3. \A i \in 1..Len(q) : q[i] # m
  <2>1. \A i \in 1..Len(q) : \E k \in 1..Len(queue) : q[i] = queue[k]
    BY BacklogType, MessagesType
  <2> QED
    BY <1>1, <2>1 DEF Has
<1>4. \A i \in 1..Len(InHand) : InHand[i] # m
  BY <1>1, BacklogType
<1>5. \A i \in 1..Len(wire) : wire[i] # m
  BY <1>1 DEF Has
<1> HIDE DEF m, q
<1>6. \A i \in 1..Len(Backlog) : Backlog[i] # m
  <2> TAKE i \in 1..Len(Backlog)
  <2>1. /\ Len(Backlog) = Len(InHand) + Len(q) /\ Len(InHand) \in Nat /\ Len(q) \in Nat
        /\ Backlog[i] = IF i <= Len(InHand) THEN InHand[i] ELSE q[i - Len(InHand)]
    BY <1>2, ConcatProperties
  <2> QED
    BY <1>3, <1>4, <2>1
<1>7. \A i \in 1..Len(wire \o Backlog) : (wire \o Backlog)[i] # m
  <2> TAKE i \in 1..Len(wire \o Backlog)
  <2>1. /\ Len(wire \o Backlog) = Len(wire) + Len(Backlog)
        /\ Len(wire) \in Nat /\ Len(Backlog) \in Nat
        /\ (wire \o Backlog)[i] = IF i <= Len(wire) THEN wire[i] ELSE Backlog[i - Len(wire)]
    BY <1>2, ConcatProperties
  <2> QED
    BY <1>5, <1>6, <2>1
<1> QED
  BY <1>1, <1>7 DEF m

(* A step of _Close, on any thread that takes it. *)
LEMMA CloseAlone ==
  ASSUME IInv, NEW t \in Closer, pc[t] \in ClosePc,
         NEW to \in {"shut", "poison", "drop", "done"}, Goto(t, to),
         UNCHANGED <<fired, told, msg>>
  PROVE  InHand' = InHand /\ Dead' = Dead /\ CallsKept
<1>1. /\ pc'["drain"] \in Drained <=> pc["drain"] \in Drained
      /\ pc'["drain"] = pc["drain"] \/ {pc["drain"], pc'["drain"]} \subseteq Drained
  BY Names DEF IInv, TypeOK, Closer, Goto, ClosePc, Drained, Service
<1>2. InHand' = InHand /\ Dead' = Dead
  BY <1>1 DEF InHand, Dead, At, Drained
<1>3. "tellClose" \in {pc'["run"], pc'["err"]} <=> "tellClose" \in {pc["run"], pc["err"]}
  BY Names DEF IInv, TypeOK, Closer, Goto, ClosePc, Service
<1> QED
  BY <1>2, <1>3, CallsAlone

LEMMA WorkIs ==
  ASSUME Messages(queue') = Messages(queue), wire' = wire, InHand' = InHand, Dead' = Dead
  PROVE  WorkKept
BY DEF WorkKept, Backlog

(* An error is noticed once, whatever thread meets it. *)
LEMMA NoticePromised ==
  ASSUME IInv, NEW t \in Sender \union {"run", "drain"}, HandleError(t), WorkKept
  PROVE  Promised
<1>1. t \in Thread /\ t # "err" /\ AfterError(t) # "tellClose" /\ pc[t] = "error"
  BY Names, SenderAssumption DEF AfterError, Service, HandleError, At
<1>2. pc \in [Thread -> Pc] /\ {"run", "err"} \subseteq Thread
  BY Names DEF IInv, TypeOK, Service
<1>3. CASE requested \/ fired
  <2>1. pc' = [pc EXCEPT ![t] = AfterError(t)] /\ UNCHANGED <<fired, told>>
    BY <1>3 DEF HandleError, errorVars, Goto
  <2>2. "tellClose" \in {pc'["run"], pc'["err"]} <=> "tellClose" \in {pc["run"], pc["err"]}
    BY <1>1, <1>2, <2>1
  <2>3. CallsKept
    BY <2>1, <2>2, CallsAlone
  <2> QED
    BY <2>3, PromisedIs DEF Stutter, CallsKept, WorkKept
<1>4. CASE ~(requested \/ fired)
  <2>1. /\ pc' = [pc EXCEPT ![t] = AfterError(t), !["err"] = "tell"] /\ UNCHANGED told
        /\ ~fired /\ fired' = TRUE
    BY <1>4 DEF HandleError
  <2>2. pc["err"] = "idle" /\ ~Has(told, "error")
    BY <2>1 DEF IInv, Callbacks
  <2>3. "tellClose" \in {pc'["run"], pc'["err"]} <=> "tellClose" \in {pc["run"], pc["err"]}
    BY <1>1, <1>2, <2>1, <2>2
  <2>4. ClosedIs' = ClosedIs
    BY <2>1, <2>3 DEF ClosedIs
  <2>5. ErrorIs = "none" /\ ErrorIs' = "noticed"
    BY <2>1, <2>2 DEF ErrorIs
  <2>6. Promise!NoticeError
    BY <2>4, <2>5, MappedNext DEF WorkKept
  <2> QED
    BY <2>6, PromisedIs
<1> QED
  BY <1>3, <1>4

LEMMA HeadOfConcat ==
  ASSUME NEW m \in Message, NEW q \in Seq(Message)
  PROVE  <<m>> \o q # <<>> /\ Head(<<m>> \o q) = m /\ Tail(<<m>> \o q) = q
<1>1. <<m>> \in Seq(Message) /\ Len(<<m>>) = 1 /\ <<m>>[1] = m
  OBVIOUS
<1> DEFINE r == <<m>> \o q
<1>2. /\ r \in Seq(Message) /\ Len(r) = 1 + Len(q) /\ Len(q) \in Nat /\ r[1] = m
      /\ \A i \in 1..Len(q) : r[i + 1] = q[i]
  BY <1>1, ConcatProperties
<1> HIDE DEF r
<1>3. r # <<>> /\ Head(r) = m
  BY <1>2
<1>4. Tail(r) \in Seq(Message) /\ Len(Tail(r)) = Len(q) /\ \A i \in 1..Len(q) : Tail(r)[i] = q[i]
  BY <1>2, <1>3, HeadTailProperties
<1>5. Tail(r) = q
  BY <1>4, SeqEqual
<1> QED
  BY <1>3, <1>5 DEF r

(* Each action is a step of the promise or leaves it alone. *)
LEMMA StepPromised ==
  ASSUME IInv, [Next]_vars
  PROVE  Promised
<1> USE DEF IInv, TypeOK, InPlace, SenderPc, DrainPc, RunPc, ErrPc, CloserPc, Drained,
           Service, Closer, Goto, At
<1>1. ASSUME NEW s \in Sender, Send(s)
      PROVE  Promised
  BY <1>1, Names, CallsAlone, WorkAlone, PromisedIs DEF Send, errorVars, closeVars, queueVars, linkVars, Stutter, CallsKept, WorkKept
<1>2. ASSUME NEW s \in Sender, Admit(s)
      PROVE  Promised
  BY <1>2, Names, CallsAlone, WorkAlone, PromisedIs DEF Admit, errorVars, closeVars, linkVars, Stutter, CallsKept, WorkKept
<1>3. ASSUME NEW s \in Sender, Put(s)
      PROVE  Promised
  <2>1. pc[s] = "put" /\ queue' = Append(queue, msg[s]) /\ wire' = wire
        /\ UNCHANGED <<fired, told, msg>> /\ pc' = [pc EXCEPT ![s] = "idle"] /\ s \in Thread
        /\ s \notin Service
    BY <1>3, Names DEF Put, errorVars, linkVars
  <2>2. /\ msg[s] \in Message
        /\ \A i \in 1..Len(wire \o Backlog) : (wire \o Backlog)[i] # msg[s]
    BY <2>1, NotSeen
  <2>3. CallsKept /\ InHand' = InHand /\ Dead' = Dead
    <3>1. pc'["run"] = pc["run"] /\ pc'["err"] = pc["err"] /\ pc'["drain"] = pc["drain"]
      BY <2>1
    <3>2. CallsKept
      BY <2>1, <3>1, CallsAlone
    <3> QED
      BY <2>1, <3>1, <3>2 DEF InHand, Dead
  <2>4. Backlog' = Append(Backlog, msg[s])
    <3>1. Messages(queue') = Append(Messages(queue), msg[s])
      <4>1. queue \in Seq(Entry) /\ msg[s] \in Entry /\ msg[s] # Poison
        BY <2>2, BacklogType, MessageEntry
      <4> QED
        BY <2>1, <4>1, MessagesAppend
    <3>2. Append(InHand \o Messages(queue), msg[s]) = InHand \o Append(Messages(queue), msg[s])
      <4>1. InHand \in Seq(Message) /\ Messages(queue) \in Seq(Message) /\ msg[s] \in Message
        BY <2>2, BacklogType
      <4> QED
        BY ONLY <4>1, ConcatAppend
    <3> QED
      BY <2>3, <3>1, <3>2 DEF Backlog
  <2>5. Promise!Accept(msg[s])
    BY <2>1, <2>2, <2>3, <2>4, MappedNext DEF CallsKept
  <2> QED
    BY <2>2, <2>5, PromisedIs
<1>4. ASSUME NEW s \in Sender, HandleError(s)
      PROVE  Promised
  <2>1. WorkKept
    BY <1>4, Names, WorkAlone DEF HandleError, AfterError, queueVars, linkVars
  <2> QED
    BY <1>4, <2>1, NoticePromised
<1>5. ASSUME NEW t \in Closer, MarkClosed(t)
      PROVE  Promised
  <2>1. InHand' = InHand /\ Dead' = Dead /\ CallsKept
    BY <1>5, CloseAlone DEF MarkClosed, ClosePc, errorVars
  <2>2. WorkKept
    BY <1>5, <2>1, WorkIs DEF MarkClosed, queueVars, linkVars
  <2> QED
    BY <2>1, <2>2, PromisedIs DEF Stutter, CallsKept, WorkKept
<1>6. ASSUME NEW t \in Closer, ShutSocket(t)
      PROVE  Promised
  <2>1. InHand' = InHand /\ Dead' = Dead /\ CallsKept
    BY <1>6, CloseAlone DEF ShutSocket, ClosePc, errorVars
  <2>2. WorkKept
    BY <1>6, <2>1, WorkIs DEF ShutSocket, queueVars, linkVars
  <2> QED
    BY <2>1, <2>2, PromisedIs DEF Stutter, CallsKept, WorkKept
<1>7. ASSUME NEW t \in Closer, PutPoison(t)
      PROVE  Promised
  <2>1. InHand' = InHand /\ Dead' = Dead /\ CallsKept
    BY <1>7, CloseAlone DEF PutPoison, ClosePc, errorVars
  <2>2. Messages(Append(queue, Poison)) = Messages(queue)
    BY BacklogType, MessagesAppend DEF Entry
  <2>3. WorkKept
    BY <1>7, <2>1, <2>2, WorkIs DEF PutPoison, linkVars
  <2> QED
    BY <2>1, <2>3, PromisedIs DEF Stutter, CallsKept, WorkKept
<1>8. CASE Close
  BY <1>8, Names, CallsAlone, WorkAlone, PromisedIs DEF Close, errorVars, queueVars, linkVars, Stutter, CallsKept, WorkKept
<1>9. CASE StartDrain
  <2>1. /\ pc'["drain"] = "checkClosed" /\ pc["drain"] = "idle" /\ queue' = queue /\ wire' = wire
        /\ pc["run"] = "start" /\ pc'["run"] = "checkClosed" /\ pc'["err"] = pc["err"]
        /\ UNCHANGED <<fired, told>>
    BY <1>9, Names DEF StartDrain, errorVars, queueVars, linkVars
  <2>2. InHand' = InHand /\ Dead' = Dead /\ CallsKept
    BY <2>1, CallsAlone DEF InHand, Dead
  <2> QED
    BY <2>1, <2>2, WorkIs, PromisedIs DEF Stutter, CallsKept, WorkKept
<1>10. CASE CheckRun
  BY <1>10, Names, CallsAlone, WorkAlone, PromisedIs DEF CheckRun, errorVars, closeVars, queueVars, linkVars, Stutter, CallsKept, WorkKept
<1>11. CASE Connect
  <2>1. /\ WorkKept /\ fired' = fired /\ told' \in {told, Append(told, "open")}
        /\ "tellClose" \in {pc'["run"], pc'["err"]} <=> "tellClose" \in {pc["run"], pc["err"]}
    BY <1>11, Names, WorkAlone DEF Connect, errorVars, queueVars
  <2>2. (Has(told', "error") <=> Has(told, "error")) /\ (Has(told', "close") <=> Has(told, "close"))
    <3>1. /\ Has(Append(told, "open"), "error") <=> Has(told, "error")
          /\ Has(Append(told, "open"), "close") <=> Has(told, "close")
      BY HasTold
    <3> QED
      BY <2>1, <3>1
  <2>3. CallsKept
    BY <2>1, <2>2 DEF CallsKept, ErrorIs, ClosedIs
  <2> QED
    BY <2>1, <2>3, PromisedIs DEF Stutter, CallsKept, WorkKept
<1>12. CASE Lost
  BY <1>12, Names, CallsAlone, WorkAlone, PromisedIs DEF Lost, errorVars, closeVars, queueVars, Stutter, CallsKept, WorkKept
<1>13. CASE OnClosed
  <2>1. WorkKept /\ fired' = fired /\ told' = told /\ pc'["err"] = pc["err"] /\ pc["run"] = "onClosed"
    BY <1>13, Names, WorkAlone DEF OnClosed, queueVars, linkVars
  <2>2. CASE pendingFire
    <3>1. pc'["run"] = "done"
      BY <1>13, <2>2, Names DEF OnClosed
    <3>2. CallsKept
      BY <2>1, <3>1, CallsAlone
    <3> QED
      BY <2>1, <3>2, PromisedIs DEF Stutter, CallsKept, WorkKept
  <2>3. CASE ~pendingFire
    <3>1. pc'["run"] = "tellClose"
      BY <1>13, <2>3, Names DEF OnClosed
    <3>2. ~Has(told, "close") /\ pc["err"] # "tellClose" /\ (~fired \/ Has(told, "error"))
      BY <2>1, <2>3 DEF Callbacks
    <3>3. Promise!CloseDue
      BY <2>1, <3>1, <3>2, MappedNext DEF WorkKept, ErrorIs, ClosedIs
    <3> QED
      BY <3>3, PromisedIs
  <2> QED
    BY <2>2, <2>3
<1>14. CASE TellClose
  <2>1. /\ WorkKept /\ fired' = fired /\ told' = Append(told, "close") /\ pc["run"] = "tellClose"
    BY <1>14, Names, WorkAlone DEF TellClose, errorVars, queueVars, linkVars
  <2>2. Has(told', "close") /\ (Has(told', "error") <=> Has(told, "error")) /\ ~Has(told, "close")
    BY <2>1, HasTold DEF Callbacks
  <2>3. Promise!TellClose
    BY <2>1, <2>2, MappedNext DEF WorkKept, ErrorIs, ClosedIs
  <2> QED
    BY <2>3, PromisedIs
<1>15. CASE HandleError("run")
  <2>1. WorkKept
    BY <1>15, Names, WorkAlone DEF HandleError, AfterError, queueVars, linkVars
  <2> QED
    BY <1>15, <2>1, NoticePromised
<1>16. CASE CheckDrain
  <2>1. /\ CallsKept /\ pc["drain"] = "checkClosed" /\ msg["drain"] = Poison /\ msg' = msg
        /\ UNCHANGED <<queue, wire>>
    BY <1>16, Names, CallsAlone DEF CheckDrain, errorVars, queueVars, linkVars
  <2>2. CASE isClosed
    <3>1. pc'["drain"] = "finish"
      BY <1>16, <2>2, Names DEF CheckDrain
    <3>2. InHand' = InHand /\ ~Dead /\ Dead' = TRUE
      BY <2>1, <3>1 DEF InHand, Dead
    <3>3. Promise!Die
      BY <2>1, <3>2, MappedNext DEF CallsKept, Backlog
    <3> QED
      BY <3>3, PromisedIs
  <2>3. CASE ~isClosed
    <3>1. pc'["drain"] = "get"
      BY <1>16, <2>3, Names DEF CheckDrain
    <3>2. InHand' = InHand /\ Dead' = Dead
      BY <2>1, <3>1 DEF InHand, Dead
    <3> QED
      BY <2>1, <3>2, WorkIs, PromisedIs DEF Stutter, CallsKept, WorkKept
  <2> QED
    BY <2>2, <2>3
<1>17. CASE Get
  <2>1. CallsKept /\ wire' = wire /\ pc["drain"] = "get" /\ msg["drain"] = Poison
    BY <1>17, Names, CallsAlone DEF Get, errorVars, linkVars
  <2>2. InHand = <<>> /\ ~Dead
    BY <2>1 DEF InHand, Dead
  <2>3. CASE queue = <<>>
    <3>1. pc'["drain"] = "checkClosed" /\ queue' = queue /\ msg' = msg
      BY <1>17, <2>3, Names DEF Get
    <3>2. InHand' = InHand /\ Dead' = Dead
      BY <2>1, <3>1 DEF InHand, Dead
    <3> QED
      BY <2>1, <3>1, <3>2, WorkIs, PromisedIs DEF Stutter, CallsKept, WorkKept
  <2>4. CASE queue # <<>> /\ Head(queue) = Poison
    <3>1. pc'["drain"] = "finish" /\ queue' = Tail(queue) /\ msg'["drain"] = Poison
      BY <1>17, <2>4, Names DEF Get
    <3>2. InHand' = <<>> /\ Dead' = TRUE
      BY <3>1 DEF InHand, Dead
    <3>3. Messages(queue') = Messages(queue)
      BY <2>4, <3>1, BacklogType, MessagesTail
    <3>4. Backlog' = Backlog
      BY <2>2, <3>2, <3>3 DEF Backlog
    <3>5. Promise!Die
      BY <2>1, <2>2, <3>2, <3>4, MappedNext DEF CallsKept
    <3> QED
      BY <3>5, PromisedIs
  <2>5. CASE queue # <<>> /\ Head(queue) # Poison
    <3>1. pc'["drain"] = "send" /\ queue' = Tail(queue) /\ msg'["drain"] = Head(queue)
      BY <1>17, <2>5, Names DEF Get
    <3>2. InHand' = <<Head(queue)>> /\ ~Dead'
      BY <3>1 DEF InHand, Dead
    <3>3. Messages(queue) = <<Head(queue)>> \o Messages(queue')
      BY <2>5, <3>1, BacklogType, MessagesTail
    <3>4. <<>> \o Messages(queue) = Messages(queue)
      BY BacklogType, ConcatEmptySeq
    <3>5. Backlog' = Backlog
      BY <2>2, <3>2, <3>3, <3>4 DEF Backlog
    <3>6. Dead' = Dead
      BY <2>2, <3>2 DEF Dead
    <3> QED
      BY <2>1, <3>5, <3>6, PromisedIs DEF Stutter, CallsKept
  <2> QED
    BY <2>3, <2>4, <2>5
<1>18. CASE Transmit
  <2>1. CallsKept /\ pc["drain"] = "send" /\ msg["drain"] \in Message /\ UNCHANGED <<queue, msg>>
    BY <1>18, Names, CallsAlone DEF Transmit, errorVars, queueVars
  <2>2. InHand = <<msg["drain"]>> /\ ~Dead
    BY <2>1 DEF InHand, Dead
  <2>3. CASE wire' = Append(wire, msg["drain"]) /\ pc'["drain"] = "account"
    <3>1. InHand' = <<>> /\ Dead' = Dead
      BY <2>2, <2>3 DEF InHand, Dead
    <3>2. Backlog # <<>> /\ Head(Backlog) = msg["drain"] /\ Tail(Backlog) = Messages(queue)
      BY <2>1, <2>2, BacklogType, HeadOfConcat DEF Backlog
    <3>3. Backlog' = Messages(queue)
      BY <2>1, <3>1, BacklogType, ConcatEmptySeq DEF Backlog
    <3>4. Promise!Transmit
      BY <2>1, <2>2, <2>3, <3>1, <3>2, <3>3, MappedNext DEF CallsKept
    <3> QED
      BY <3>4, PromisedIs
  <2>4. CASE wire' = wire /\ pc'["drain"] = "error"
    <3>1. msg["drain"] # Poison
      BY <2>1, MessageEntry
    <3>2. InHand' = InHand /\ Dead' = TRUE
      BY <2>1, <2>2, <2>4, <3>1 DEF InHand, Dead
    <3>3. Promise!Die
      BY <2>1, <2>2, <2>4, <3>2, MappedNext DEF CallsKept, Backlog
    <3> QED
      BY <3>3, PromisedIs
  <2> QED
    BY <1>18, <2>3, <2>4, Names DEF Transmit
<1>19. CASE Account
  <2>1. /\ CallsKept /\ pc["drain"] = "account" /\ pc'["drain"] = "checkClosed"
        /\ UNCHANGED <<queue, wire>>
    BY <1>19, Names, CallsAlone DEF Account, errorVars, linkVars
  <2>2. InHand' = InHand /\ Dead' = Dead
    BY <2>1 DEF InHand, Dead
  <2> QED
    BY <2>1, <2>2, WorkIs, PromisedIs DEF Stutter, CallsKept, WorkKept
<1>20. CASE CloseQueue
  <2>1. /\ CallsKept /\ pc["drain"] = "finish" /\ pc'["drain"] = "mark" /\ msg'["drain"] = Poison
        /\ UNCHANGED <<queue, wire>>
    BY <1>20, Names, CallsAlone DEF CloseQueue, errorVars, linkVars
  <2>2. InHand' = <<>> /\ Dead /\ Dead'
    BY <2>1 DEF InHand, Dead
  <2>3. Backlog' = Messages(queue)
    BY <2>1, <2>2, BacklogType, ConcatEmptySeq DEF Backlog
  <2>4. CASE InHand = <<>>
    <3>1. Backlog' = Backlog
      BY <2>1, <2>2, <2>4 DEF Backlog
    <3>2. Dead' = Dead
      BY <2>2 DEF Dead
    <3> QED
      BY <2>1, <3>1, <3>2, PromisedIs DEF Stutter, CallsKept
  <2>5. CASE InHand = <<msg["drain"]>> /\ msg["drain"] \in Message
    <3>1. /\ Backlog # <<>> /\ Backlog \in Seq(Message) /\ Len(Backlog) \in Nat
          /\ Tail(Backlog) = Messages(queue)
      BY <2>5, BacklogType, HeadOfConcat DEF Backlog
    <3>2. Tail(Backlog) = SubSeq(Backlog, 2, Len(Backlog)) /\ Len(Backlog) # 0
      BY <3>1, TailIsSubSeq
    <3>3. 1 \in 1..Len(Backlog) /\ Backlog' = SubSeq(Backlog, 1 + 1, Len(Backlog))
      BY <2>3, <3>1, <3>2
    <3>4. Promise!Forget
      <4>1. Dead' = Dead
        BY <2>2 DEF Dead
      <4> QED
        BY <2>1, <2>2, <3>3, <4>1, MappedNext DEF CallsKept
    <3> QED
      BY <3>4, PromisedIs
  <2> QED
    BY <2>4, <2>5, BacklogType
<1>21. CASE DropQueue
  <2>1. /\ CallsKept /\ pc["drain"] = "drop" /\ pc'["drain"] = "done"
        /\ msg' = msg /\ wire' = wire /\ queue' = <<>>
    BY <1>21, Names, CallsAlone DEF DropQueue, errorVars, linkVars
  <2>2. InHand = <<>> /\ InHand' = <<>> /\ Dead /\ Dead'
    BY <2>1 DEF InHand, Dead
  <2>3. Backlog' = <<>> /\ Backlog = Messages(queue)
    BY <2>1, <2>2, MessagesEmpty, BacklogType, ConcatEmptySeq DEF Backlog
  <2>4. Dead' = Dead
    BY <2>2 DEF Dead
  <2>5. CASE Backlog = <<>>
    BY <2>1, <2>3, <2>4, <2>5, PromisedIs DEF Stutter, CallsKept
  <2>6. CASE Backlog # <<>>
    <3>1. Len(Backlog) \in 1..Len(Backlog)
      BY <2>6, BacklogType, EmptySeq
    <3>2. Backlog' = SubSeq(Backlog, Len(Backlog) + 1, Len(Backlog))
      BY <2>3, <3>1, SubSeqEmpty
    <3>3. Promise!Forget
      BY <2>1, <2>2, <2>4, <3>1, <3>2, MappedNext DEF CallsKept
    <3> QED
      BY <3>3, PromisedIs
  <2> QED
    BY <2>5, <2>6
<1>22. CASE HandleError("drain")
  <2>1. /\ pc["drain"] = "error" /\ pc'["drain"] = "finish" /\ msg' = msg /\ queue' = queue
        /\ wire' = wire
    BY <1>22, Names DEF HandleError, AfterError, queueVars, linkVars
  <2>2. InHand' = InHand /\ Dead' = Dead
    BY <2>1 DEF InHand, Dead
  <2>3. WorkKept
    BY <2>1, <2>2, WorkIs
  <2> QED
    BY <1>22, <2>3, NoticePromised
<1>23. CASE TellError
  <2>1. /\ WorkKept /\ fired' = fired /\ told' = Append(told, "error") /\ pc["err"] = "tell"
        /\ pc'["err"] = "settle" /\ pc'["run"] = pc["run"]
    BY <1>23, Names, WorkAlone DEF TellError, errorVars, queueVars, linkVars
  <2>2. /\ Has(told', "error") /\ (Has(told', "close") <=> Has(told, "close"))
        /\ ~Has(told, "error") /\ fired
    BY <2>1, HasTold DEF Callbacks
  <2>3. Promise!TellError
    BY <2>1, <2>2, MappedNext DEF WorkKept, ErrorIs, ClosedIs
  <2> QED
    BY <2>3, PromisedIs
<1>24. CASE Settle
  <2>1. /\ WorkKept /\ fired' = fired /\ told' = told /\ pc["err"] = "settle" /\ pc'["run"] = pc["run"]
        /\ pc'["err"] = IF deferredClose THEN "tellClose" ELSE "mark"
    BY <1>24, Names, WorkAlone DEF Settle, queueVars, linkVars
  <2>2. CASE deferredClose
    <3>1. pc["run"] = "done" /\ ~Has(told, "close") /\ Has(told, "error") /\ fired
      BY <2>1, <2>2 DEF Callbacks
    <3>2. Promise!CloseDue
      BY <2>1, <2>2, <3>1, MappedNext DEF WorkKept, ErrorIs, ClosedIs
    <3> QED
      BY <3>2, PromisedIs
  <2>3. CASE ~deferredClose
    <3>1. CallsKept
      BY <2>1, <2>3, CallsAlone
    <3> QED
      BY <2>1, <3>1, PromisedIs DEF Stutter, CallsKept, WorkKept
  <2> QED
    BY <2>2, <2>3
<1>25. CASE TellDeferredClose
  <2>1. /\ WorkKept /\ fired' = fired /\ told' = Append(told, "close") /\ pc["err"] = "tellClose"
    BY <1>25, Names, WorkAlone DEF TellDeferredClose, errorVars, queueVars, linkVars
  <2>2. Has(told', "close") /\ (Has(told', "error") <=> Has(told, "error")) /\ ~Has(told, "close")
    BY <2>1, HasTold DEF Callbacks
  <2>3. Promise!TellClose
    BY <2>1, <2>2, MappedNext DEF WorkKept, ErrorIs, ClosedIs
  <2> QED
    BY <2>3, PromisedIs
<1>26. CASE UNCHANGED vars
  BY <1>26, CallsAlone, WorkAlone, PromisedIs
     DEF vars, errorVars, queueVars, linkVars, Stutter, CallsKept, WorkKept
<1> QED
  BY <1>1, <1>2, <1>3, <1>4, <1>5, <1>6, <1>7, <1>8, <1>9,
     <1>10, <1>11, <1>12, <1>13, <1>14, <1>15, <1>16, <1>17, <1>18,
     <1>19, <1>20, <1>21, <1>22, <1>23, <1>24, <1>25, <1>26
     DEF Next, SendStep, CloseStep, RunStep, DrainStep, ErrorStep

LEMMA InitPromised == Init => Promise!Init
<1> SUFFICES ASSUME Init PROVE Promise!Init
  OBVIOUS
<1>1. pc["drain"] = "idle" /\ pc["run"] = "start" /\ pc["err"] = "idle"
  BY Names DEF Init, Service
<1>2. InHand = <<>> /\ Messages(queue) = <<>>
  BY <1>1, MessagesEmpty DEF InHand, At, Init
<1>3. InHand \o Messages(queue) = <<>>
  BY <1>2
<1> QED
  BY <1>1, <1>3 DEF Promise!Init, Init, Drained

(* The client keeps what WsService promises, for any number of senders: each
   message goes out at most once and in order until the client is dead, and the
   error's callback comes before the close's, once each.                     *)
THEOREM PromiseKept == Spec => KeepsPromise
<1>1. Promised => [Promise!Next]_(Promise!vars)
  BY DEF Promised
<1>2. IInv /\ [Next]_vars => [Promise!Next]_(Promise!vars)
  BY <1>1, StepPromised
<1> QED
  BY <1>2, Invariant, InitPromised, PTL DEF Spec, KeepsPromise, Promise!Spec
=============================================================================
