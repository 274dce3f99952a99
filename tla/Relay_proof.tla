---------------------------- MODULE Relay_proof ----------------------------
(***************************************************************************)
(* Proofs about Relay, for every set of streams, messages, servers and     *)
(* times and every bound: its type invariant and its five safety           *)
(* properties.                                                             *)
(*                                                                         *)
(* One inductive invariant carries them.  What it says of a stream (Local) *)
(* is proved at the level of the stream's three records, one lemma for     *)
(* each thing a step makes of them, then lifted to all the streams; what   *)
(* it says of sessions (Apart) and of the attempts of the proxied          *)
(* websocket (Tried, Ended) needs of a step only that it is Steady: that   *)
(* it undoes nothing and lets nobody begin to close.                       *)
(***************************************************************************)
EXTENDS Relay, SequenceTheorems, WellFoundedInduction, TLAPS

(***************************************************************************)
(* The inductive invariant: what is true of one stream, s its record, h    *)
(* its request and r the reader of its body ...                            *)
(***************************************************************************)

(* A stream is made once, is on the map until it is closed, and whoever
   takes its helper out of it shuts the helper.                              *)
Life(s) ==
    /\ s.owner = 0 => s.at = "off"
    /\ s.owner # 0 => s.mapped \/ s.closed
    /\ s.closing # "no" => s.closed
    /\ s.closing \notin {"no", "unmap"} => ~s.mapped
    /\ s.at = "off" => ~s.opened
    /\ ~s.opened => s.helper = "none" /\ s.at \in {"off", "get", "init", "feed", "fail", "end", "done"}
    /\ s.helper = "made" <=> s.at \in {"make", "refused", "attach"}
    /\ s.helper = "set" => ~s.closed
    /\ s.helper = "taken" => \/ s.shut \/ s.at = "discard"
                             \/ s.captured /\ s.closing \in {"unmap", "tell", "send", "helper"}
    /\ s.hclosed \/ s.shut \/ s.captured \/ s.at = "discard" => s.helper = "taken"

(* Whoever sets HasSentCloseMessage is the only one that sends the message.  *)
Sending(s, h) == s.closing = "send" \/ (s.at = "send" /\ h.last)
Tell(s, h) ==
    /\ s.told <= 1
    /\ s.closing = "send" => s.told = 0 /\ ~(s.at = "send" /\ h.last)
    /\ s.at = "send" /\ h.last => s.told = 0
    /\ s.told = 1 \/ Sending(s, h) => s.hasSent
    /\ s.hasSent => s.told = 1 \/ Sending(s, h) \/ s.serverClosed
    /\ s.closing \in {"helper", "reader", "done"} => s.hasSent
    /\ h.last => s.at \in {"post", "push", "send", "body", "finish", "end", "done"}
    /\ ~s.closed /\ s.told = 1 => h.last /\ s.at \in {"body", "finish", "end", "done"}

(* The upload buffer is as long as what has come, or as what was announced.  *)
Load(s, h) ==
    /\ (\/ ~s.opened
        \/ s.at \in {"make", "refused", "attach", "discard"}
        \/ s.at \in {"feed", "upload"} /\ s.cur.type = "open")
       => h.room = 0 /\ h.got = 0 /\ h.known = 0
    /\ h.known # 0 /\ h.room # 0 => h.room = h.known
    /\ h.got = 0 \/ h.room # 0
    /\ s.at = "execute" => h.room = h.got

(* A body of unknown length ends with a read that found nothing, and only a
   chunk that came after its look may be left; a look that finds a chunk can
   take it.                                                                  *)
Ending(s, h, r) ==
    /\ h.how = "stream" => h.length = NoLength
    /\ s.at = "decide" /\ r.acc = <<>> /\ ~s.closed => r.list = <<>> \/ r.late
    /\ h.last /\ ~s.closed => r.list = <<>> \/ r.late
    /\ \A i \in DOMAIN r.list : Len(r.list[i]) <= MaxReturn
    /\ r.closed => s.closed /\ r.at # "none"

(* What the local server has made is sent, in hand or in the reader, unless
   a piece was refused.                                                      *)
Flow(s, h, r) ==
    /\ h.how # "none" => s.at \in {"body", "post", "push", "send", "look", "decide", "wait",
                                   "finish", "end", "done"}
    /\ h.how = "none" => h.made = 0 /\ h.sent = <<>> /\ ~h.dropped
    /\ s.at \in {"body", "post", "push", "send"} => h.how # "none"
    /\ s.at \in {"look", "decide", "wait"} => h.how = "stream"
    /\ h.how # "stream" => r.at = "none" /\ r.list = <<>>
    /\ h.how = "full" => h.length \in Nat /\ (h.last \/ h.made = 0)
    /\ s.at \notin {"look", "decide", "wait"} => r.acc = <<>>
    /\ s.at \notin {"post", "push", "send", "finish", "end", "done"} \/ h.how = "none" => h.piece = <<>>
    /\ Len(FlattenSeq(r.acc)) <= MaxReturn
    /\ h.dropped => s.closed
    /\ ~h.dropped => h.sent \o h.piece \o FlattenSeq(r.acc \o r.list) = Units(0, h.made)
    /\ Ending(s, h, r)

(***************************************************************************)
(* ... of the connection ...                                               *)
(***************************************************************************)

(* While the loop serves the session of its connection the streams of the
   ones before are closed; when it goes on, all are.                         *)
Serving == loop \in {"run", "give", "closing"} /\ session = active
Apart ==
    /\ \A x \in Stream : stream[x].owner \in 0..session
    /\ \A x \in Stream : stream[x].owner # 0 /\ stream[x].owner # session => stream[x].closed
    /\ ~Serving => \A x \in Stream : stream[x].owner # 0 => stream[x].closed
    /\ loop = "closing" => job[Loop] \in {"all", "closeAll", "none"}
    /\ loop = "closing" /\ job[Loop] = "closeAll" =>
          \A x \in Stream : stream[x].owner # 0 => stream[x].closed \/ x \in todo[Loop]
    /\ loop = "closing" /\ job[Loop] = "none" =>
          \A x \in Stream : stream[x].owner # 0 => stream[x].closed
    /\ (session = active /\ active # 0) \/ loop = "opened" => sock[active] # "new"

(***************************************************************************)
(* ... and of the attempts of the proxied websocket.                       *)
(***************************************************************************)

(* The thread of attempt a may still close the stream, or does.              *)
Closes(a) == job[Socket(a)] # "none" \/ (stream[W].closing # "no" /\ stream[W].closer = Socket(a))

(* Only the last attempt is alive, and then it is the current one; those
   before it are over and those after it have not begun.                     *)
Tried ==
    /\ relay.tried # 0 => stream[W].opened /\ stream[W].at # "make"
    /\ relay.current \in {0, relay.tried}
    /\ \A a \in Attempt :
          /\ a > relay.tried => client[a] = NewClientOf /\ ~Closes(a)
          /\ a < relay.tried => client[a].error \in {"settle", "told"}
          /\ client[a].sock \in Live => a = relay.current /\ client[a].error = "no"
          /\ client[a].error = "drop" \/ client[a].error = "dial" => ~relay.everOpened
          /\ client[a].sock = "open" => relay.everOpened
          /\ a = relay.tried /\ client[a].sock \notin Live /\ Closes(a) =>
                relay.everOpened \/ client[a].error \in {"no", "settle", "told"}
          /\ a = relay.tried /\ client[a].sock \in Live => (Closes(a) => relay.everOpened)
          /\ a + 1 = relay.tried /\ client[a + 1].sock \in Live => ~Closes(a)

(* The thread that closes the websocket of a closed helper finds the last
   attempt.                                                                  *)
Ended ==
    /\ relay.worker # "none" => stream[W].shut
    /\ relay.worker = "due" =>
          relay.captured = relay.current \/ \A a \in Attempt : client[a].sock \notin Live
    /\ relay.worker = "done" => \A a \in Attempt : client[a].sock \notin Live

One(s, h, r) == Life(s) /\ Tell(s, h) /\ Load(s, h) /\ Flow(s, h, r)
Local == \A x \in Stream : One(stream[x], http[x], reader[x])

IInv == TypeOK /\ Local /\ Apart /\ Tried /\ Ended

(***************************************************************************)
(* Induction over the natural numbers, on a set of them.                   *)
(***************************************************************************)

Before == OpToRel(<, Nat)

LEMMA BeforeDef == Before = {p \in Nat \X Nat : p[1] < p[2]}
BY DEF Before, OpToRel

LEMMA BeforeWellFounded == IsWellFoundedOn(Before, Nat)
BY NatLessThanWellFounded DEF Before, OpToRel

LEMMA Induction ==
  ASSUME NEW S, 0 \in S, \A n \in Nat : n \in S => n + 1 \in S
  PROVE  \A n \in Nat : n \in S
<1> DEFINE T == Nat \ S
<1>1. SUFFICES ASSUME T # {} PROVE FALSE
  OBVIOUS
<1>2. T \subseteq Nat
  OBVIOUS
<1>3. PICK x \in T : \A y \in T : <<y, x>> \notin Before
  <2> HIDE DEF T
  <2> QED
    BY <1>1, <1>2, BeforeWellFounded, WFMin
<1>4. x - 1 \in T
  <2>1. x # 0
    OBVIOUS
  <2> QED
    BY <2>1
<1>5. <<x - 1, x>> \in Before
  BY <1>4, BeforeDef
<1> QED
  BY <1>3, <1>4, <1>5

(***************************************************************************)
(* Chunks put together.                                                    *)
(***************************************************************************)

(* The body of FlattenSeq's function, up to an index.                        *)
Glue(q, f, n) == [i \in 1..n |-> IF i = 1 THEN q[i] ELSE f[i - 1] \o q[i]]

LEMMA GlueExists ==
  ASSUME NEW q, NEW n \in Nat
  PROVE  \E f : f = Glue(q, f, n)
<1> DEFINE S == {k \in Nat : \E f : f = Glue(q, f, k)}
<1>1. 0 \in S
  <2> DEFINE f == [i \in 1..0 |-> <<>>]
  <2>1. f = Glue(q, f, 0)
    BY DEF Glue
  <2> QED
    BY <2>1
<1>2. ASSUME NEW k \in Nat, k \in S
      PROVE  k + 1 \in S
  <2>1. PICK f : f = Glue(q, f, k)
    BY <1>2
  <2> DEFINE g == [i \in 1..(k + 1) |-> IF i \in 1..k THEN f[i]
                                        ELSE IF k = 0 THEN q[k + 1] ELSE f[k] \o q[k + 1]]
  <2>2. ASSUME NEW i \in 1..(k + 1)
        PROVE  g[i] = IF i = 1 THEN q[i] ELSE g[i - 1] \o q[i]
    <3>1. CASE i \in 1..k
      <4>1. g[i] = f[i]
        BY <3>1
      <4>2. f[i] = IF i = 1 THEN q[i] ELSE f[i - 1] \o q[i]
        <5>1. Glue(q, f, k)[i] = IF i = 1 THEN q[i] ELSE f[i - 1] \o q[i]
          BY <3>1 DEF Glue
        <5> QED
          BY <2>1, <5>1
      <4>3. i # 1 => g[i - 1] = f[i - 1]
        BY <3>1
      <4> QED
        BY <4>1, <4>2, <4>3
    <3>2. CASE i = k + 1
      <4>1. i \notin 1..k /\ (i = 1 <=> k = 0) /\ i - 1 = k
        BY <3>2
      <4>2. k # 0 => g[k] = f[k]
        OBVIOUS
      <4>3. g[i] = IF k = 0 THEN q[i] ELSE f[k] \o q[i]
        BY <3>2, <4>1
      <4> QED
        BY <4>1, <4>2, <4>3
    <3> QED
      BY <3>1, <3>2
  <2>3. g = Glue(q, g, k + 1)
    BY <2>2, Zenon DEF Glue
  <2> HIDE DEF g
  <2> QED
    BY <2>3
<1> HIDE DEF S
<1>3. n \in S
  BY <1>1, <1>2, Induction
<1> QED
  BY <1>3 DEF S

LEMMA FlatEmpty == FlattenSeq(<<>>) = <<>>
BY DEF FlattenSeq

LEMMA FlatDef ==
  ASSUME NEW q, Len(q) \in Nat \ {0}
  PROVE  \E f : f = Glue(q, f, Len(q)) /\ FlattenSeq(q) = f[Len(q)]
<1> DEFINE F == CHOOSE f : f = Glue(q, f, Len(q))
<1>1. F = Glue(q, F, Len(q))
  BY GlueExists
<1>2. FlattenSeq(q) = F[Len(q)]
  BY DEF FlattenSeq, Glue
<1> QED
  BY <1>1, <1>2

LEMMA GlueAt ==
  ASSUME NEW q, NEW n \in Nat, NEW f, f = Glue(q, f, n)
  PROVE  \A i \in 1..n : f[i] = IF i = 1 THEN q[i] ELSE f[i - 1] \o q[i]
<1>1. \A i \in 1..n : Glue(q, f, n)[i] = IF i = 1 THEN q[i] ELSE f[i - 1] \o q[i]
  BY DEF Glue
<1> QED
  BY <1>1

LEMMA EmptyBody == <<>> \in Body /\ <<>> \in Seq(Body)
<1>1. \A S : <<>> \in Seq(S)
  OBVIOUS
<1> QED
  BY <1>1 DEF Body

LEMMA GlueType ==
  ASSUME NEW q \in Seq(Body), NEW f, f = Glue(q, f, Len(q))
  PROVE  \A i \in 1..Len(q) : f[i] \in Body
<1> DEFINE S == {i \in Nat : i \in 1..Len(q) => f[i] \in Body}
<1>1. 0 \in S
  OBVIOUS
<1>2. ASSUME NEW n \in Nat, n \in S
      PROVE  n + 1 \in S
  <2> SUFFICES ASSUME n + 1 \in 1..Len(q)
               PROVE  f[n + 1] \in Body
    OBVIOUS
  <2>1. f[n + 1] = IF n + 1 = 1 THEN q[n + 1] ELSE f[(n + 1) - 1] \o q[n + 1]
    BY GlueAt
  <2>2. q[n + 1] \in Body
    OBVIOUS
  <2>3. CASE n = 0
    BY <2>1, <2>2, <2>3
  <2>4. CASE n # 0
    <3>0. n \in 1..Len(q) /\ (n + 1) - 1 = n /\ n + 1 # 1
      BY <2>4
    <3>1. f[n] \in Body /\ f[n + 1] = f[n] \o q[n + 1]
      BY <1>2, <2>1, <3>0
    <3> QED
      BY <2>2, <3>1, ConcatProperties DEF Body
  <2> QED
    BY <2>3, <2>4
<1>3. \A n \in Nat : n \in S
  <2> HIDE DEF S
  <2> QED
    BY <1>1, <1>2, Induction
<1> QED
  BY <1>3

LEMMA FlatType ==
  ASSUME NEW q \in Seq(Body)
  PROVE  FlattenSeq(q) \in Body
<1>1. CASE q = <<>>
  BY <1>1, FlatEmpty, EmptyBody
<1>2. CASE q # <<>>
  <2>1. Len(q) \in Nat \ {0}
    BY <1>2
  <2>2. PICK f : f = Glue(q, f, Len(q)) /\ FlattenSeq(q) = f[Len(q)]
    BY <2>1, FlatDef
  <2> QED
    BY <2>1, <2>2, GlueType
<1> QED
  BY <1>1, <1>2

LEMMA SameGlue ==
  ASSUME NEW q, NEW p, NEW n \in Nat, NEW m \in Nat, NEW f, NEW g,
         f = Glue(q, f, n), g = Glue(p, g, m),
         NEW h \in Nat \ {0}, h <= n, h <= m, \A i \in 1..h : q[i] = p[i]
  PROVE  f[h] = g[h]
<1> DEFINE S == {i \in Nat : i \in 1..h => f[i] = g[i]}
<1>1. 0 \in S
  OBVIOUS
<1>2. ASSUME NEW k \in Nat, k \in S
      PROVE  k + 1 \in S
  <2> SUFFICES ASSUME k + 1 \in 1..h
               PROVE  f[k + 1] = g[k + 1]
    OBVIOUS
  <2>1. /\ k + 1 \in 1..n /\ k + 1 \in 1..m /\ (k + 1) - 1 = k /\ (k + 1 = 1 <=> k = 0)
        /\ k # 0 => k \in 1..h
    OBVIOUS
  <2>2. f[k + 1] = IF k + 1 = 1 THEN q[k + 1] ELSE f[(k + 1) - 1] \o q[k + 1]
    BY <2>1, GlueAt
  <2>3. g[k + 1] = IF k + 1 = 1 THEN p[k + 1] ELSE g[(k + 1) - 1] \o p[k + 1]
    BY <2>1, GlueAt
  <2> QED
    BY <1>2, <2>1, <2>2, <2>3
<1>3. \A k \in Nat : k \in S
  <2> HIDE DEF S
  <2> QED
    BY <1>1, <1>2, Induction
<1> QED
  BY <1>3

LEMMA FlatAppend ==
  ASSUME NEW q \in Seq(Body), NEW u \in Body
  PROVE  FlattenSeq(Append(q, u)) = FlattenSeq(q) \o u
<1> DEFINE p == Append(q, u)
<1>1. /\ p \in Seq(Body) /\ Len(p) = Len(q) + 1 /\ p[Len(q) + 1] = u /\ Len(q) \in Nat
      /\ \A i \in 1..Len(q) : p[i] = q[i]
  BY AppendProperties
<1> HIDE DEF p
<1>2. PICK g : g = Glue(p, g, Len(p)) /\ FlattenSeq(p) = g[Len(p)]
  BY <1>1, FlatDef
<1>3. FlattenSeq(p) = IF Len(q) = 0 THEN u ELSE g[Len(q)] \o u
  <2>1. Len(p) \in 1..Len(p) /\ Len(p) \in Nat /\ Len(p) - 1 = Len(q) /\ (Len(p) = 1 <=> Len(q) = 0)
    BY <1>1
  <2>2. g[Len(p)] = IF Len(p) = 1 THEN p[Len(p)] ELSE g[Len(p) - 1] \o p[Len(p)]
    BY <1>2, <2>1, GlueAt
  <2> QED
    BY <1>1, <1>2, <2>1, <2>2
<1>4. CASE q = <<>>
  <2>1. FlattenSeq(q) \o u = u
    BY <1>4, FlatEmpty, ConcatEmptySeq DEF Body
  <2> QED
    BY <1>3, <1>4, <2>1 DEF p
<1>5. CASE q # <<>>
  <2>1. Len(q) \in Nat \ {0}
    BY <1>5
  <2>2. PICK f : f = Glue(q, f, Len(q)) /\ FlattenSeq(q) = f[Len(q)]
    BY <2>1, FlatDef
  <2>3. f[Len(q)] = g[Len(q)]
    <3>1. Len(q) \in Nat /\ Len(q) \in Nat \ {0} /\ Len(p) \in Nat /\ Len(q) <= Len(p)
      BY <1>1, <2>1
    <3>2. \A i \in 1..Len(q) : q[i] = p[i]
      BY <1>1
    <3> HIDE <1>1
    <3> QED
      BY <1>2, <2>2, <3>1, <3>2, SameGlue
  <2> QED
    BY <1>3, <2>1, <2>2, <2>3 DEF p
<1> QED
  BY <1>4, <1>5

(* More chunks are not shorter.                                              *)
LEMMA FlatGrows ==
  ASSUME NEW q \in Seq(Body), NEW m \in 0..Len(q), NEW n \in m..Len(q)
  PROVE  Len(FlattenSeq(SubSeq(q, 1, m))) <= Len(FlattenSeq(SubSeq(q, 1, n)))
<1> DEFINE L(k) == Len(FlattenSeq(SubSeq(q, 1, k)))
           S == {k \in Nat : m + k <= Len(q) => L(m + k) \in Nat /\ L(m) <= L(m + k)}
<1>1. ASSUME NEW k \in 0..Len(q)
      PROVE  SubSeq(q, 1, k) \in Seq(Body) /\ L(k) \in Nat
  <2>1. SubSeq(q, 1, k) \in Seq(Body)
    <3>1. \A i \in 1..k : q[i] \in Body
      OBVIOUS
    <3> QED
      BY <3>1, SubSeqProperties
  <2>2. FlattenSeq(SubSeq(q, 1, k)) \in Body
    BY <2>1, FlatType
  <2> QED
    BY <2>1, <2>2 DEF Body
<1>2. 0 \in S
  <2>1. L(m) \in Nat /\ m + 0 = m
    BY <1>1
  <2> HIDE DEF L
  <2> QED
    BY <2>1
<1>3. ASSUME NEW k \in Nat, k \in S
      PROVE  k + 1 \in S
  <2> SUFFICES ASSUME m + (k + 1) <= Len(q)
               PROVE  L(m + (k + 1)) \in Nat /\ L(m) <= L(m + (k + 1))
    OBVIOUS
  <2> DEFINE j == m + k + 1
             a == SubSeq(q, 1, m + k)
  <2>1. /\ j \in 1..Len(q) /\ j - 1 = m + k /\ m + k \in 0..Len(q) /\ m + k <= Len(q)
        /\ j \in 0..Len(q) /\ m + (k + 1) = j
    OBVIOUS
  <2>2. q[j] \in Body /\ a \in Seq(Body)
    BY <1>1, <2>1
  <2>3. SubSeq(q, 1, j) = Append(a, q[j])
    <3>1. SubSeq(q, 1, j) = SubSeq(q, 1, j - 1) \o <<q[j]>>
      <4>1. 1 \in 1..Len(q) /\ j \in 1..Len(q)
        BY <2>1
      <4> QED
        BY <4>1, SubSeqRecursiveSecond
    <3>2. Append(a, q[j]) = a \o <<q[j]>>
      BY <2>2, AppendIsConcat
    <3> QED
      BY <2>1, <3>1, <3>2
  <2>4. FlattenSeq(SubSeq(q, 1, j)) = FlattenSeq(a) \o q[j]
    BY <2>2, <2>3, FlatAppend
  <2>5. FlattenSeq(a) \in Body
    BY <2>2, FlatType
  <2>6. L(j) = Len(FlattenSeq(a)) + Len(q[j]) /\ Len(q[j]) \in Nat
    <3>1. Len(FlattenSeq(a) \o q[j]) = Len(FlattenSeq(a)) + Len(q[j])
      BY <2>2, <2>5, ConcatProperties DEF Body
    <3>2. Len(q[j]) \in Nat
      BY <2>2 DEF Body
    <3> QED
      BY <2>4, <3>1, <3>2
  <2>7. L(m + k) = Len(FlattenSeq(a))
    OBVIOUS
  <2>8. L(m) <= L(m + k) /\ L(m + k) \in Nat /\ L(m) \in Nat /\ L(j) \in Nat
    BY <1>1, <1>3, <2>1
  <2> HIDE DEF L, a
  <2> QED
    BY <2>1, <2>6, <2>7, <2>8
<1>4. \A k \in Nat : k \in S
  <2> HIDE DEF S
  <2> QED
    BY <1>2, <1>3, Induction
<1>5. n - m \in Nat /\ m + (n - m) = n /\ n <= Len(q)
  OBVIOUS
<1> HIDE DEF L
<1>6. L(m) <= L(n)
  BY <1>4, <1>5
<1> QED
  BY <1>6 DEF L

(* How many chunks fit: never fewer than those that did before.              *)
LEMMA FittingIs ==
  ASSUME NEW q \in Seq(Body), NEW k \in 0..Len(q), Len(FlattenSeq(SubSeq(q, 1, k))) <= MaxReturn
  PROVE  /\ Fitting(q) \in k..Len(q)
         /\ Len(FlattenSeq(SubSeq(q, 1, Fitting(q)))) <= MaxReturn
<1> DEFINE L(i) == Len(FlattenSeq(SubSeq(q, 1, i)))
           Ok(n) == L(n) <= MaxReturn /\ (n = Len(q) \/ L(n + 1) > MaxReturn)
<1>0. Len(q) \in Nat /\ MaxReturn \in Nat
  BY ProxyAssumption
<1>1. ASSUME NEW i \in 0..Len(q)
      PROVE  L(i) \in Nat
  <2>1. SubSeq(q, 1, i) \in Seq(Body)
    <3>1. \A j \in 1..i : q[j] \in Body
      OBVIOUS
    <3> QED
      BY <3>1, SubSeqProperties
  <2> QED
    BY <2>1, FlatType DEF Body
<1>2. \E n \in 0..Len(q) : Ok(n)
  <2> SUFFICES ASSUME \A n \in 0..Len(q) : ~Ok(n)
               PROVE  FALSE
    OBVIOUS
  <2> DEFINE S == {j \in Nat : k <= j /\ j <= Len(q) => L(j) <= MaxReturn}
  <2>0. L(k) <= MaxReturn
    OBVIOUS
  <2> HIDE DEF L
  <2>1. 0 \in S
    BY <2>0
  <2>2. ASSUME NEW j \in Nat, j \in S
        PROVE  j + 1 \in S
    <3> SUFFICES ASSUME k <= j + 1, j + 1 <= Len(q)
                 PROVE  L(j + 1) <= MaxReturn
      OBVIOUS
    <3>1. CASE j + 1 = k
      BY <2>0, <3>1
    <3>2. CASE k <= j
      <4>1. j \in 0..Len(q) /\ j # Len(q) /\ j + 1 \in 0..Len(q) /\ j <= Len(q)
        BY <1>0
      <4>2. L(j) <= MaxReturn
        BY <2>2, <3>2, <4>1
      <4>3. ~(L(j + 1) > MaxReturn)
        BY <4>1, <4>2
      <4> QED
        BY <1>0, <1>1, <4>1, <4>3
    <3> QED
      BY <3>1, <3>2
  <2>3. \A j \in Nat : j \in S
    <3> HIDE DEF S
    <3> QED
      BY <2>1, <2>2, Induction
  <2>4. Len(q) \in Nat /\ k <= Len(q) /\ Len(q) \in 0..Len(q)
    BY <1>0
  <2>5. L(Len(q)) <= MaxReturn
    BY <2>3, <2>4
  <2> QED
    BY <2>4, <2>5
<1>3. Fitting(q) = CHOOSE n \in 0..Len(q) : Ok(n)
  BY DEF Fitting
<1>4. Fitting(q) \in 0..Len(q) /\ Ok(Fitting(q))
  <2> HIDE DEF Ok
  <2> QED
    BY <1>2, <1>3
<1>5. Fitting(q) >= k
  <2> SUFFICES ASSUME ~(Fitting(q) >= k)
               PROVE  FALSE
    OBVIOUS
  <2>1. Fitting(q) + 1 \in 0..k /\ k \in (Fitting(q) + 1)..Len(q) /\ Fitting(q) # Len(q)
        /\ Fitting(q) + 1 \in 0..Len(q)
    BY <1>0, <1>4
  <2>2. L(Fitting(q) + 1) <= L(k)
    BY <2>1, FlatGrows
  <2>3. L(Fitting(q) + 1) > MaxReturn /\ L(k) <= MaxReturn /\ L(k) \in Nat /\ L(Fitting(q) + 1) \in Nat
    BY <1>1, <1>4, <2>1
  <2> HIDE DEF L
  <2> QED
    BY <1>0, <2>2, <2>3
<1> QED
  BY <1>0, <1>4, <1>5

LEMMA UnitsType ==
  ASSUME NEW a \in Nat, NEW n \in Nat
  PROVE  Units(a, n) \in Body /\ Len(Units(a, n)) = n
BY DEF Units, Body

(* What is made next goes on where the last unit was.                        *)
LEMMA UnitsMore ==
  ASSUME NEW m \in Nat, NEW n \in Nat
  PROVE  Units(0, m) \o Units(m, n) = Units(0, m + n)
<1> DEFINE a == Units(0, m) b == Units(m, n) c == Units(0, m + n)
<1>1. a \in Body /\ Len(a) = m /\ b \in Body /\ Len(b) = n /\ m + n \in Nat
  BY UnitsType
<1>2. c \in Body /\ Len(c) = m + n
  BY <1>1, UnitsType
<1>3. /\ \A i \in 1..m : a[i] = i
      /\ \A i \in 1..n : b[i] = m + i
      /\ \A i \in 1..(m + n) : c[i] = i
  BY DEF Units
<1> HIDE DEF a, b, c
<1>4. /\ a \o b \in Body /\ Len(a \o b) = m + n
      /\ \A i \in 1..(m + n) : (a \o b)[i] = IF i <= m THEN a[i] ELSE b[i - m]
  BY <1>1, ConcatProperties DEF Body
<1>5. \A i \in 1..(m + n) : (a \o b)[i] = c[i]
  BY <1>3, <1>4
<1>6. a \o b = c
  BY <1>1, <1>2, <1>4, <1>5, SeqEqual DEF Body
<1> QED
  BY <1>6 DEF a, b, c

LEMMA BodyAssoc ==
  ASSUME NEW s \in Body, NEW t \in Body, NEW u \in Body
  PROVE  (s \o t) \o u = s \o (t \o u)
BY ConcatAssociative DEF Body

LEMMA ListAssoc ==
  ASSUME NEW s \in Seq(Body), NEW t \in Seq(Body), NEW u \in Seq(Body)
  PROVE  (s \o t) \o u = s \o (t \o u)
<1>1. \A S : \A a, b, c \in Seq(S) : (a \o b) \o c = a \o (b \o c)
  BY ConcatAssociative
<1> DEFINE B == Body
<1>2. s \in Seq(B) /\ t \in Seq(B) /\ u \in Seq(B)
  OBVIOUS
<1> HIDE DEF B
<1> QED
  BY <1>1, <1>2

(* The chunks of two lists, and of the parts of one.                         *)
LEMMA FlatConcat ==
  ASSUME NEW q \in Seq(Body), NEW p \in Seq(Body)
  PROVE  FlattenSeq(q \o p) = FlattenSeq(q) \o FlattenSeq(p)
<1> DEFINE P(k) == SubSeq(p, 1, k)
           S == {k \in Nat : k <= Len(p) => FlattenSeq(q \o P(k)) = FlattenSeq(q) \o FlattenSeq(P(k))}
<1>1. ASSUME NEW k \in 0..Len(p)
      PROVE  P(k) \in Seq(Body)
  <2>1. \A i \in 1..k : p[i] \in Body
    OBVIOUS
  <2> QED
    BY <2>1, SubSeqProperties
<1>2. 0 \in S
  <2>1. P(0) = <<>>
    BY SubSeqEmpty
  <2>2. q \o <<>> = q /\ FlattenSeq(q) \o <<>> = FlattenSeq(q)
    BY FlatType, ConcatEmptySeq DEF Body
  <2> HIDE DEF P
  <2> QED
    BY <2>1, <2>2, FlatEmpty
<1>3. ASSUME NEW k \in Nat, k \in S
      PROVE  k + 1 \in S
  <2> SUFFICES ASSUME k + 1 <= Len(p)
               PROVE  FlattenSeq(q \o P(k + 1)) = FlattenSeq(q) \o FlattenSeq(P(k + 1))
    OBVIOUS
  <2> DEFINE e == p[k + 1]
  <2>1. k + 1 \in 1..Len(p) /\ (k + 1) - 1 = k /\ k \in 0..Len(p) /\ k <= Len(p) /\ k + 1 \in 0..Len(p)
    OBVIOUS
  <2>2. e \in Body /\ P(k) \in Seq(Body) /\ <<e>> \in Seq(Body)
    BY <1>1, <2>1
  <2>3. P(k + 1) = Append(P(k), e)
    <3>1. P(k + 1) = SubSeq(p, 1, (k + 1) - 1) \o <<p[k + 1]>>
      <4>1. 1 \in 1..Len(p) /\ k + 1 \in 1..Len(p)
        BY <2>1
      <4> QED
        BY <4>1, SubSeqRecursiveSecond
    <3>2. Append(P(k), e) = P(k) \o <<e>>
      BY <2>2, AppendIsConcat
    <3> QED
      BY <2>1, <3>1, <3>2
  <2>4. FlattenSeq(q \o P(k)) = FlattenSeq(q) \o FlattenSeq(P(k))
    BY <1>3, <2>1
  <2> HIDE DEF P, e
  <2>5. q \o Append(P(k), e) = Append(q \o P(k), e)
    <3>1. q \o P(k) \in Seq(Body)
      BY <2>2, ConcatProperties
    <3>2. (q \o P(k)) \o <<e>> = q \o (P(k) \o <<e>>)
      BY <2>2, ListAssoc
    <3>3. Append(q \o P(k), e) = (q \o P(k)) \o <<e>> /\ Append(P(k), e) = P(k) \o <<e>>
      BY <2>2, <3>1, AppendIsConcat
    <3> QED
      BY <3>2, <3>3
  <2>6. FlattenSeq(Append(q \o P(k), e)) = FlattenSeq(q \o P(k)) \o e
    BY <2>2, ConcatProperties, FlatAppend
  <2>7. FlattenSeq(Append(P(k), e)) = FlattenSeq(P(k)) \o e
    BY <2>2, FlatAppend
  <2>8. (FlattenSeq(q) \o FlattenSeq(P(k))) \o e = FlattenSeq(q) \o (FlattenSeq(P(k)) \o e)
    <3>1. FlattenSeq(q) \in Body /\ FlattenSeq(P(k)) \in Body
      BY <2>2, FlatType
    <3> QED
      BY <2>2, <3>1, BodyAssoc
  <2> QED
    BY <2>3, <2>4, <2>5, <2>6, <2>7, <2>8, Zenon
<1>4. \A k \in Nat : k \in S
  <2> HIDE DEF S
  <2> QED
    BY <1>2, <1>3, Induction
<1>5. Len(p) \in Nat /\ P(Len(p)) = p
  BY SubSeqFull
<1>6. Len(p) \in S
  <2> HIDE DEF S, P
  <2> QED
    BY <1>4, <1>5
<1>7. FlattenSeq(q \o P(Len(p))) = FlattenSeq(q) \o FlattenSeq(P(Len(p)))
  <2> HIDE DEF P
  <2> QED
    BY <1>5, <1>6
<1> HIDE DEF P
<1> QED
  BY <1>5, <1>7

LEMMA Parts ==
  ASSUME NEW q \in Seq(Body), NEW k \in 0..Len(q)
  PROVE  /\ SubSeq(q, 1, k) \in Seq(Body) /\ SubSeq(q, k + 1, Len(q)) \in Seq(Body)
         /\ SubSeq(q, 1, k) \o SubSeq(q, k + 1, Len(q)) = q
<1>1. SubSeq(q, 1, k) \in Seq(Body)
  <2>1. \A i \in 1..k : q[i] \in Body
    OBVIOUS
  <2> QED
    BY <2>1, SubSeqProperties
<1>2. SubSeq(q, k + 1, Len(q)) \in Seq(Body)
  <2>1. (\A i \in (k + 1)..Len(q) : q[i] \in Body) /\ k + 1 \in Int /\ Len(q) \in Int
    OBVIOUS
  <2> QED
    BY <2>1, SubSeqProperties
<1>3. SubSeq(q, 1, k) \o SubSeq(q, k + 1, Len(q)) = SubSeq(q, 1, Len(q))
  <2>1. 1 \in 1..(Len(q) + 1) /\ k \in (1 - 1)..Len(q) /\ Len(q) \in k..Len(q)
    OBVIOUS
  <2> QED
    BY <2>1, ConcatAdjacentSubSeq
<1> QED
  BY <1>1, <1>2, <1>3, SubSeqFull

(***************************************************************************)
(* What one step may make of a stream.                                     *)
(***************************************************************************)

(* What is not undone, so that the attempts of a websocket stay as they are. *)
Lasting(s, n) ==
    /\ s.opened => n.opened
    /\ s.shut => n.shut
    /\ n.at = "make" => s.at = "make" \/ ~s.opened

(* The connection sees that it is still its own, and closed for good.        *)
Owned(s, n) == n.owner = s.owner /\ (s.closed => n.closed)

(* Nobody begins to close it.                                                *)
Closer(s, n) == n.closing # "no" => s.closing # "no" /\ n.closer = s.closer

Fits(s, n, h, r) ==
    n \in StreamState /\ h \in HttpState /\ r \in ReaderState /\ One(n, h, r) /\ Lasting(s, n)

LEMMA Basics ==
  /\ Loop \in Thread /\ <<>> \in Seq(Message) /\ Nothing \in Message
  /\ \A x \in Stream : Worker(x) \in Thread
  /\ \A a \in Attempt : Socket(a) \in Thread
<1>1. \A S : <<>> \in Seq(S)
  OBVIOUS
<1> QED
  BY <1>1 DEF Thread, Attempt, Nothing, Message

(* The thread of the stream goes on.                                         *)
LEMMA MoveKeeps ==
  ASSUME NEW s \in StreamState, NEW h \in HttpState, NEW r \in ReaderState, One(s, h, r),
         NEW to \in At,
         \/ s.at = "get" /\ to = "done"
         \/ s.at = "feed" /\ to = "fail"
         \/ s.at = "feed" /\ s.opened /\ to \in {"get", "finish", "pass", "upload"}
         \/ s.at \in {"finish", "fail"} /\ to = "end"
         \/ s.at = "end" /\ to = "done"
         \/ s.at = "upload" /\ to = "fail"
         \/ s.at = "body" /\ to = "finish"
         \/ s.at = "post" /\ to \in {"finish", "push"}
         \/ s.at = "wait" /\ to = "look"
         \/ s.at = "make" /\ to \in {"refused", "attach"}
         \/ s.at = "refused" /\ to = "attach"
         \/ s.at = "pass" /\ to \in {"get", "finish"},
         NEW n, n = [s EXCEPT !.at = to]
  PROVE  Fits(s, n, h, r) /\ Owned(s, n) /\ Closer(s, n)
<1>1. n \in StreamState
  BY DEF StreamState, At
<1>4. Life(n)
  BY DEF One, Life, StreamState
<1>5. Tell(n, h)
  BY DEF One, Life, Tell, Sending, StreamState
<1>6. Load(n, h)
  BY DEF One, Life, Load, StreamState
<1>7. Flow(n, h, r)
  BY DEF One, Life, Flow, Ending, StreamState
<1>8. Lasting(s, n)
  BY DEF One, Life, Lasting, StreamState
<1>9. Owned(s, n)
  BY DEF Owned, StreamState
<1>10. Closer(s, n)
  BY DEF Closer, StreamState, NewStream
<1> QED
  BY <1>1, <1>4, <1>5, <1>6, <1>7, <1>8, <1>9, <1>10 DEF Fits, One

LEMMA CountKeeps ==
  ASSUME NEW s \in StreamState, NEW h \in HttpState, NEW r \in ReaderState, One(s, h, r),
         NEW c \in Nat,
         NEW n, n = [s EXCEPT !.count = c]
  PROVE  Fits(s, n, h, r) /\ Owned(s, n) /\ Closer(s, n)
<1>1. n \in StreamState
  BY DEF StreamState, At
<1>4. Life(n)
  BY DEF One, Life, StreamState
<1>5. Tell(n, h)
  BY DEF One, Life, Tell, Sending, StreamState
<1>6. Load(n, h)
  BY DEF One, Life, Load, StreamState
<1>7. Flow(n, h, r)
  BY DEF One, Life, Flow, Ending, StreamState
<1>8. Lasting(s, n)
  BY DEF One, Life, Lasting, StreamState
<1>9. Owned(s, n)
  BY DEF Owned, StreamState
<1>10. Closer(s, n)
  BY DEF Closer, StreamState, NewStream
<1> QED
  BY <1>1, <1>4, <1>5, <1>6, <1>7, <1>8, <1>9, <1>10 DEF Fits, One

LEMMA InboxKeeps ==
  ASSUME NEW s \in StreamState, NEW h \in HttpState, NEW r \in ReaderState, One(s, h, r),
         NEW b \in Seq(Message),
         NEW n, n = [s EXCEPT !.inbox = b]
  PROVE  Fits(s, n, h, r) /\ Owned(s, n) /\ Closer(s, n)
<1>1. n \in StreamState
  BY DEF StreamState, At
<1>4. Life(n)
  BY DEF One, Life, StreamState
<1>5. Tell(n, h)
  BY DEF One, Life, Tell, Sending, StreamState
<1>6. Load(n, h)
  BY DEF One, Life, Load, StreamState
<1>7. Flow(n, h, r)
  BY DEF One, Life, Flow, Ending, StreamState
<1>8. Lasting(s, n)
  BY DEF One, Life, Lasting, StreamState
<1>9. Owned(s, n)
  BY DEF Owned, StreamState
<1>10. Closer(s, n)
  BY DEF Closer, StreamState, NewStream
<1> QED
  BY <1>1, <1>4, <1>5, <1>6, <1>7, <1>8, <1>9, <1>10 DEF Fits, One

(* A stream is made; its thread may fail to start.                           *)
LEMMA NewKeeps ==
  ASSUME NEW s \in StreamState, NEW h \in HttpState, NEW r \in ReaderState, One(s, h, r),
         NEW o \in 1..MaxSessions, NEW k \in {"http", "ws"}, s.owner = 0,
         NEW n, n = [NewStream EXCEPT !.owner = o, !.kind = k, !.mapped = TRUE,
                                  !.count = 1, !.at = "get"]
  PROVE  Fits(s, n, h, r) /\ Closer(s, n)
<1>1. n \in StreamState
  <2>1. Loop \in Thread /\ <<>> \in Seq(Message) /\ Nothing \in Message
    BY Basics
  <2>2. 0 \in 0..MaxSessions
    BY ConAssumption
  <2>4. o \in 0..MaxSessions
    OBVIOUS
  <2>3. NewStream \in StreamState
    BY <2>1, <2>2 DEF StreamState, At, NewStream
  <2>5. "get" \in At
    BY DEF At
  <2> QED
    BY <2>3, <2>4, <2>5 DEF StreamState
<1>4. Life(n)
  BY DEF Life, NewStream
<1>5. Tell(n, h)
  BY DEF One, Life, Tell, Sending, NewStream
<1>6. Load(n, h)
  BY DEF One, Life, Load, NewStream
<1>7. Flow(n, h, r)
  BY DEF One, Life, Flow, Ending, NewStream
<1>8. Lasting(s, n)
  BY DEF One, Life, Lasting, NewStream
<1>10. Closer(s, n)
  BY DEF Closer, StreamState, NewStream
<1> QED
  BY <1>1, <1>4, <1>5, <1>6, <1>7, <1>8, <1>10 DEF Fits, One

LEMMA NewFails ==
  ASSUME NEW s \in StreamState, NEW h \in HttpState, NEW r \in ReaderState, One(s, h, r),
         NEW o \in 1..MaxSessions, NEW k \in {"http", "ws"}, s.owner = 0,
         NEW n, n = [NewStream EXCEPT !.owner = o, !.kind = k, !.mapped = TRUE,
                                  !.count = 1]
  PROVE  Fits(s, n, h, r) /\ Closer(s, n)
<1>1. n \in StreamState
  <2>1. Loop \in Thread /\ <<>> \in Seq(Message) /\ Nothing \in Message
    BY Basics
  <2>2. 0 \in 0..MaxSessions
    BY ConAssumption
  <2>4. o \in 0..MaxSessions
    OBVIOUS
  <2>3. NewStream \in StreamState
    BY <2>1, <2>2 DEF StreamState, At, NewStream
  <2>5. "get" \in At
    BY DEF At
  <2> QED
    BY <2>3, <2>4, <2>5 DEF StreamState
<1>4. Life(n)
  BY DEF Life, NewStream
<1>5. Tell(n, h)
  BY DEF One, Life, Tell, Sending, NewStream
<1>6. Load(n, h)
  BY DEF One, Life, Load, NewStream
<1>7. Flow(n, h, r)
  BY DEF One, Life, Flow, Ending, NewStream
<1>8. Lasting(s, n)
  BY DEF One, Life, Lasting, NewStream
<1>10. Closer(s, n)
  BY DEF Closer, StreamState, NewStream
<1> QED
  BY <1>1, <1>4, <1>5, <1>6, <1>7, <1>8, <1>10 DEF Fits, One

(* The server closes the stream.                                             *)
LEMMA EndedKeeps ==
  ASSUME NEW s \in StreamState, NEW h \in HttpState, NEW r \in ReaderState, One(s, h, r),
         ~s.closed,
         NEW n, n = [s EXCEPT !.hasSent = TRUE, !.serverClosed = TRUE]
  PROVE  Fits(s, n, h, r) /\ Owned(s, n) /\ Closer(s, n)
<1>1. n \in StreamState
  BY DEF StreamState, At
<1>4. Life(n)
  BY DEF One, Life, StreamState
<1>5. Tell(n, h)
  BY DEF One, Life, Tell, Sending, StreamState
<1>6. Load(n, h)
  BY DEF One, Life, Load, StreamState
<1>7. Flow(n, h, r)
  BY DEF One, Life, Flow, Ending, StreamState
<1>8. Lasting(s, n)
  BY DEF One, Life, Lasting, StreamState
<1>9. Owned(s, n)
  BY DEF Owned, StreamState
<1>10. Closer(s, n)
  BY DEF Closer, StreamState, NewStream
<1> QED
  BY <1>1, <1>4, <1>5, <1>6, <1>7, <1>8, <1>9, <1>10 DEF Fits, One

(* Close: the helper is taken when there is one.                             *)
LEMMA CloseTakes ==
  ASSUME NEW s \in StreamState, NEW h \in HttpState, NEW r \in ReaderState, One(s, h, r),
         NEW t \in Thread, ~s.closed, s.helper = "set", ~s.hclosed,
         NEW n, n = [s EXCEPT !.closed = TRUE, !.closing = "unmap", !.closer = t,
                               !.captured = TRUE, !.hclosed = TRUE, !.helper = "taken"]
  PROVE  Fits(s, n, h, r) /\ Owned(s, n)
<1>1. n \in StreamState
  BY DEF StreamState, At
<1>4. Life(n)
  BY DEF One, Life, StreamState
<1>5. Tell(n, h)
  BY DEF One, Life, Tell, Sending, StreamState
<1>6. Load(n, h)
  BY DEF One, Life, Load, StreamState
<1>7. Flow(n, h, r)
  BY DEF One, Life, Flow, Ending, StreamState
<1>8. Lasting(s, n)
  BY DEF One, Life, Lasting, StreamState
<1>9. Owned(s, n)
  BY DEF Owned, StreamState
<1> QED
  BY <1>1, <1>4, <1>5, <1>6, <1>7, <1>8, <1>9 DEF Fits, One

LEMMA CloseFinds ==
  ASSUME NEW s \in StreamState, NEW h \in HttpState, NEW r \in ReaderState, One(s, h, r),
         NEW t \in Thread, ~s.closed, s.helper # "set" \/ s.hclosed,
         NEW n, n = [s EXCEPT !.closed = TRUE, !.closing = "unmap", !.closer = t, !.captured = FALSE]
  PROVE  Fits(s, n, h, r) /\ Owned(s, n)
<1>1. n \in StreamState
  BY DEF StreamState, At
<1>4. Life(n)
  BY DEF One, Life, StreamState
<1>5. Tell(n, h)
  BY DEF One, Life, Tell, Sending, StreamState
<1>6. Load(n, h)
  BY DEF One, Life, Load, StreamState
<1>7. Flow(n, h, r)
  BY DEF One, Life, Flow, Ending, StreamState
<1>8. Lasting(s, n)
  BY DEF One, Life, Lasting, StreamState
<1>9. Owned(s, n)
  BY DEF Owned, StreamState
<1> QED
  BY <1>1, <1>4, <1>5, <1>6, <1>7, <1>8, <1>9 DEF Fits, One

LEMMA UnmapKeeps ==
  ASSUME NEW s \in StreamState, NEW h \in HttpState, NEW r \in ReaderState, One(s, h, r),
         s.closing = "unmap",
         NEW n, n = [s EXCEPT !.mapped = FALSE, !.closing = "tell"]
  PROVE  Fits(s, n, h, r) /\ Owned(s, n) /\ Closer(s, n)
<1>1. n \in StreamState
  BY DEF StreamState, At
<1>4. Life(n)
  BY DEF One, Life, StreamState
<1>5. Tell(n, h)
  BY DEF One, Life, Tell, Sending, StreamState
<1>6. Load(n, h)
  BY DEF One, Life, Load, StreamState
<1>7. Flow(n, h, r)
  BY DEF One, Life, Flow, Ending, StreamState
<1>8. Lasting(s, n)
  BY DEF One, Life, Lasting, StreamState
<1>9. Owned(s, n)
  BY DEF Owned, StreamState
<1>10. Closer(s, n)
  BY DEF Closer, StreamState, NewStream
<1> QED
  BY <1>1, <1>4, <1>5, <1>6, <1>7, <1>8, <1>9, <1>10 DEF Fits, One

LEMMA ClaimKeeps ==
  ASSUME NEW s \in StreamState, NEW h \in HttpState, NEW r \in ReaderState, One(s, h, r),
         s.closing = "tell", ~s.hasSent,
         NEW n, n = [s EXCEPT !.hasSent = TRUE, !.closing = "send"]
  PROVE  Fits(s, n, h, r) /\ Owned(s, n) /\ Closer(s, n)
<1>1. n \in StreamState
  BY DEF StreamState, At
<1>4. Life(n)
  BY DEF One, Life, StreamState
<1>5. Tell(n, h)
  BY DEF One, Life, Tell, Sending, StreamState
<1>6. Load(n, h)
  BY DEF One, Life, Load, StreamState
<1>7. Flow(n, h, r)
  BY DEF One, Life, Flow, Ending, StreamState
<1>8. Lasting(s, n)
  BY DEF One, Life, Lasting, StreamState
<1>9. Owned(s, n)
  BY DEF Owned, StreamState
<1>10. Closer(s, n)
  BY DEF Closer, StreamState, NewStream
<1> QED
  BY <1>1, <1>4, <1>5, <1>6, <1>7, <1>8, <1>9, <1>10 DEF Fits, One

LEMMA PassKeeps ==
  ASSUME NEW s \in StreamState, NEW h \in HttpState, NEW r \in ReaderState, One(s, h, r),
         NEW to,
         \/ s.closing = "tell" /\ s.hasSent /\ to = "helper"
         \/ s.closing = "helper" /\ ~s.captured /\ to = "done"
         \/ s.closing = "reader" /\ to = "done",
         NEW n, n = [s EXCEPT !.closing = to]
  PROVE  Fits(s, n, h, r) /\ Owned(s, n) /\ Closer(s, n)
<1>1. n \in StreamState
  BY DEF StreamState, At
<1>4. Life(n)
  BY DEF One, Life, StreamState
<1>5. Tell(n, h)
  BY DEF One, Life, Tell, Sending, StreamState
<1>6. Load(n, h)
  BY DEF One, Life, Load, StreamState
<1>7. Flow(n, h, r)
  BY DEF One, Life, Flow, Ending, StreamState
<1>8. Lasting(s, n)
  BY DEF One, Life, Lasting, StreamState
<1>9. Owned(s, n)
  BY DEF Owned, StreamState
<1>10. Closer(s, n)
  BY DEF Closer, StreamState, NewStream
<1> QED
  BY <1>1, <1>4, <1>5, <1>6, <1>7, <1>8, <1>9, <1>10 DEF Fits, One

LEMMA SendKeeps ==
  ASSUME NEW s \in StreamState, NEW h \in HttpState, NEW r \in ReaderState, One(s, h, r),
         s.closing = "send",
         NEW n, n = [s EXCEPT !.told = @ + 1, !.closing = "helper"]
  PROVE  Fits(s, n, h, r) /\ Owned(s, n) /\ Closer(s, n)
<1>1. n \in StreamState
  <2>1. s.told + 1 \in Nat
    BY DEF StreamState
  <2> QED
    BY <2>1 DEF StreamState
<1>4. Life(n)
  BY DEF One, Life, StreamState
<1>5. Tell(n, h)
  BY DEF One, Life, Tell, Sending, StreamState
<1>6. Load(n, h)
  BY DEF One, Life, Load, StreamState
<1>7. Flow(n, h, r)
  BY DEF One, Life, Flow, Ending, StreamState
<1>8. Lasting(s, n)
  BY DEF One, Life, Lasting, StreamState
<1>9. Owned(s, n)
  BY DEF Owned, StreamState
<1>10. Closer(s, n)
  BY DEF Closer, StreamState, NewStream
<1> QED
  BY <1>1, <1>4, <1>5, <1>6, <1>7, <1>8, <1>9, <1>10 DEF Fits, One

(* The thread takes a message.                                               *)
LEMMA GetKeeps ==
  ASSUME NEW s \in StreamState, NEW h \in HttpState, NEW r \in ReaderState, One(s, h, r),
         s.at = "get", NEW m \in Message, NEW b \in Seq(Message), NEW to \in At,
         to = "init" \/ (to = "feed" /\ m.type # "open"),
         NEW n, n = [s EXCEPT !.cur = m, !.inbox = b, !.at = to]
  PROVE  Fits(s, n, h, r) /\ Owned(s, n) /\ Closer(s, n)
<1>1. n \in StreamState
  <2>1. CASE to = "init"
    BY <2>1 DEF StreamState, At
  <2>2. CASE to = "feed"
    BY <2>2 DEF StreamState, At
  <2> QED
    BY <2>1, <2>2
<1>4. Life(n)
  BY DEF One, Life, StreamState
<1>5. Tell(n, h)
  BY DEF One, Life, Tell, Sending, StreamState
<1>6. Load(n, h)
  BY DEF One, Life, Load, StreamState
<1>7. Flow(n, h, r)
  BY DEF One, Life, Flow, Ending, StreamState
<1>8. Lasting(s, n)
  BY DEF One, Life, Lasting, StreamState
<1>9. Owned(s, n)
  BY DEF Owned, StreamState
<1>10. Closer(s, n)
  BY DEF Closer, StreamState, NewStream
<1> QED
  BY <1>1, <1>4, <1>5, <1>6, <1>7, <1>8, <1>9, <1>10 DEF Fits, One

LEMMA InitAgain ==
  ASSUME NEW s \in StreamState, NEW h \in HttpState, NEW r \in ReaderState, One(s, h, r),
         s.at = "init", s.opened,
         NEW n, n = [s EXCEPT !.at = "fail"]
  PROVE  Fits(s, n, h, r) /\ Owned(s, n) /\ Closer(s, n)
<1>1. n \in StreamState
  BY DEF StreamState, At
<1>4. Life(n)
  BY DEF One, Life, StreamState
<1>5. Tell(n, h)
  BY DEF One, Life, Tell, Sending, StreamState
<1>6. Load(n, h)
  BY DEF One, Life, Load, StreamState
<1>7. Flow(n, h, r)
  BY DEF One, Life, Flow, Ending, StreamState
<1>8. Lasting(s, n)
  BY DEF One, Life, Lasting, StreamState
<1>9. Owned(s, n)
  BY DEF Owned, StreamState
<1>10. Closer(s, n)
  BY DEF Closer, StreamState, NewStream
<1> QED
  BY <1>1, <1>4, <1>5, <1>6, <1>7, <1>8, <1>9, <1>10 DEF Fits, One

LEMMA InitKeeps ==
  ASSUME NEW s \in StreamState, NEW h \in HttpState, NEW r \in ReaderState, One(s, h, r),
         s.at = "init", ~s.opened, NEW to \in At, to = "make" \/ to = "attach",
         NEW n, n = [s EXCEPT !.opened = TRUE, !.helper = "made", !.at = to]
  PROVE  Fits(s, n, h, r) /\ Owned(s, n) /\ Closer(s, n)
<1>1. n \in StreamState
  BY DEF StreamState, At
<1>4. Life(n)
  BY DEF One, Life, StreamState
<1>5. Tell(n, h)
  BY DEF One, Life, Tell, Sending, StreamState
<1>6. Load(n, h)
  BY DEF One, Life, Load, StreamState
<1>7. Flow(n, h, r)
  BY DEF One, Life, Flow, Ending, StreamState
<1>8. Lasting(s, n)
  BY DEF One, Life, Lasting, StreamState
<1>9. Owned(s, n)
  BY DEF Owned, StreamState
<1>10. Closer(s, n)
  BY DEF Closer, StreamState, NewStream
<1> QED
  BY <1>1, <1>4, <1>5, <1>6, <1>7, <1>8, <1>9, <1>10 DEF Fits, One

LEMMA AttachLate ==
  ASSUME NEW s \in StreamState, NEW h \in HttpState, NEW r \in ReaderState, One(s, h, r),
         s.at = "attach", s.closed,
         NEW n, n = [s EXCEPT !.helper = "taken", !.hclosed = TRUE, !.at = "discard"]
  PROVE  Fits(s, n, h, r) /\ Owned(s, n) /\ Closer(s, n)
<1>1. n \in StreamState
  BY DEF StreamState, At
<1>4. Life(n)
  BY DEF One, Life, StreamState
<1>5. Tell(n, h)
  BY DEF One, Life, Tell, Sending, StreamState
<1>6. Load(n, h)
  BY DEF One, Life, Load, StreamState
<1>7. Flow(n, h, r)
  BY DEF One, Life, Flow, Ending, StreamState
<1>8. Lasting(s, n)
  BY DEF One, Life, Lasting, StreamState
<1>9. Owned(s, n)
  BY DEF Owned, StreamState
<1>10. Closer(s, n)
  BY DEF Closer, StreamState, NewStream
<1> QED
  BY <1>1, <1>4, <1>5, <1>6, <1>7, <1>8, <1>9, <1>10 DEF Fits, One

LEMMA AttachKeeps ==
  ASSUME NEW s \in StreamState, NEW h \in HttpState, NEW r \in ReaderState, One(s, h, r),
         s.at = "attach", ~s.closed,
         NEW n, n = [s EXCEPT !.helper = "set", !.at = "feed"]
  PROVE  Fits(s, n, h, r) /\ Owned(s, n) /\ Closer(s, n)
<1>1. n \in StreamState
  BY DEF StreamState, At
<1>4. Life(n)
  BY DEF One, Life, StreamState
<1>5. Tell(n, h)
  BY DEF One, Life, Tell, Sending, StreamState
<1>6. Load(n, h)
  BY DEF One, Life, Load, StreamState
<1>7. Flow(n, h, r)
  BY DEF One, Life, Flow, Ending, StreamState
<1>8. Lasting(s, n)
  BY DEF One, Life, Lasting, StreamState
<1>9. Owned(s, n)
  BY DEF Owned, StreamState
<1>10. Closer(s, n)
  BY DEF Closer, StreamState, NewStream
<1> QED
  BY <1>1, <1>4, <1>5, <1>6, <1>7, <1>8, <1>9, <1>10 DEF Fits, One

(* A piece of the upload.                                                    *)
LEMMA UploadKeeps ==
  ASSUME NEW s \in StreamState, NEW h \in HttpState, NEW r \in ReaderState, One(s, h, r),
         s.at = "upload", NEW k \in Nat, NEW u \in Nat, NEW b \in Nat, NEW to \in {"trim", "get", "finish"},
         k = h.known \/ s.cur.type = "open",
         u = 0 \/ b # 0,
         k # 0 /\ b # 0 => b = k,
         NEW n, n = [s EXCEPT !.at = to],
         NEW g, g = [h EXCEPT !.known = k, !.got = u, !.room = b]
  PROVE  Fits(s, n, g, r) /\ Owned(s, n) /\ Closer(s, n)
<1>1. n \in StreamState
  BY DEF StreamState, At
<1>2. g \in HttpState
  BY DEF HttpState
<1>4. Life(n)
  BY DEF One, Life, StreamState
<1>5. Tell(n, g)
  BY DEF One, Life, Tell, Sending, StreamState, HttpState
<1>6. Load(n, g)
  BY DEF One, Life, Load, StreamState, HttpState
<1>7. Flow(n, g, r)
  BY DEF One, Life, Flow, Ending, StreamState, HttpState
<1>8. Lasting(s, n)
  BY DEF One, Life, Lasting, StreamState
<1>9. Owned(s, n)
  BY DEF Owned, StreamState
<1>10. Closer(s, n)
  BY DEF Closer, StreamState, NewStream
<1> QED
  BY <1>1, <1>2, <1>4, <1>5, <1>6, <1>7, <1>8, <1>9, <1>10 DEF Fits, One

LEMMA TrimKeeps ==
  ASSUME NEW s \in StreamState, NEW h \in HttpState, NEW r \in ReaderState, One(s, h, r),
         s.at = "trim", NEW b \in Nat, b = IF h.known = 0 THEN h.got ELSE h.room,
         NEW to \in {"fail", "execute"}, h.known \notin {0, h.got} <=> to = "fail",
         NEW n, n = [s EXCEPT !.at = to],
         NEW g, g = [h EXCEPT !.room = b]
  PROVE  Fits(s, n, g, r) /\ Owned(s, n) /\ Closer(s, n)
<1>1. n \in StreamState
  BY DEF StreamState, At
<1>2. g \in HttpState
  BY DEF HttpState
<1>4. Life(n)
  BY DEF One, Life, StreamState
<1>5. Tell(n, g)
  BY DEF One, Life, Tell, Sending, StreamState, HttpState
<1>6. Load(n, g)
  BY DEF One, Life, Load, StreamState, HttpState
<1>7. Flow(n, g, r)
  BY DEF One, Life, Flow, Ending, StreamState, HttpState
<1>8. Lasting(s, n)
  BY DEF One, Life, Lasting, StreamState
<1>9. Owned(s, n)
  BY DEF Owned, StreamState
<1>10. Closer(s, n)
  BY DEF Closer, StreamState, NewStream
<1> QED
  BY <1>1, <1>2, <1>4, <1>5, <1>6, <1>7, <1>8, <1>9, <1>10 DEF Fits, One

(* The answer.                                                               *)
LEMMA ExecuteKeeps ==
  ASSUME NEW s \in StreamState, NEW h \in HttpState, NEW r \in ReaderState, One(s, h, r),
         s.at = "execute", NEW how \in Answers \union {"full"}, NEW l \in Nat \union {NoLength},
         how = "full" => l \in Nat, how = "stream" => l = NoLength,
         NEW n, n = [s EXCEPT !.at = "body"],
         NEW g, g = [h EXCEPT !.how = how, !.length = l]
  PROVE  Fits(s, n, g, r) /\ Owned(s, n) /\ Closer(s, n)
<1>1. n \in StreamState
  BY DEF StreamState, At
<1>2. g \in HttpState
  BY DEF HttpState
<1>4. Life(n)
  BY DEF One, Life, StreamState
<1>5. Tell(n, g)
  BY DEF One, Life, Tell, Sending, StreamState, HttpState
<1>6. Load(n, g)
  BY DEF One, Life, Load, StreamState, HttpState
<1>7. Flow(n, g, r)
  BY ProxyAssumption DEF One, Life, Flow, Ending, StreamState, HttpState
<1>8. Lasting(s, n)
  BY DEF One, Life, Lasting, StreamState
<1>9. Owned(s, n)
  BY DEF Owned, StreamState
<1>10. Closer(s, n)
  BY DEF Closer, StreamState, NewStream
<1> QED
  BY <1>1, <1>2, <1>4, <1>5, <1>6, <1>7, <1>8, <1>9, <1>10 DEF Fits, One

LEMMA ExecuteFails ==
  ASSUME NEW s \in StreamState, NEW h \in HttpState, NEW r \in ReaderState, One(s, h, r),
         s.at = "execute",
         NEW n, n = [s EXCEPT !.failed = TRUE, !.at = "finish"]
  PROVE  Fits(s, n, h, r) /\ Owned(s, n) /\ Closer(s, n)
<1>1. n \in StreamState
  BY DEF StreamState, At
<1>4. Life(n)
  BY DEF One, Life, StreamState
<1>5. Tell(n, h)
  BY DEF One, Life, Tell, Sending, StreamState
<1>6. Load(n, h)
  BY DEF One, Life, Load, StreamState
<1>7. Flow(n, h, r)
  BY DEF One, Life, Flow, Ending, StreamState
<1>8. Lasting(s, n)
  BY DEF One, Life, Lasting, StreamState
<1>9. Owned(s, n)
  BY DEF Owned, StreamState
<1>10. Closer(s, n)
  BY DEF Closer, StreamState, NewStream
<1> QED
  BY <1>1, <1>4, <1>5, <1>6, <1>7, <1>8, <1>9, <1>10 DEF Fits, One

LEMMA FailedKeeps ==
  ASSUME NEW s \in StreamState, NEW h \in HttpState, NEW r \in ReaderState, One(s, h, r),
         NEW n, n = [s EXCEPT !.failed = TRUE]
  PROVE  Fits(s, n, h, r) /\ Owned(s, n) /\ Closer(s, n)
<1>1. n \in StreamState
  BY DEF StreamState, At
<1>4. Life(n)
  BY DEF One, Life, StreamState
<1>5. Tell(n, h)
  BY DEF One, Life, Tell, Sending, StreamState
<1>6. Load(n, h)
  BY DEF One, Life, Load, StreamState
<1>7. Flow(n, h, r)
  BY DEF One, Life, Flow, Ending, StreamState
<1>8. Lasting(s, n)
  BY DEF One, Life, Lasting, StreamState
<1>9. Owned(s, n)
  BY DEF Owned, StreamState
<1>10. Closer(s, n)
  BY DEF Closer, StreamState, NewStream
<1> QED
  BY <1>1, <1>4, <1>5, <1>6, <1>7, <1>8, <1>9, <1>10 DEF Fits, One

(* A read that returns, reading on how and the last one when l.              *)
MayRead(s, h, how, l) ==
    /\ s.at = "body" /\ ~h.last /\ h.how \notin {"none", "stream"}
    /\ h.how = "full" => l /\ how = "full"
    /\ h.how # "full" => how # "full"
    /\ how = "stream" => h.length = NoLength

(* ... and what it makes of the request: k units, w torn, d read in all.     *)
Having(h, k, w, how, d, l) ==
    [h EXCEPT !.made = @ + k, !.torn = w, !.how = how, !.piece = Units(h.made, k), !.read = d, !.last = l]

(* A read returns what the local server made.                                *)
LEMMA PieceKeeps ==
  ASSUME NEW s \in StreamState, NEW h \in HttpState, NEW r \in ReaderState, One(s, h, r),
         NEW k \in Nat, NEW d \in Nat, NEW w \in Nat,
         NEW how \in Answers \union {"full", "stream", "plain"}, NEW l \in BOOLEAN,
         MayRead(s, h, how, l),
         NEW n, n = [s EXCEPT !.at = "post"],
         NEW g, g = Having(h, k, w, how, d, l)
  PROVE  Fits(s, n, g, r) /\ Owned(s, n) /\ Closer(s, n)
<1> USE DEF MayRead, Having
<1>1. n \in StreamState
  BY DEF StreamState, At
<1>2. g \in HttpState
  <2>1. Units(h.made, k) \in Body
    BY UnitsType DEF HttpState
  <2>2. h.made + k \in Nat /\ how \in Answers \cup {"none", "full", "stream", "plain"}
    BY DEF HttpState
  <2> QED
    BY <2>1, <2>2 DEF HttpState
<1>4. Life(n)
  BY DEF One, Life, StreamState
<1>5. Tell(n, g)
  BY DEF One, Life, Tell, Sending, StreamState, HttpState
<1>6. Load(n, g)
  BY DEF One, Life, Load, StreamState, HttpState
<1>7. Flow(n, g, r)
  <2>1. /\ r.acc = <<>> /\ r.list = <<>> /\ h.piece = <<>> /\ r.at = "none"
        /\ h.made \in Nat /\ h.sent \in Body
    BY DEF One, Flow, Ending, HttpState
  <2>2. FlattenSeq(r.acc \o r.list) = <<>> /\ Len(FlattenSeq(r.acc)) <= MaxReturn
    <3>1. <<>> \o <<>> = <<>>
      BY EmptyBody, ConcatEmptySeq
    <3> QED
      BY <2>1, <3>1, FlatEmpty DEF One, Flow, Ending
  <2>3. ~h.dropped => h.sent = Units(0, h.made)
    <3>1. h.sent \o <<>> = h.sent
      BY <2>1, ConcatEmptySeq DEF Body
    <3> QED
      BY <2>1, <2>2, <3>1 DEF One, Flow, Ending
  <2>4. ~h.dropped => h.sent \o Units(h.made, k) \o <<>> = Units(0, h.made + k)
    <3>1. Units(0, h.made + k) \o <<>> = Units(0, h.made + k)
      BY <2>1, UnitsType, ConcatEmptySeq DEF Body
    <3> QED
      BY <2>1, <2>3, <3>1, UnitsMore
  <2>5. g.made = h.made + k /\ g.piece = Units(h.made, k) /\ g.sent = h.sent /\ g.dropped = h.dropped
        /\ g.how = how /\ g.length = h.length /\ g.last = l
    BY DEF HttpState
  <2>6. n.at = "post" /\ n.closed = s.closed
    BY DEF StreamState
  <2>7. (h.how = "full" => h.length \in Nat) /\ (h.dropped => s.closed) /\ ~r.closed
    BY <2>1 DEF One, Flow, Ending
  <2>8. Ending(n, g, r)
    <3>1. \A i \in DOMAIN r.list : Len(r.list[i]) <= MaxReturn
      BY DEF One, Flow, Ending
    <3> QED
      BY <2>1, <2>5, <2>6, <2>7, <3>1 DEF Ending
  <2> QED
    BY <2>1, <2>2, <2>4, <2>5, <2>6, <2>7, <2>8, EmptyBody, ProxyAssumption DEF Flow
<1>8. Lasting(s, n)
  BY DEF One, Life, Lasting, StreamState
<1>9. Owned(s, n)
  BY DEF Owned, StreamState
<1>10. Closer(s, n)
  BY DEF Closer, StreamState, NewStream
<1> QED
  BY <1>1, <1>2, <1>4, <1>5, <1>6, <1>7, <1>8, <1>9, <1>10 DEF Fits, One

(* A piece is refused, claimed as the last message or just sent.             *)
LEMMA PushRefused ==
  ASSUME NEW s \in StreamState, NEW h \in HttpState, NEW r \in ReaderState, One(s, h, r),
         s.at = "push", s.closed,
         NEW n, n = [s EXCEPT !.at = "body"],
         NEW g, g = [h EXCEPT !.dropped = TRUE, !.piece = <<>>]
  PROVE  Fits(s, n, g, r) /\ Owned(s, n) /\ Closer(s, n)
<1>1. n \in StreamState
  BY DEF StreamState, At
<1>2. g \in HttpState
  BY EmptyBody DEF HttpState
<1>4. Life(n)
  BY DEF One, Life, StreamState
<1>5. Tell(n, g)
  BY DEF One, Life, Tell, Sending, StreamState, HttpState
<1>6. Load(n, g)
  BY DEF One, Life, Load, StreamState, HttpState
<1>7. Flow(n, g, r)
  <2>1. n.at = "body" /\ n.closed = s.closed
    BY DEF StreamState
  <2>2. /\ g.how = h.how /\ g.made = h.made /\ g.sent = h.sent /\ g.dropped /\ g.piece = <<>>
        /\ g.length = h.length /\ g.last = h.last
    BY DEF HttpState
  <2>3. h.how # "none"
    BY DEF One, Flow, Ending, Life
  <2> QED
    BY <2>1, <2>2, <2>3 DEF One, Flow, Ending
<1>8. Lasting(s, n)
  BY DEF One, Life, Lasting, StreamState
<1>9. Owned(s, n)
  BY DEF Owned, StreamState
<1>10. Closer(s, n)
  BY DEF Closer, StreamState, NewStream
<1> QED
  BY <1>1, <1>2, <1>4, <1>5, <1>6, <1>7, <1>8, <1>9, <1>10 DEF Fits, One

LEMMA PushLast ==
  ASSUME NEW s \in StreamState, NEW h \in HttpState, NEW r \in ReaderState, One(s, h, r),
         s.at = "push", h.last, ~(s.closed /\ s.hasSent),
         NEW n, n = [s EXCEPT !.at = "send", !.hasSent = TRUE]
  PROVE  Fits(s, n, h, r) /\ Owned(s, n) /\ Closer(s, n)
<1>1. n \in StreamState
  BY DEF StreamState, At
<1>4. Life(n)
  BY DEF One, Life, StreamState
<1>5. Tell(n, h)
  BY DEF One, Life, Tell, Sending, StreamState
<1>6. Load(n, h)
  BY DEF One, Life, Load, StreamState
<1>7. Flow(n, h, r)
  BY DEF One, Life, Flow, Ending, StreamState
<1>8. Lasting(s, n)
  BY DEF One, Life, Lasting, StreamState
<1>9. Owned(s, n)
  BY DEF Owned, StreamState
<1>10. Closer(s, n)
  BY DEF Closer, StreamState, NewStream
<1> QED
  BY <1>1, <1>4, <1>5, <1>6, <1>7, <1>8, <1>9, <1>10 DEF Fits, One

LEMMA PushMore ==
  ASSUME NEW s \in StreamState, NEW h \in HttpState, NEW r \in ReaderState, One(s, h, r),
         s.at = "push", ~h.last, ~s.closed,
         NEW n, n = [s EXCEPT !.at = "send"]
  PROVE  Fits(s, n, h, r) /\ Owned(s, n) /\ Closer(s, n)
<1>1. n \in StreamState
  BY DEF StreamState, At
<1>4. Life(n)
  BY DEF One, Life, StreamState
<1>5. Tell(n, h)
  BY DEF One, Life, Tell, Sending, StreamState
<1>6. Load(n, h)
  BY DEF One, Life, Load, StreamState
<1>7. Flow(n, h, r)
  BY DEF One, Life, Flow, Ending, StreamState
<1>8. Lasting(s, n)
  BY DEF One, Life, Lasting, StreamState
<1>9. Owned(s, n)
  BY DEF Owned, StreamState
<1>10. Closer(s, n)
  BY DEF Closer, StreamState, NewStream
<1> QED
  BY <1>1, <1>4, <1>5, <1>6, <1>7, <1>8, <1>9, <1>10 DEF Fits, One

LEMMA SendPiece ==
  ASSUME NEW s \in StreamState, NEW h \in HttpState, NEW r \in ReaderState, One(s, h, r),
         s.at = "send", NEW k \in Nat, k = IF h.last THEN s.told + 1 ELSE s.told,
         NEW n, n = [s EXCEPT !.at = "body", !.told = k],
         NEW g, g = [h EXCEPT !.sent = @ \o h.piece, !.piece = <<>>]
  PROVE  Fits(s, n, g, r) /\ Owned(s, n) /\ Closer(s, n)
<1>1. n \in StreamState
  <2>1. "body" \in At
    BY DEF At
  <2> QED
    BY <2>1 DEF StreamState
<1>2. g \in HttpState
  <2>1. h.sent \in Body /\ h.piece \in Body
    BY DEF HttpState
  <2>2. h.sent \o h.piece \in Body
    BY <2>1, ConcatProperties DEF Body
  <2> QED
    BY <2>2, EmptyBody DEF HttpState
<1>4. Life(n)
  BY DEF One, Life, StreamState
<1>5. Tell(n, g)
  BY DEF One, Life, Tell, Sending, StreamState, HttpState
<1>6. Load(n, g)
  BY DEF One, Life, Load, StreamState, HttpState
<1>7. Flow(n, g, r)
  <2>1. n.at = "body" /\ n.closed = s.closed
    BY DEF StreamState
  <2>2. /\ g.how = h.how /\ g.made = h.made /\ g.sent = h.sent \o h.piece /\ g.dropped = h.dropped
        /\ g.piece = <<>> /\ g.length = h.length /\ g.last = h.last
    BY DEF HttpState
  <2>3. h.how # "none" /\ r.acc = <<>>
    BY DEF One, Flow, Ending, Life
  <2>4. (h.sent \o h.piece) \o <<>> = h.sent \o h.piece
    <3>1. h.sent \in Body /\ h.piece \in Body
      BY DEF HttpState
    <3> QED
      BY <3>1, ConcatProperties, ConcatEmptySeq DEF Body
  <2> QED
    BY <2>1, <2>2, <2>3, <2>4 DEF One, Flow, Ending
<1>8. Lasting(s, n)
  BY DEF One, Life, Lasting, StreamState
<1>9. Owned(s, n)
  BY DEF Owned, StreamState
<1>10. Closer(s, n)
  BY DEF Closer, StreamState, NewStream
<1> QED
  BY <1>1, <1>2, <1>4, <1>5, <1>6, <1>7, <1>8, <1>9, <1>10 DEF Fits, One

(* The helper is shut by the closer, or by the thread of the stream.         *)
LEMMA ShutKeeps ==
  ASSUME NEW s \in StreamState, NEW h \in HttpState, NEW r \in ReaderState, One(s, h, r),
         NEW to, s.closing = "helper", s.captured, to = "reader" \/ to = "done",
         NEW n, n = [s EXCEPT !.shut = TRUE, !.closing = to]
  PROVE  Fits(s, n, h, r) /\ Owned(s, n) /\ Closer(s, n)
<1>1. n \in StreamState
  BY DEF StreamState, At
<1>4. Life(n)
  BY DEF One, Life, StreamState
<1>5. Tell(n, h)
  BY DEF One, Life, Tell, Sending, StreamState
<1>6. Load(n, h)
  BY DEF One, Life, Load, StreamState
<1>7. Flow(n, h, r)
  BY DEF One, Life, Flow, Ending, StreamState
<1>8. Lasting(s, n)
  BY DEF One, Life, Lasting, StreamState
<1>9. Owned(s, n)
  BY DEF Owned, StreamState
<1>10. Closer(s, n)
  BY DEF Closer, StreamState, NewStream
<1> QED
  BY <1>1, <1>4, <1>5, <1>6, <1>7, <1>8, <1>9, <1>10 DEF Fits, One

LEMMA DiscardKeeps ==
  ASSUME NEW s \in StreamState, NEW h \in HttpState, NEW r \in ReaderState, One(s, h, r),
         s.at = "discard",
         NEW n, n = [s EXCEPT !.shut = TRUE, !.at = "feed"]
  PROVE  Fits(s, n, h, r) /\ Owned(s, n) /\ Closer(s, n)
<1>1. n \in StreamState
  BY DEF StreamState, At
<1>4. Life(n)
  BY DEF One, Life, StreamState
<1>5. Tell(n, h)
  BY DEF One, Life, Tell, Sending, StreamState
<1>6. Load(n, h)
  BY DEF One, Life, Load, StreamState
<1>7. Flow(n, h, r)
  BY DEF One, Life, Flow, Ending, StreamState
<1>8. Lasting(s, n)
  BY DEF One, Life, Lasting, StreamState
<1>9. Owned(s, n)
  BY DEF Owned, StreamState
<1>10. Closer(s, n)
  BY DEF Closer, StreamState, NewStream
<1> QED
  BY <1>1, <1>4, <1>5, <1>6, <1>7, <1>8, <1>9, <1>10 DEF Fits, One

(* A read of a body of unknown length begins.                                *)
LEMMA ReadStreamKeeps ==
  ASSUME NEW s \in StreamState, NEW h \in HttpState, NEW r \in ReaderState, One(s, h, r),
         s.at = "body", ~h.last, h.how = "stream", NEW a \in {"top", r.at},
         NEW n, n = [s EXCEPT !.at = "look"],
         NEW q, q = [r EXCEPT !.at = a, !.acc = <<>>, !.must = FALSE, !.first = TRUE]
  PROVE  Fits(s, n, h, q) /\ Owned(s, n) /\ Closer(s, n)
<1>1. n \in StreamState
  BY DEF StreamState, At
<1>3. q \in ReaderState
  <2>1. a \in {"none", "top", "reading", "held", "final", "done"}
    BY DEF ReaderState
  <2> QED
    BY <2>1, EmptyBody DEF ReaderState
<1>4. Life(n)
  BY DEF One, Life, StreamState
<1>5. Tell(n, h)
  BY DEF One, Life, Tell, Sending, StreamState
<1>6. Load(n, h)
  BY DEF One, Life, Load, StreamState
<1>7. Flow(n, h, q)
  <2>1. n.at = "look" /\ n.closed = s.closed
    BY DEF StreamState
  <2>2. q.acc = <<>> /\ q.list = r.list /\ r.acc = <<>> /\ q.late = r.late /\ q.closed = r.closed
    BY DEF ReaderState, One, Flow, Ending
  <2>3. q.list = r.list /\ q.at = a
    BY DEF ReaderState
  <2>4. Ending(n, h, q)
    BY <2>1, <2>2, <2>3 DEF One, Flow, Ending
  <2>5. Len(FlattenSeq(q.acc)) <= MaxReturn /\ q.acc \o q.list = r.acc \o r.list
    BY <2>2 DEF One, Flow
  <2> QED
    BY <2>1, <2>2, <2>4, <2>5 DEF One, Flow
<1>8. Lasting(s, n)
  BY DEF One, Life, Lasting, StreamState
<1>9. Owned(s, n)
  BY DEF Owned, StreamState
<1>10. Closer(s, n)
  BY DEF Closer, StreamState, NewStream
<1> QED
  BY <1>1, <1>3, <1>4, <1>5, <1>6, <1>7, <1>8, <1>9, <1>10 DEF Fits, One

(* The thread of the reader goes on, or is told to stop.                     *)
LEMMA ReaderKeeps ==
  ASSUME NEW s \in StreamState, NEW h \in HttpState, NEW r \in ReaderState, One(s, h, r),
         r.at # "none", NEW q \in ReaderState, q.at # "none", q.acc = r.acc, q.list = r.list,
         q.late = r.late, q.closed => r.closed \/ s.closed
  PROVE  Fits(s, s, h, q)
<1>1. Flow(s, h, q)
  BY DEF One, Flow, Ending
<1>2. Lasting(s, s)
  BY DEF Lasting
<1> QED
  BY <1>1, <1>2 DEF Fits, One

(* A chunk is appended to the reader's list.                                 *)
LEMMA ChunkKeeps ==
  ASSUME NEW s \in StreamState, NEW h \in HttpState, NEW r \in ReaderState, One(s, h, r),
         r.at = "reading", NEW k \in 0..MaxReturn, NEW a \in {"top", "held"},
         NEW g, g = [h EXCEPT !.made = @ + k],
         NEW q, q = [r EXCEPT !.list = Append(@, Units(h.made, k)), !.ready = TRUE, !.late = TRUE, !.at = a]
  PROVE  Fits(s, s, g, q)
<1>1. k \in Nat
  BY ProxyAssumption
<1>2. g \in HttpState
  <2>1. h.made + k \in Nat
    BY <1>1 DEF HttpState
  <2> QED
    BY <2>1 DEF HttpState
<1>3. q \in ReaderState
  <2>1. Append(r.list, Units(h.made, k)) \in Seq(Body)
    <3>1. r.list \in Seq(Body) /\ Units(h.made, k) \in Body
      BY <1>1, UnitsType DEF ReaderState, HttpState
    <3> QED
      BY <3>1, AppendProperties
  <2> QED
    BY <2>1 DEF ReaderState
<1>5. Tell(s, g)
  BY DEF One, Life, Tell, Sending, HttpState
<1>6. Load(s, g)
  BY DEF One, Life, Load, HttpState
<1>7. Flow(s, g, q)
  <2> DEFINE u == Units(h.made, k)
             all == FlattenSeq(r.acc \o r.list)
  <2>1. /\ r.acc \in Seq(Body) /\ r.list \in Seq(Body) /\ u \in Body /\ h.made \in Nat
        /\ h.sent \in Body /\ h.piece \in Body
    BY <1>1, UnitsType DEF ReaderState, HttpState
  <2>2. /\ g.made = h.made + k /\ g.sent = h.sent /\ g.dropped = h.dropped /\ g.piece = h.piece
        /\ g.how = h.how /\ g.length = h.length /\ g.last = h.last
        /\ q.acc = r.acc /\ q.list = Append(r.list, u) /\ q.at = a /\ q.late /\ q.closed = r.closed
    BY DEF HttpState, ReaderState
  <2>3. h.how = "stream"
    BY DEF One, Flow, Ending
  <2>4. r.acc \o Append(r.list, u) = Append(r.acc \o r.list, u)
    <3>1. <<u>> \in Seq(Body) /\ r.acc \o r.list \in Seq(Body)
      BY <2>1, ConcatProperties
    <3>2. (r.acc \o r.list) \o <<u>> = r.acc \o (r.list \o <<u>>)
      BY <2>1, <3>1, ListAssoc
    <3>3. Append(r.acc \o r.list, u) = (r.acc \o r.list) \o <<u>> /\ Append(r.list, u) = r.list \o <<u>>
      BY <2>1, <3>1, AppendIsConcat
    <3> QED
      BY <3>2, <3>3
  <2>5. r.acc \o r.list \in Seq(Body) /\ all \in Body
    BY <2>1, ConcatProperties, FlatType
  <2>6. FlattenSeq(r.acc \o Append(r.list, u)) = all \o u
    BY <2>1, <2>4, <2>5, FlatAppend
  <2>7. (h.sent \o h.piece) \o (all \o u) = ((h.sent \o h.piece) \o all) \o u
    <3>1. h.sent \o h.piece \in Body
      BY <2>1, ConcatProperties DEF Body
    <3> HIDE DEF u, all
    <3> QED
      BY <2>1, <2>5, <3>1, BodyAssoc
  <2>8. ~h.dropped => (h.sent \o h.piece) \o all = Units(0, h.made)
    BY DEF One, Flow, Ending
  <2>9. ~h.dropped => h.sent \o h.piece \o FlattenSeq(q.acc \o q.list) = Units(0, g.made)
    BY <1>1, <2>1, <2>2, <2>6, <2>7, <2>8, UnitsMore
  <2>10. \A i \in DOMAIN q.list : Len(q.list[i]) <= MaxReturn
    <3>1. Len(u) <= MaxReturn
      BY <1>1, <2>1, UnitsType
    <3>2. \A i \in DOMAIN r.list : Len(r.list[i]) <= MaxReturn
      BY DEF One, Flow, Ending
    <3> HIDE DEF u
    <3> QED
      BY <2>1, <2>2, <3>1, <3>2
  <2> HIDE DEF u, all
  <2>11. Ending(s, g, q)
    BY <2>2, <2>10 DEF One, Flow, Ending
  <2> QED
    BY <2>2, <2>3, <2>9, <2>11 DEF One, Flow
<1>8. Lasting(s, s)
  BY DEF One, Life, Lasting, StreamState
<1> QED
  BY <1>2, <1>3, <1>5, <1>6, <1>7, <1>8 DEF Fits, One

(* A read looks and there is nothing, or the reader is closed.               *)
LEMMA NothingKeeps ==
  ASSUME NEW s \in StreamState, NEW h \in HttpState, NEW r \in ReaderState, One(s, h, r),
         s.at = "look", r.closed \/ r.list = <<>>,
         NEW n, n = [s EXCEPT !.at = "decide"],
         NEW q, q = [r EXCEPT !.late = FALSE]
  PROVE  Fits(s, n, h, q) /\ Owned(s, n) /\ Closer(s, n)
<1>1. n \in StreamState
  BY DEF StreamState, At
<1>3. q \in ReaderState
  BY DEF ReaderState
<1>4. Life(n)
  BY DEF One, Life, StreamState
<1>5. Tell(n, h)
  BY DEF One, Life, Tell, Sending, StreamState
<1>6. Load(n, h)
  BY DEF One, Life, Load, StreamState
<1>7. Flow(n, h, q)
  <2>1. /\ q.acc = r.acc /\ q.list = r.list /\ q.at = r.at /\ q.closed = r.closed
        /\ n.at = "decide" /\ n.closed = s.closed
    BY DEF ReaderState, StreamState
  <2>2. ~h.last
    BY DEF One, Tell
  <2>3. Ending(n, h, q)
    BY <2>1, <2>2 DEF One, Flow, Ending
  <2> QED
    BY <2>1, <2>3 DEF One, Flow
<1>8. Lasting(s, n)
  BY DEF One, Life, Lasting, StreamState
<1>9. Owned(s, n)
  BY DEF Owned, StreamState
<1>10. Closer(s, n)
  BY DEF Closer, StreamState, NewStream
<1> QED
  BY <1>1, <1>3, <1>4, <1>5, <1>6, <1>7, <1>8, <1>9, <1>10 DEF Fits, One

(* A read takes the chunks that fit.                                         *)
LEMMA TakeKeeps ==
  ASSUME NEW s \in StreamState, NEW h \in HttpState, NEW r \in ReaderState, One(s, h, r),
         s.at = "look", NEW k \in 0..Len(r.list), NEW b \in BOOLEAN,
         Len(FlattenSeq(r.acc \o SubSeq(r.list, 1, k))) <= MaxReturn, k # 0 \/ r.acc # <<>>,
         NEW n, n = [s EXCEPT !.at = "decide"],
         NEW q, q = [r EXCEPT !.acc = @ \o SubSeq(r.list, 1, k),
                         !.list = SubSeq(r.list, k + 1, Len(r.list)), !.must = b, !.ready = FALSE,
                         !.late = FALSE]
  PROVE  Fits(s, n, h, q) /\ Owned(s, n) /\ Closer(s, n)
<1>1. n \in StreamState
  BY DEF StreamState, At
<1>3. q \in ReaderState
  <2>1. r.acc \in Seq(Body) /\ r.list \in Seq(Body)
    BY DEF ReaderState
  <2>2. SubSeq(r.list, 1, k) \in Seq(Body) /\ SubSeq(r.list, k + 1, Len(r.list)) \in Seq(Body)
    BY <2>1, Parts
  <2>3. r.acc \o SubSeq(r.list, 1, k) \in Seq(Body)
    BY <2>1, <2>2, ConcatProperties
  <2> QED
    BY <2>2, <2>3 DEF ReaderState
<1>4. Life(n)
  BY DEF One, Life, StreamState
<1>5. Tell(n, h)
  BY DEF One, Life, Tell, Sending, StreamState
<1>6. Load(n, h)
  BY DEF One, Life, Load, StreamState
<1>7. Flow(n, h, q)
  <2> DEFINE a == SubSeq(r.list, 1, k)
             b1 == SubSeq(r.list, k + 1, Len(r.list))
  <2>1. r.acc \in Seq(Body) /\ r.list \in Seq(Body)
    BY DEF ReaderState
  <2>2. a \in Seq(Body) /\ b1 \in Seq(Body) /\ a \o b1 = r.list
    BY <2>1, Parts
  <2>3. /\ q.acc = r.acc \o a /\ q.list = b1 /\ q.at = r.at /\ q.closed = r.closed
        /\ n.at = "decide" /\ n.closed = s.closed
    BY DEF ReaderState, StreamState
  <2>7. q.acc # <<>>
    <3>1. Len(r.acc \o a) = Len(r.acc) + k
      BY <2>1
    <3>2. r.acc # <<>> => Len(r.acc) # 0
      BY <2>1
    <3>3. Len(r.acc) \in Nat /\ Len(<<>>) = 0
      BY <2>1
    <3> HIDE DEF a
    <3> QED
      BY <2>3, <3>1, <3>2, <3>3
  <2>8. \A i \in DOMAIN b1 : Len(b1[i]) <= MaxReturn
    <3>1. \A i \in DOMAIN b1 : i + k \in DOMAIN r.list /\ b1[i] = r.list[i + k]
      <4>1. Len(r.list) \in Nat /\ DOMAIN r.list = 1..Len(r.list)
        BY <2>1
      <4>2. /\ DOMAIN b1 = 1..(Len(r.list) - k)
            /\ \A i \in 1..(Len(r.list) - k) : b1[i] = r.list[i + k]
        BY <4>1
      <4> HIDE DEF b1
      <4> QED
        BY <4>1, <4>2
    <3>2. \A i \in DOMAIN r.list : Len(r.list[i]) <= MaxReturn
      BY DEF One, Flow, Ending
    <3> HIDE DEF b1
    <3> QED
      BY <3>1, <3>2
  <2> HIDE DEF a, b1
  <2>4. q.acc \o q.list = r.acc \o r.list
    <3>1. (r.acc \o a) \o b1 = r.acc \o (a \o b1)
      BY <2>1, <2>2, ListAssoc
    <3> QED
      BY <2>2, <2>3, <3>1
  <2>5. h.how = "stream"
    BY DEF One, Flow, Ending
  <2>6. Len(FlattenSeq(q.acc)) <= MaxReturn
    BY <2>3 DEF a
  <2>9. ~h.last
    BY DEF One, Tell
  <2>10. Ending(n, h, q)
    BY <2>3, <2>7, <2>8, <2>9 DEF One, Flow, Ending
  <2> QED
    BY <2>3, <2>4, <2>5, <2>6, <2>10 DEF One, Flow
<1>8. Lasting(s, n)
  BY DEF One, Life, Lasting, StreamState
<1>9. Owned(s, n)
  BY DEF Owned, StreamState
<1>10. Closer(s, n)
  BY DEF Closer, StreamState, NewStream
<1> QED
  BY <1>1, <1>3, <1>4, <1>5, <1>6, <1>7, <1>8, <1>9, <1>10 DEF Fits, One

(* A read returns what it took, or goes on.                                  *)
LEMMA ReturnKeeps ==
  ASSUME NEW s \in StreamState, NEW h \in HttpState, NEW r \in ReaderState, One(s, h, r),
         s.at = "decide", NEW k \in Nat, NEW b \in BOOLEAN, b => r.acc = <<>>,
         NEW n, n = [s EXCEPT !.at = "post"],
         NEW g, g = [h EXCEPT !.piece = FlattenSeq(r.acc), !.read = k, !.last = b],
         NEW q, q = [r EXCEPT !.acc = <<>>]
  PROVE  Fits(s, n, g, q) /\ Owned(s, n) /\ Closer(s, n)
<1>1. n \in StreamState
  BY DEF StreamState, At
<1>2. g \in HttpState
  <2>1. FlattenSeq(r.acc) \in Body
    BY FlatType DEF ReaderState
  <2> QED
    BY <2>1 DEF HttpState
<1>3. q \in ReaderState
  BY EmptyBody DEF ReaderState
<1>4. Life(n)
  BY DEF One, Life, StreamState
<1>5. Tell(n, g)
  BY DEF One, Life, Tell, Sending, StreamState, HttpState
<1>6. Load(n, g)
  BY DEF One, Life, Load, StreamState, HttpState
<1>7. Flow(n, g, q)
  <2>1. /\ r.acc \in Seq(Body) /\ r.list \in Seq(Body) /\ h.sent \in Body
    BY DEF ReaderState, HttpState
  <2>2. /\ g.made = h.made /\ g.sent = h.sent /\ g.dropped = h.dropped /\ g.piece = FlattenSeq(r.acc)
        /\ g.how = h.how /\ g.length = h.length
        /\ q.acc = <<>> /\ q.list = r.list /\ q.at = r.at /\ n.at = "post" /\ n.closed = s.closed
        /\ g.last = b /\ q.late = r.late /\ q.closed = r.closed
    BY DEF HttpState, ReaderState, StreamState
  <2>3. h.how = "stream" /\ h.piece = <<>>
    BY DEF One, Flow, Ending
  <2>4. FlattenSeq(r.acc \o r.list) = FlattenSeq(r.acc) \o FlattenSeq(<<>> \o r.list)
    <3>1. <<>> \o r.list = r.list
      BY <2>1, ConcatEmptySeq
    <3> QED
      BY <2>1, <3>1, FlatConcat
  <2>5. FlattenSeq(r.acc) \in Body /\ FlattenSeq(<<>> \o r.list) \in Body
    <3>1. <<>> \o r.list \in Seq(Body)
      BY <2>1, EmptyBody, ConcatProperties
    <3> QED
      BY <2>1, <3>1, FlatType
  <2>6. h.sent \o <<>> = h.sent
    BY <2>1, ConcatEmptySeq DEF Body
  <2>7. h.sent \o FlattenSeq(r.acc) \o FlattenSeq(<<>> \o r.list)
          = h.sent \o (FlattenSeq(r.acc) \o FlattenSeq(<<>> \o r.list))
    BY <2>1, <2>5, BodyAssoc
  <2>8. ~h.dropped => h.sent \o FlattenSeq(r.acc \o r.list) = Units(0, h.made)
    BY <2>3, <2>6 DEF One, Flow, Ending
  <2>9. Len(FlattenSeq(q.acc)) <= MaxReturn
    <3>1. Len(<<>>) = 0 /\ MaxReturn \in Nat
      BY ProxyAssumption
    <3> QED
      BY <2>2, <3>1, FlatEmpty
  <2>10. h.dropped => s.closed
    BY DEF One, Flow, Ending
  <2>11. Ending(n, g, q)
    BY <2>2 DEF One, Flow, Ending
  <2> QED
    BY <2>2, <2>3, <2>4, <2>7, <2>8, <2>9, <2>10, <2>11 DEF Flow
<1>8. Lasting(s, n)
  BY DEF One, Life, Lasting, StreamState
<1>9. Owned(s, n)
  BY DEF Owned, StreamState
<1>10. Closer(s, n)
  BY DEF Closer, StreamState, NewStream
<1> QED
  BY <1>1, <1>2, <1>3, <1>4, <1>5, <1>6, <1>7, <1>8, <1>9, <1>10 DEF Fits, One

LEMMA WaitKeeps ==
  ASSUME NEW s \in StreamState, NEW h \in HttpState, NEW r \in ReaderState, One(s, h, r),
         s.at = "decide", NEW to \in {"look", "wait"},
         NEW n, n = [s EXCEPT !.at = to],
         NEW q, q = [r EXCEPT !.first = FALSE]
  PROVE  Fits(s, n, h, q) /\ Owned(s, n) /\ Closer(s, n)
<1>1. n \in StreamState
  BY DEF StreamState, At
<1>3. q \in ReaderState
  BY DEF ReaderState
<1>4. Life(n)
  BY DEF One, Life, StreamState
<1>5. Tell(n, h)
  BY DEF One, Life, Tell, Sending, StreamState
<1>6. Load(n, h)
  BY DEF One, Life, Load, StreamState
<1>7. Flow(n, h, q)
  <2>1. q.acc = r.acc /\ q.list = r.list /\ q.at = r.at /\ q.late = r.late /\ q.closed = r.closed
    BY DEF ReaderState
  <2>2. n.at = to /\ n.closed = s.closed
    BY DEF StreamState
  <2> QED
    BY <2>1, <2>2 DEF One, Flow, Ending
<1>8. Lasting(s, n)
  BY DEF One, Life, Lasting, StreamState
<1>9. Owned(s, n)
  BY DEF Owned, StreamState
<1>10. Closer(s, n)
  BY DEF Closer, StreamState, NewStream
<1> QED
  BY <1>1, <1>3, <1>4, <1>5, <1>6, <1>7, <1>8, <1>9, <1>10 DEF Fits, One

(***************************************************************************)
(* From one stream to all of them.                                         *)
(***************************************************************************)

StreamsOK ==
    /\ stream \in [Stream -> StreamState]
    /\ http \in [Stream -> HttpState] /\ reader \in [Stream -> ReaderState]

Kept == StreamsOK' /\ Local' /\ \A y \in Stream : Lasting(stream[y], stream'[y])
AllOwned == \A y \in Stream : Owned(stream[y], stream'[y])
AllCloser == \A y \in Stream : Closer(stream[y], stream'[y])
Steady == Kept /\ AllOwned /\ AllCloser

LEMMA OneOf ==
  ASSUME StreamsOK, Local, NEW x \in Stream
  PROVE  /\ stream[x] \in StreamState /\ http[x] \in HttpState /\ reader[x] \in ReaderState
         /\ One(stream[x], http[x], reader[x])
         /\ stream = [stream EXCEPT ![x] = stream[x]]
         /\ http = [http EXCEPT ![x] = http[x]]
         /\ reader = [reader EXCEPT ![x] = reader[x]]
BY DEF StreamsOK, Local

LEMMA Lift ==
  ASSUME StreamsOK, Local, NEW x \in Stream, NEW n, NEW g, NEW q, Fits(stream[x], n, g, q),
         stream' = [stream EXCEPT ![x] = n],
         http' = [http EXCEPT ![x] = g],
         reader' = [reader EXCEPT ![x] = q]
  PROVE  /\ Kept
         /\ Owned(stream[x], n) => AllOwned
         /\ Closer(stream[x], n) => AllCloser
<1>1. n \in StreamState /\ g \in HttpState /\ q \in ReaderState /\ One(n, g, q) /\ Lasting(stream[x], n)
  BY DEF Fits
<1>2. StreamsOK'
  BY <1>1 DEF StreamsOK
<1>3. \A y \in Stream : /\ stream'[y] = IF y = x THEN n ELSE stream[y]
                        /\ http'[y] = IF y = x THEN g ELSE http[y]
                        /\ reader'[y] = IF y = x THEN q ELSE reader[y]
  BY DEF StreamsOK
<1>4. Local'
  <2> SUFFICES ASSUME NEW y \in Stream PROVE One(stream'[y], http'[y], reader'[y])
    BY DEF Local, One, Life, Tell, Load, Flow, Ending, Sending
  <2>1. CASE y = x
    BY <1>1, <1>3, <2>1
  <2>2. CASE y # x
    BY <1>3, <2>2 DEF Local
  <2> QED
    BY <2>1, <2>2
<1>5. \A y \in Stream : Lasting(stream[y], stream'[y])
  <2> TAKE y \in Stream
  <2>1. CASE y = x
    BY <1>1, <1>3, <2>1
  <2>2. CASE y # x
    BY <1>3, <2>2 DEF Lasting
  <2> QED
    BY <2>1, <2>2
<1>6. ASSUME Owned(stream[x], n) PROVE AllOwned
  BY <1>3, <1>6 DEF AllOwned, Owned
<1>7. ASSUME Closer(stream[x], n) PROVE AllCloser
  BY <1>3, <1>7 DEF AllCloser, Closer
<1> QED
  BY <1>2, <1>4, <1>5, <1>6, <1>7 DEF Kept

LEMMA LiftSteady ==
  ASSUME StreamsOK, Local, NEW x \in Stream, NEW n, NEW g, NEW q,
         Fits(stream[x], n, g, q) /\ Owned(stream[x], n) /\ Closer(stream[x], n),
         stream' = [stream EXCEPT ![x] = n],
         http' = [http EXCEPT ![x] = g],
         reader' = [reader EXCEPT ![x] = q]
  PROVE  Steady
BY Lift DEF Steady

LEMMA Unchanged ==
  ASSUME StreamsOK, Local, UNCHANGED <<stream, http, reader>>
  PROVE  Steady
<1>1. stream' = stream /\ http' = http /\ reader' = reader
  OBVIOUS
<1>2. Local'
  <2> SUFFICES ASSUME NEW y \in Stream PROVE One(stream'[y], http'[y], reader'[y])
    BY DEF Local, One, Life, Tell, Load, Flow, Ending, Sending
  <2> QED
    BY <1>1 DEF Local
<1> QED
  BY <1>1, <1>2 DEF Steady, Kept, StreamsOK, Lasting, AllOwned, Owned, AllCloser, Closer

(* A step of the thread and nothing else.                                    *)
LEMMA MoveSteady ==
  ASSUME StreamsOK, Local, NEW x \in Stream, NEW to \in At, Move(x, to), UNCHANGED <<http, reader>>,
         \/ stream[x].at = "get" /\ to = "done"
         \/ stream[x].at = "feed" /\ to = "fail"
         \/ stream[x].at = "feed" /\ stream[x].opened /\ to \in {"get", "finish", "pass", "upload"}
         \/ stream[x].at \in {"finish", "fail"} /\ to = "end"
         \/ stream[x].at = "end" /\ to = "done"
         \/ stream[x].at = "upload" /\ to = "fail"
         \/ stream[x].at = "body" /\ to = "finish"
         \/ stream[x].at = "post" /\ to \in {"finish", "push"}
         \/ stream[x].at = "wait" /\ to = "look"
         \/ stream[x].at = "make" /\ to \in {"refused", "attach"}
         \/ stream[x].at = "refused" /\ to = "attach"
         \/ stream[x].at = "pass" /\ to \in {"get", "finish"}
  PROVE  Steady
<1> DEFINE n == [stream[x] EXCEPT !.at = to]
<1>1. stream[x] \in StreamState /\ http[x] \in HttpState /\ reader[x] \in ReaderState
      /\ One(stream[x], http[x], reader[x])
  BY OneOf
<1>2. Fits(stream[x], n, http[x], reader[x]) /\ Owned(stream[x], n) /\ Closer(stream[x], n)
  BY <1>1, MoveKeeps
<1>3. stream' = [stream EXCEPT ![x] = n]
  BY DEF Move
<1>4. http' = [http EXCEPT ![x] = http[x]] /\ reader' = [reader EXCEPT ![x] = reader[x]]
  BY OneOf
<1> HIDE DEF n
<1> QED
  BY <1>2, <1>3, <1>4, LiftSteady

(* A step that changes the record of the stream and nothing else.            *)
LEMMA SetSteady ==
  ASSUME StreamsOK, Local, NEW x \in Stream, NEW n, stream' = [stream EXCEPT ![x] = n],
         UNCHANGED <<http, reader>>,
         Fits(stream[x], n, http[x], reader[x]) /\ Owned(stream[x], n) /\ Closer(stream[x], n)
  PROVE  Steady
<1>1. http' = [http EXCEPT ![x] = http[x]] /\ reader' = [reader EXCEPT ![x] = reader[x]]
  BY OneOf
<1> QED
  BY <1>1, LiftSteady

(***************************************************************************)
(* Every step keeps what is true of each stream: the connection ...        *)
(***************************************************************************)

LEMMA ReceiveKept ==
  ASSUME TypeOK, StreamsOK, Local, NEW x \in Stream, NEW m \in Message, Receive(x, m), UNCHANGED httpVars
  PROVE  Kept /\ AllCloser /\ (\/ AllOwned
                               \/ stream[x].owner = 0 /\ stream'[x].owner = session
                                  /\ \A y \in Stream \ {x} : stream'[y] = stream[y])
<1> DEFINE s == stream[x]
<1>0. s \in StreamState /\ http[x] \in HttpState /\ reader[x] \in ReaderState
      /\ One(s, http[x], reader[x])
  BY OneOf
<1>1. http' = [http EXCEPT ![x] = http[x]] /\ reader' = [reader EXCEPT ![x] = reader[x]]
  BY OneOf DEF httpVars
<1>2. CASE stream' = [stream EXCEPT ![x].count = IF m.type = "close" THEN @ ELSE @ + 1]
  <2> DEFINE c == IF m.type = "close" THEN s.count ELSE s.count + 1
             n == [s EXCEPT !.count = c]
  <2>1. c \in Nat
    BY <1>0 DEF StreamState
  <2>2. Fits(s, n, http[x], reader[x]) /\ Owned(s, n) /\ Closer(s, n)
    <3> HIDE DEF c
    <3> QED
      BY <1>0, <2>1, CountKeeps
  <2>3. stream' = [stream EXCEPT ![x] = n]
    BY <1>2
  <2> HIDE DEF n
  <2>4. Steady
    BY <1>1, <2>2, <2>3, LiftSteady
  <2> QED
    BY <2>4 DEF Steady
<1>3. ASSUME NEW n, stream' = [stream EXCEPT ![x] = n], Fits(s, n, http[x], reader[x]), Closer(s, n),
             s.owner = 0, n.owner = session
      PROVE  /\ Kept /\ AllCloser
             /\ s.owner = 0 /\ stream'[x].owner = session /\ \A y \in Stream \ {x} : stream'[y] = stream[y]
  <2>1. Kept /\ AllCloser
    BY <1>1, <1>3, Lift
  <2>2. stream'[x] = n /\ \A y \in Stream \ {x} : stream'[y] = stream[y]
    BY <1>3 DEF StreamsOK
  <2> QED
    BY <1>3, <2>1, <2>2
<1>4. session \in 1..MaxSessions /\ m.kind \in {"http", "ws"}
  <2>1. session = active /\ loop = "run"
    BY DEF Receive, Hearing
  <2> QED
    BY <2>1 DEF TypeOK, ConTypeOK, Message
<1>5. CASE /\ s.owner = 0
           /\ \/ Set(x, [[NewStream EXCEPT !.owner = session, !.kind = m.kind, !.mapped = TRUE,
                                           !.count = 1] EXCEPT !.at = "get"])
              \/ Set(x, [NewStream EXCEPT !.owner = session, !.kind = m.kind, !.mapped = TRUE,
                                          !.count = 1])
  <2> DEFINE n == [NewStream EXCEPT !.owner = session, !.kind = m.kind, !.mapped = TRUE, !.count = 1]
             k == [NewStream EXCEPT !.owner = session, !.kind = m.kind, !.mapped = TRUE,
                                    !.count = 1, !.at = "get"]
  <2>0. s.owner = 0
    BY <1>5
  <2>1. Fits(s, n, http[x], reader[x]) /\ Closer(s, n) /\ n.owner = session
    <3>1. Fits(s, n, http[x], reader[x]) /\ Closer(s, n)
      BY <1>0, <1>4, <2>0, NewFails
    <3>2. n.owner = session
      BY DEF NewStream
    <3> HIDE DEF n
    <3> QED
      BY <3>1, <3>2
  <2>2. Fits(s, k, http[x], reader[x]) /\ Closer(s, k) /\ k.owner = session
    <3>1. Fits(s, k, http[x], reader[x]) /\ Closer(s, k)
      BY <1>0, <1>4, <2>0, NewKeeps
    <3>2. k.owner = session
      BY DEF NewStream
    <3> HIDE DEF k
    <3> QED
      BY <3>1, <3>2
  <2>3. [n EXCEPT !.at = "get"] = k
    BY DEF NewStream
  <2>4. Set(x, k) \/ Set(x, n)
    BY <1>5, <2>3
  <2> HIDE DEF n, k
  <2> QED
    BY <1>3, <1>5, <2>1, <2>2, <2>4 DEF Set
<1> QED
  BY <1>2, <1>5 DEF Receive

LEMMA GiveSteady ==
  ASSUME StreamsOK, Local, HandTypeOK, Give, UNCHANGED httpVars
  PROVE  Steady
<1> DEFINE x == hand[1]
           m == hand[2]
           s == stream[x]
<1>1. x \in Stream /\ m \in Message
  BY DEF Give, HandTypeOK
<1>0. s \in StreamState /\ http[x] \in HttpState /\ reader[x] \in ReaderState
      /\ One(s, http[x], reader[x]) /\ UNCHANGED <<http, reader>>
  BY <1>1, OneOf DEF httpVars
<1>2. CASE UNCHANGED stream
  BY <1>0, <1>2, Unchanged
<1>3. CASE /\ ~s.closed
           /\ stream' = [stream EXCEPT ![x].hasSent = TRUE, ![x].serverClosed = TRUE]
  <2> DEFINE n == [s EXCEPT !.hasSent = TRUE, !.serverClosed = TRUE]
  <2>1. Fits(s, n, http[x], reader[x]) /\ Owned(s, n) /\ Closer(s, n)
    BY <1>0, <1>3, EndedKeeps
  <2>2. stream' = [stream EXCEPT ![x] = n]
    BY <1>1, <1>3 DEF StreamsOK
  <2> HIDE DEF n, x
  <2> QED
    BY <1>0, <1>1, <2>1, <2>2, SetSteady
<1>4. CASE stream' = [stream EXCEPT ![x].inbox = Append(@, m)]
  <2> DEFINE b == Append(s.inbox, m)
             n == [s EXCEPT !.inbox = b]
  <2>1. b \in Seq(Message)
    <3>1. s.inbox \in Seq(Message)
      BY <1>0 DEF StreamState
    <3> QED
      BY <1>1, <3>1, AppendProperties
  <2>2. Fits(s, n, http[x], reader[x]) /\ Owned(s, n) /\ Closer(s, n)
    <3> HIDE DEF b
    <3> QED
      BY <1>0, <2>1, InboxKeeps
  <2>3. stream' = [stream EXCEPT ![x] = n]
    BY <1>4
  <2> HIDE DEF n, x
  <2> QED
    BY <1>0, <1>1, <2>2, <2>3, SetSteady
<1> QED
  BY <1>2, <1>3, <1>4 DEF Give

LEMMA CloseEnterKept ==
  ASSUME StreamsOK, Local, NEW t \in Thread, NEW x \in Stream, CloseEnter(t, x), UNCHANGED httpVars
  PROVE  /\ Kept /\ AllOwned
         /\ stream'[x].closed
         /\ \A y \in Stream : \/ stream'[y] = stream[y]
                              \/ y = x /\ stream'[y].closing = "unmap" /\ stream'[y].closer = t
<1> DEFINE s == stream[x]
<1>0. s \in StreamState /\ http[x] \in HttpState /\ reader[x] \in ReaderState
      /\ One(s, http[x], reader[x]) /\ UNCHANGED <<http, reader>>
      /\ http' = [http EXCEPT ![x] = http[x]] /\ reader' = [reader EXCEPT ![x] = reader[x]]
  BY OneOf DEF httpVars
<1>1. CASE s.closed
  <2>1. UNCHANGED stream
    BY <1>1 DEF CloseEnter
  <2> QED
    BY <1>0, <1>1, <2>1, Unchanged DEF Steady
<1>2. ASSUME NEW n, stream' = [stream EXCEPT ![x] = n], Fits(s, n, http[x], reader[x]), Owned(s, n),
             n.closed, n.closing = "unmap", n.closer = t
      PROVE  /\ Kept /\ AllOwned
             /\ stream'[x].closed
             /\ \A y \in Stream : \/ stream'[y] = stream[y]
                                  \/ y = x /\ stream'[y].closing = "unmap" /\ stream'[y].closer = t
  <2>1. Kept /\ AllOwned
    BY <1>0, <1>2, Lift, Zenon
  <2>2. stream'[x] = n /\ \A y \in Stream \ {x} : stream'[y] = stream[y]
    BY <1>2 DEF StreamsOK
  <2> QED
    BY <1>2, <2>1, <2>2
<1>3. CASE ~s.closed /\ s.helper = "set" /\ ~s.hclosed
  <2> DEFINE n == [s EXCEPT !.closed = TRUE, !.closing = "unmap", !.closer = t,
                            !.captured = TRUE, !.hclosed = TRUE, !.helper = "taken"]
  <2>1. Fits(s, n, http[x], reader[x]) /\ Owned(s, n)
    BY <1>0, <1>3, CloseTakes
  <2>2. n.closed /\ n.closing = "unmap" /\ n.closer = t
    BY <1>0 DEF StreamState
  <2>3. stream' = [stream EXCEPT ![x] = [s EXCEPT !.closed = TRUE, !.closing = "unmap", !.closer = t,
                             !.captured = TRUE, !.hclosed = @ \/ TRUE, !.helper = "taken"]]
    BY <1>3 DEF CloseEnter, Set
  <2>4. stream' = [stream EXCEPT ![x] = n]
    BY <2>3
  <2> HIDE DEF n
  <2> QED
    BY <1>2, <2>1, <2>2, <2>4
<1>4. CASE ~s.closed /\ ~(s.helper = "set" /\ ~s.hclosed)
  <2> DEFINE n == [s EXCEPT !.closed = TRUE, !.closing = "unmap", !.closer = t, !.captured = FALSE]
  <2>1. Fits(s, n, http[x], reader[x]) /\ Owned(s, n)
    BY <1>0, <1>4, CloseFinds
  <2>2. n.closed /\ n.closing = "unmap" /\ n.closer = t
    BY <1>0 DEF StreamState
  <2>3. [s EXCEPT !.closed = TRUE, !.closing = "unmap", !.closer = t, !.captured = FALSE,
                  !.hclosed = @ \/ FALSE, !.helper = @] = n
    BY <1>0 DEF StreamState
  <2>4. stream' = [stream EXCEPT ![x] = n]
    BY <1>4, <2>3 DEF CloseEnter, Set
  <2> HIDE DEF n
  <2> QED
    BY <1>2, <2>1, <2>2, <2>4
<1> QED
  BY <1>1, <1>3, <1>4

LEMMA CloseStepSteady ==
  ASSUME StreamsOK, Local, NEW x \in Stream, CloseStep(x), UNCHANGED httpVars
  PROVE  Steady
<1> DEFINE s == stream[x]
<1>0. s \in StreamState /\ http[x] \in HttpState /\ reader[x] \in ReaderState
      /\ One(s, http[x], reader[x]) /\ UNCHANGED <<http, reader>>
  BY OneOf DEF httpVars
<1>1. ASSUME NEW n, Set(x, n),
             Fits(s, n, http[x], reader[x]) /\ Owned(s, n) /\ Closer(s, n)
      PROVE  Steady
  BY <1>0, <1>1, SetSteady DEF Set
<1>2. CASE s.closing = "unmap" /\ Set(x, [s EXCEPT !.mapped = FALSE, !.closing = "tell"])
  BY <1>0, <1>1, <1>2, UnmapKeeps
<1>3. CASE s.closing = "tell" /\ ~s.hasSent /\ Set(x, [s EXCEPT !.hasSent = TRUE, !.closing = "send"])
  BY <1>0, <1>1, <1>3, ClaimKeeps
<1>4. CASE s.closing = "tell" /\ s.hasSent /\ Set(x, [s EXCEPT !.closing = "helper"])
  BY <1>0, <1>1, <1>4, PassKeeps
<1>6. CASE s.closing = "helper" /\ ~s.captured /\ Set(x, [s EXCEPT !.closing = "done"])
  BY <1>0, <1>1, <1>6, PassKeeps
<1>5. CASE s.closing = "send" /\ Set(x, [s EXCEPT !.told = @ + 1, !.closing = "helper"])
  BY <1>0, <1>1, <1>5, SendKeeps
<1> QED
  BY <1>2, <1>3, <1>4, <1>5, <1>6 DEF CloseStep

(* ... the thread of a stream ...                                            *)

LEMMA GetSteady ==
  ASSUME StreamsOK, Local, NEW x \in Stream, Get(x), UNCHANGED httpVars
  PROVE  Steady
<1> DEFINE s == stream[x]
           to == IF Head(s.inbox).type = "open" THEN "init" ELSE "feed"
           n == [s EXCEPT !.cur = Head(s.inbox), !.inbox = Tail(s.inbox), !.at = to]
<1>0. s \in StreamState /\ http[x] \in HttpState /\ reader[x] \in ReaderState
      /\ One(s, http[x], reader[x]) /\ UNCHANGED <<http, reader>> /\ s.at = "get"
  BY OneOf DEF httpVars, Get
<1>1. CASE Move(x, "done")
  <2>1. "done" \in At
    BY DEF At
  <2> QED
    BY <1>0, <1>1, <2>1, MoveSteady
<1>2. CASE s.inbox # <<>> /\ Set(x, n)
  <2>1. Head(s.inbox) \in Message /\ Tail(s.inbox) \in Seq(Message)
    <3>1. s.inbox \in Seq(Message)
      BY <1>0 DEF StreamState
    <3> QED
      BY <1>2, <3>1, HeadTailProperties
  <2>2. to \in At /\ (to = "init" \/ (to = "feed" /\ Head(s.inbox).type # "open"))
    BY DEF At
  <2>3. Fits(s, n, http[x], reader[x]) /\ Owned(s, n) /\ Closer(s, n)
    <3> HIDE DEF to
    <3> QED
      BY <1>0, <2>1, <2>2, GetKeeps
  <2> HIDE DEF n
  <2> QED
    BY <1>0, <1>2, <2>3, SetSteady DEF Set
<1> QED
  BY <1>1, <1>2 DEF Get

LEMMA InitSteady ==
  ASSUME StreamsOK, Local, NEW x \in Stream, InitFromOpen(x), UNCHANGED httpVars
  PROVE  Steady
<1> DEFINE s == stream[x]
<1>0. s \in StreamState /\ http[x] \in HttpState /\ reader[x] \in ReaderState
      /\ One(s, http[x], reader[x]) /\ UNCHANGED <<http, reader>> /\ s.at = "init"
  BY OneOf DEF httpVars, InitFromOpen
<1>1. CASE s.opened
  <2>1. [s EXCEPT !.opened = TRUE, !.helper = s.helper, !.at = "fail"] = [s EXCEPT !.at = "fail"]
    BY <1>0, <1>1 DEF StreamState
  <2>2. stream' = [stream EXCEPT ![x] = [s EXCEPT !.at = "fail"]]
    BY <1>1, <2>1 DEF InitFromOpen, Set
  <2> QED
    BY <1>0, <1>1, <2>2, InitAgain, SetSteady
<1>2. CASE ~s.opened
  <2> DEFINE to == IF s.kind = "ws" THEN "make" ELSE "attach"
             n == [s EXCEPT !.opened = TRUE, !.helper = "made", !.at = to]
  <2>1. to \in At /\ (to = "make" \/ to = "attach")
    BY DEF At
  <2>2. stream' = [stream EXCEPT ![x] = n]
    BY <1>2 DEF InitFromOpen, Set
  <2>3. Fits(s, n, http[x], reader[x]) /\ Owned(s, n) /\ Closer(s, n)
    <3> HIDE DEF to
    <3> QED
      BY <1>0, <1>2, <2>1, InitKeeps
  <2> HIDE DEF n
  <2> QED
    BY <1>0, <2>2, <2>3, SetSteady
<1> QED
  BY <1>1, <1>2

LEMMA AttachSteady ==
  ASSUME StreamsOK, Local, NEW x \in Stream, Attach(x), UNCHANGED httpVars
  PROVE  Steady
<1> DEFINE s == stream[x]
<1>0. s \in StreamState /\ http[x] \in HttpState /\ reader[x] \in ReaderState
      /\ One(s, http[x], reader[x]) /\ UNCHANGED <<http, reader>> /\ s.at = "attach"
  BY OneOf DEF httpVars, Attach
<1>1. ~s.hclosed
  BY <1>0 DEF One, Life
<1>2. CASE s.closed
  <2>1. stream' = [stream EXCEPT ![x] = [s EXCEPT !.helper = "taken", !.hclosed = TRUE, !.at = "discard"]]
    BY <1>1, <1>2 DEF Attach, Set
  <2> QED
    BY <1>0, <1>2, <2>1, AttachLate, SetSteady
<1>3. CASE ~s.closed
  <2>1. stream' = [stream EXCEPT ![x] = [s EXCEPT !.helper = "set", !.at = "feed"]]
    BY <1>3 DEF Attach, Set
  <2> QED
    BY <1>0, <1>3, <2>1, AttachKeeps, SetSteady
<1> QED
  BY <1>2, <1>3

LEMMA FeedSteady ==
  ASSUME StreamsOK, Local, NEW x \in Stream, Feed(x), UNCHANGED httpVars
  PROVE  Steady
<1> DEFINE s == stream[x]
           to == IF ~s.opened THEN "fail"
                 ELSE IF s.cur.only THEN "get"
                 ELSE IF s.helper # "set" THEN "finish"
                 ELSE IF s.kind = "ws" THEN "pass" ELSE "upload"
<1>1. Move(x, to) /\ UNCHANGED <<http, reader>> /\ s.at = "feed"
  BY DEF Feed, httpVars
<1>2. to \in At /\ (to = "fail" \/ (s.opened /\ to \in {"get", "finish", "pass", "upload"}))
  <2>1. {"fail", "get", "finish", "pass", "upload"} \subseteq At
    BY DEF At
  <2>2. to \in {"fail", "get", "finish", "pass", "upload"} /\ (to # "fail" => s.opened)
    OBVIOUS
  <2> HIDE DEF to
  <2>3. to \in At
    BY <2>1, <2>2
  <2>4. to = "fail" \/ (s.opened /\ to \in {"get", "finish", "pass", "upload"})
    BY <2>2
  <2> QED
    BY <2>3, <2>4
<1> HIDE DEF to
<1> QED
  BY <1>1, <1>2, MoveSteady

LEMMA FinishSteady ==
  ASSUME StreamsOK, Local, NEW x \in Stream, Finish(x) \/ Fail(x) \/ End(x), UNCHANGED httpVars
  PROVE  Steady
<1>1. "end" \in At /\ "done" \in At /\ UNCHANGED <<http, reader>>
  BY DEF At, httpVars
<1>2. \/ stream[x].at \in {"finish", "fail"} /\ Move(x, "end")
      \/ stream[x].at = "end" /\ Move(x, "done")
  BY DEF Finish, Fail, End
<1> QED
  BY <1>1, <1>2, MoveSteady

(* ... its request ...                                                       *)

LEMMA MoreIs ==
  ASSUME NEW x
  PROVE  More(x) \in {"get", "finish"}
BY DEF More

LEMMA UploadSteady ==
  ASSUME StreamsOK, Local, NEW x \in Stream, Upload(x)
  PROVE  Steady
<1> DEFINE s == stream[x]
           m == s.cur
           h == http[x]
           known == IF m.type = "open" THEN m.known ELSE h.known
           k == [h EXCEPT !.known = known]
           needed == h.got + m.size
           room == IF h.room # 0 /\ needed <= h.room THEN h.room
                   ELSE IF known # 0 THEN known ELSE needed + Slack
           next == IF m.done THEN "trim" ELSE More(x)
<1>0. s \in StreamState /\ h \in HttpState /\ reader[x] \in ReaderState
      /\ One(s, h, reader[x]) /\ s.at = "upload"
      /\ http = [http EXCEPT ![x] = h]
      /\ reader' = [reader EXCEPT ![x] = reader[x]] /\ UNCHANGED reader
  BY OneOf DEF Upload
<1>1. m \in Message
  BY <1>0 DEF StreamState
<1>2. m.size \in Nat /\ m.known \in Nat /\ h.known \in Nat /\ h.got \in Nat /\ h.room \in Nat
  BY <1>0, <1>1 DEF Message, HttpState
<1>3. known \in Nat /\ needed \in Nat /\ (known = h.known \/ m.type = "open")
  BY <1>2
<1>4. room \in Nat
  BY <1>2, <1>3, ProxyAssumption
<1>5. next \in {"trim", "get", "finish"}
  BY MoreIs
<1>6. /\ h.known # 0 /\ h.room # 0 => h.room = h.known
      /\ h.got = 0 \/ h.room # 0
      /\ m.type = "open" => h.room = 0 /\ h.got = 0
  BY <1>0 DEF One, Load
<1>7. /\ known # 0 /\ h.room # 0 => h.room = known
      /\ known # 0 /\ room # 0 /\ ~(known # 0 /\ needed > known) => room = known
      /\ m.size # 0 => needed # 0 /\ room # 0
  <2>1. known # 0 /\ h.room # 0 => h.room = known
    BY <1>6
  <2>2. m.size # 0 => needed # 0 /\ needed + Slack # 0
    BY <1>2, ProxyAssumption
  <2> QED
    BY <1>2, <1>3, <2>1, <2>2
<1>8. ASSUME NEW u \in Nat, NEW b \in Nat, u = 0 \/ b # 0, known # 0 /\ b # 0 => b = known,
             stream' = [stream EXCEPT ![x] = [s EXCEPT !.at = next]],
             http' = [http EXCEPT ![x] = [h EXCEPT !.known = known, !.got = u, !.room = b]]
      PROVE  Steady
  <2> HIDE DEF known, next
  <2>1. PICK n : n = [s EXCEPT !.at = next]
    OBVIOUS
  <2>2. PICK g : g = [h EXCEPT !.known = known, !.got = u, !.room = b]
    OBVIOUS
  <2>3. (u = 0 \/ b # 0) /\ (known # 0 /\ b # 0 => b = known)
    BY <1>8
  <2>4. Fits(s, n, g, reader[x]) /\ Owned(s, n) /\ Closer(s, n)
    <3>1. known \in Nat /\ (known = h.known \/ s.cur.type = "open")
      BY <1>3
    <3>2. /\ s \in StreamState /\ h \in HttpState /\ reader[x] \in ReaderState
          /\ One(s, h, reader[x]) /\ s.at = "upload"
      BY <1>0
    <3> HIDE DEF s, h
    <3> QED
      BY <3>1, <3>2, <1>5, <2>1, <2>2, <2>3, UploadKeeps, ZenonT(60)
  <2>5. stream' = [stream EXCEPT ![x] = n] /\ http' = [http EXCEPT ![x] = g]
    BY <1>8, <2>1, <2>2
  <2> QED
    BY <1>0, <2>4, <2>5, LiftSteady
<1>9. CASE m.size = 0
  <2>1. SetHttp(x, k) /\ Move(x, next)
    BY <1>9 DEF Upload
  <2>2. k = [h EXCEPT !.known = known, !.got = h.got, !.room = h.room]
    BY <1>0 DEF HttpState
  <2> HIDE DEF known, next, k
  <2>3. /\ http' = [http EXCEPT ![x] = [h EXCEPT !.known = known, !.got = h.got, !.room = h.room]]
        /\ stream' = [stream EXCEPT ![x] = [s EXCEPT !.at = next]]
    BY <2>1, <2>2 DEF SetHttp, Move
  <2> QED
    BY <1>2, <1>6, <1>7, <1>8, <2>3
<1>10. CASE m.size # 0 /\ h.room = 0 /\ known = m.size
  <2>1. SetHttp(x, [k EXCEPT !.got = m.size, !.room = m.size]) /\ Move(x, next)
    BY <1>0, <1>10 DEF Upload, HttpState
  <2>2. [k EXCEPT !.got = m.size, !.room = m.size]
          = [h EXCEPT !.known = known, !.got = m.size, !.room = m.size]
    OBVIOUS
  <2> HIDE DEF known, next, k
  <2>3. /\ http' = [http EXCEPT ![x] = [h EXCEPT !.known = known, !.got = m.size, !.room = m.size]]
        /\ stream' = [stream EXCEPT ![x] = [s EXCEPT !.at = next]]
    BY <2>1, <2>2 DEF SetHttp, Move
  <2> QED
    BY <1>2, <1>8, <1>10, <2>3
<1>11. CASE m.size # 0 /\ ~(h.room = 0 /\ known = m.size) /\ known # 0 /\ needed > known
  <2>1. UNCHANGED http /\ Move(x, "fail")
    BY <1>0, <1>11 DEF Upload, HttpState
  <2>2. "fail" \in At
    BY DEF At
  <2> QED
    BY <1>0, <2>1, <2>2, MoveSteady
<1>12. CASE m.size # 0 /\ ~(h.room = 0 /\ known = m.size) /\ ~(known # 0 /\ needed > known)
  <2>1. SetHttp(x, [k EXCEPT !.got = needed, !.room = room]) /\ Move(x, next)
    BY <1>0, <1>12 DEF Upload, HttpState
  <2>2. [k EXCEPT !.got = needed, !.room = room] = [h EXCEPT !.known = known, !.got = needed, !.room = room]
    OBVIOUS
  <2> HIDE DEF known, next, k, needed, room
  <2>3. /\ http' = [http EXCEPT ![x] = [h EXCEPT !.known = known, !.got = needed, !.room = room]]
        /\ stream' = [stream EXCEPT ![x] = [s EXCEPT !.at = next]]
    BY <2>1, <2>2 DEF SetHttp, Move
  <2> QED
    BY <1>3, <1>4, <1>7, <1>8, <1>12, <2>3
<1> QED
  BY <1>9, <1>10, <1>11, <1>12

LEMMA TrimSteady ==
  ASSUME StreamsOK, Local, NEW x \in Stream, Trim(x)
  PROVE  Steady
<1> DEFINE s == stream[x]
           h == http[x]
           b == IF h.known = 0 THEN h.got ELSE h.room
           to == IF h.known \notin {0, h.got} THEN "fail" ELSE "execute"
<1>0. s \in StreamState /\ h \in HttpState /\ reader[x] \in ReaderState
      /\ One(s, h, reader[x]) /\ s.at = "trim" /\ reader' = [reader EXCEPT ![x] = reader[x]]
  BY OneOf DEF Trim
<1>1. b \in Nat /\ to \in {"fail", "execute"} /\ (h.known \notin {0, h.got} <=> to = "fail")
  BY <1>0 DEF HttpState
<1>2. /\ http' = [http EXCEPT ![x] = [h EXCEPT !.room = b]]
      /\ stream' = [stream EXCEPT ![x] = [s EXCEPT !.at = to]]
  BY DEF Trim, SetHttp, Move
<1>3. /\ Fits(s, [s EXCEPT !.at = to], [h EXCEPT !.room = b], reader[x])
      /\ Owned(s, [s EXCEPT !.at = to]) /\ Closer(s, [s EXCEPT !.at = to])
  <2> DEFINE n == [s EXCEPT !.at = to]
             g == [h EXCEPT !.room = b]
  <2> HIDE DEF to
  <2> QED
    BY <1>0, <1>1, TrimKeeps
<1> HIDE DEF b, to
<1> QED
  BY <1>0, <1>2, <1>3, LiftSteady

LEMMA ExecuteSteady ==
  ASSUME StreamsOK, Local, NEW x \in Stream, Execute(x)
  PROVE  Steady
<1> DEFINE s == stream[x]
           h == http[x]
<1>0. s \in StreamState /\ h \in HttpState /\ reader[x] \in ReaderState
      /\ One(s, h, reader[x]) /\ s.at = "execute"
      /\ reader' = [reader EXCEPT ![x] = reader[x]] /\ UNCHANGED reader
  BY OneOf DEF Execute
<1>1. ASSUME NEW how \in Answers \union {"full"}, NEW l \in Nat \union {NoLength}, how = "full" => l \in Nat,
             how = "stream" => l = NoLength, SetHttp(x, Begin(h, how, l)), Move(x, "body")
      PROVE  Steady
  <2>1. PICK n : n = [s EXCEPT !.at = "body"]
    OBVIOUS
  <2>2. PICK g : g = [h EXCEPT !.how = how, !.length = l]
    OBVIOUS
  <2>3. (how = "full" => l \in Nat) /\ (how = "stream" => l = NoLength)
    BY <1>1
  <2>4. Fits(s, n, g, reader[x]) /\ Owned(s, n) /\ Closer(s, n)
    <3> HIDE DEF s, h
    <3> QED
      BY <1>0, <2>1, <2>2, <2>3, ExecuteKeeps, ZenonT(60)
  <2>5. http' = [http EXCEPT ![x] = g] /\ stream' = [stream EXCEPT ![x] = n]
    BY <1>1, <2>1, <2>2 DEF SetHttp, Begin, Move
  <2> QED
    BY <1>0, <2>4, <2>5, LiftSteady
<1>2. CASE \E l \in 0..MaxReturn : SetHttp(x, Begin(h, "full", l)) /\ Move(x, "body")
  BY <1>1, <1>2
<1>3. CASE Set(x, [s EXCEPT !.failed = TRUE, !.at = "finish"]) /\ UNCHANGED http
  <2>1. PICK n : n = [s EXCEPT !.failed = TRUE, !.at = "finish"]
    OBVIOUS
  <2>2. Fits(s, n, h, reader[x]) /\ Owned(s, n) /\ Closer(s, n)
    BY <1>0, <2>1, ExecuteFails
  <2>3. stream' = [stream EXCEPT ![x] = n] /\ UNCHANGED http
    BY <1>3, <2>1 DEF Set
  <2> QED
    BY <1>0, <2>2, <2>3, SetSteady
<1>4. CASE \E how \in Answers, l \in {NoLength} \cup 0..MaxBody :
              (how = "stream" => l = NoLength) /\ SetHttp(x, Begin(h, how, l)) /\ Move(x, "body")
  <2>1. PICK how \in Answers, l \in {NoLength} \cup 0..MaxBody :
           (how = "stream" => l = NoLength) /\ SetHttp(x, Begin(h, how, l)) /\ Move(x, "body")
    BY <1>4
  <2>2. how # "full" /\ l \in Nat \cup {NoLength}
    BY ProxyAssumption
  <2> QED
    BY <1>1, <2>1, <2>2
<1> QED
  BY <1>2, <1>3, <1>4 DEF Execute

(* ... the body on its way back ...                                          *)

LEMMA ReturnsSteady ==
  ASSUME StreamsOK, Local, NEW x \in Stream, stream[x].at = "body", ~http[x].last,
         http[x].how \notin {"none", "stream"}, UNCHANGED reader,
         NEW k \in Nat, NEW how \in Answers \union {"full", "stream", "plain"}, NEW eof \in BOOLEAN,
         http[x].how = "full" => how = "full" /\ k = http[x].length,
         http[x].how # "full" => how # "full",
         how = "stream" => http[x].length = NoLength, NEW w \in Nat,
         Returns(x, [http[x] EXCEPT !.made = @ + k, !.torn = w, !.how = how], Units(http[x].made, k), eof)
  PROVE  Steady
<1> DEFINE s == stream[x]
           h == http[x]
           p == Units(h.made, k)
           j == [h EXCEPT !.made = @ + k, !.torn = w, !.how = how]
           d == h.read + Len(p)
           l == eof \/ (h.length # NoLength /\ d >= h.length)
<1>0. s \in StreamState /\ h \in HttpState /\ reader[x] \in ReaderState
      /\ One(s, h, reader[x])
      /\ reader' = [reader EXCEPT ![x] = reader[x]]
  BY OneOf
<1>1. p \in Body /\ Len(p) = k /\ h.read \in Nat /\ h.made \in Nat
  BY <1>0, UnitsType DEF HttpState, Units
<1>2. j.read = h.read /\ j.length = h.length
  BY <1>0 DEF HttpState
<1>3. d \in Nat /\ l \in BOOLEAN /\ (h.how = "full" => l)
  <2>1. h.how = "full" => h.length \in Nat
    BY <1>0 DEF One, Flow, Ending
  <2>2. h.how = "full" => d >= h.length /\ h.length # NoLength
    BY <1>1, <2>1 DEF NoLength
  <2> QED
    BY <1>1, <2>2
<1>4. PICK n : n = [s EXCEPT !.at = "post"]
  OBVIOUS
<1>5. PICK g : g = Having(h, k, w, how, d, l)
  OBVIOUS
<1>6. stream' = [stream EXCEPT ![x] = n]
  BY <1>4 DEF Returns, Move
<1>7. http' = [http EXCEPT ![x] = g]
  <2>1. [j EXCEPT !.piece = p, !.read = j.read + Len(p),
                  !.last = eof \/ (j.length # NoLength /\ j.read + Len(p) >= j.length)] = g
    <3>1. g = [h EXCEPT !.made = @ + k, !.torn = w, !.how = how, !.piece = p, !.read = d, !.last = l]
      BY <1>5 DEF Having
    <3> HIDE DEF p
    <3> QED
      BY <1>2, <3>1
  <2>2. http' = [http EXCEPT ![x] = [j EXCEPT !.piece = p, !.read = j.read + Len(p),
                  !.last = eof \/ (j.length # NoLength /\ j.read + Len(p) >= j.length)]]
    BY DEF Returns, SetHttp
  <2> QED
    BY <2>1, <2>2
<1>8. Fits(s, n, g, reader[x]) /\ Owned(s, n) /\ Closer(s, n)
  <2> HIDE DEF d, l, s, h
  <2>1. h.how = "full" => l /\ how = "full"
    BY <1>3 DEF h
  <2>2. MayRead(s, h, how, l)
    BY <2>1 DEF MayRead, s, h
  <2> QED
    <3>1. s \in StreamState /\ h \in HttpState /\ reader[x] \in ReaderState /\ One(s, h, reader[x])
      BY <1>0
    <3>2. d \in Nat /\ l \in BOOLEAN
      BY <1>3
    <3>3. PICK r : r = reader[x]
      OBVIOUS
    <3>4. Fits(s, n, g, r) /\ Owned(s, n) /\ Closer(s, n)
      BY <3>1, <3>2, <3>3, <1>4, <1>5, <2>2, PieceKeeps, SMTT(60)
    <3> QED
      BY <3>3, <3>4
<1> QED
  BY <1>0, <1>6, <1>7, <1>8, LiftSteady

LEMMA LeftIs ==
  ASSUME StreamsOK, NEW x \in Stream, NEW k \in 1..Left(x)
  PROVE  k \in Nat
<1>1. http[x] \in HttpState
  BY DEF StreamsOK
<1>2. Left(x) \in Int
  BY <1>1, ProxyAssumption DEF Left, HttpState, NoLength
<1> QED
  BY <1>2

LEMMA NothingRead ==
  ASSUME StreamsOK, NEW x \in Stream, NEW w
  PROVE  /\ http[x] = [http[x] EXCEPT !.torn = @]
         /\ [http[x] EXCEPT !.made = @ + 0, !.torn = w, !.how = @] = [http[x] EXCEPT !.torn = w]
         /\ Units(http[x].made, 0) = None
<1>1. http[x] \in HttpState
  BY DEF StreamsOK
<1>2. http[x].made + 0 = http[x].made
  BY <1>1 DEF HttpState
<1>3. [http[x] EXCEPT !.made = @ + 0, !.torn = w, !.how = @] = [http[x] EXCEPT !.torn = w]
  BY <1>1, <1>2 DEF HttpState
<1>5. http[x] = [http[x] EXCEPT !.torn = @]
  BY <1>1 DEF HttpState
<1>4. Units(http[x].made, 0) \in Seq(Nat) /\ Len(Units(http[x].made, 0)) = 0
  BY <1>1, UnitsType DEF HttpState, Units, Body
<1> QED
  BY <1>3, <1>4, <1>5, EmptySeq DEF None

LEMMA ReadSteady ==
  ASSUME StreamsOK, Local, NEW x \in Stream,
         ReadNothing(x) \/ ReadFull(x) \/ ReadPlain(x) \/ ReadPart(x)
  PROVE  Steady
<1> DEFINE s == stream[x]
           h == http[x]
<1>0. /\ h \in HttpState /\ One(s, h, reader[x])
      /\ s.at = "body" /\ ~h.last /\ UNCHANGED reader
      /\ h.how \in {"empty", "full", "plain", "parts"}
  BY OneOf DEF ReadNothing, ReadFull, ReadPlain, ReadPart, Reading
<1>a. h.how = "full" \/ h.how \in Answers \cup {"plain"}
  BY <1>0 DEF HttpState
<1>b. h.torn \in Nat
  BY <1>0 DEF HttpState
<1>1. ASSUME NEW w \in Nat, Returns(x, [h EXCEPT !.torn = w], None, TRUE), h.how # "full"
      PROVE  Steady
  <2>1. Returns(x, [h EXCEPT !.made = @ + 0, !.torn = w, !.how = h.how], Units(h.made, 0), TRUE)
    BY <1>1, NothingRead
  <2> QED
    BY <1>0, <1>a, <1>1, <2>1, ReturnsSteady
<1>5. CASE Returns(x, h, None, TRUE) /\ h.how # "full"
  BY <1>b, <1>1, <1>5, NothingRead
<1>6. CASE ReadPart(x) /\ \E n \in 1..Left(x) : Returns(x, [h EXCEPT !.torn = n], None, TRUE)
  <2>1. h.how # "full" /\ \A n \in 1..Left(x) : n \in Nat
    BY <1>6, LeftIs DEF ReadPart, Reading
  <2> QED
    BY <1>1, <1>6, <2>1
<1>2. CASE ReadFull(x)
  <2> DEFINE n == h.length
  <2>1. n \in Nat /\ h.made = 0
    BY <1>0, <1>2 DEF One, Flow, Ending, ReadFull, Reading
  <2>2. [h EXCEPT !.made = n] = [h EXCEPT !.made = @ + n, !.torn = @, !.how = "full"]
    <3>1. h.made + n = n /\ h.how = "full"
      BY <1>2, <2>1 DEF ReadFull, Reading
    <3> HIDE DEF n
    <3> QED
      BY <1>0, <3>1 DEF HttpState
  <2>3. Returns(x, [h EXCEPT !.made = @ + n, !.torn = @, !.how = "full"], Units(h.made, n), FALSE)
    BY <1>2, <2>1, <2>2 DEF ReadFull
  <2>4. h.how = "full"
    BY <1>2 DEF ReadFull, Reading
  <2> QED
    BY <1>0, <1>b, <2>1, <2>3, <2>4, ReturnsSteady
<1>3. CASE ReadPlain(x) /\ \E n \in 1..Left(x) :
             Returns(x, [h EXCEPT !.made = @ + n], Units(h.made, n), FALSE)
  <2>1. PICK n \in 1..Left(x) : Returns(x, [h EXCEPT !.made = @ + n], Units(h.made, n), FALSE)
    BY <1>3
  <2>2. h.how = "plain"
    BY <1>3 DEF ReadPlain, Reading
  <2>3. [h EXCEPT !.made = @ + n] = [h EXCEPT !.made = @ + n, !.torn = @, !.how = "plain"]
    BY <1>0, <2>2 DEF HttpState
  <2>4. Returns(x, [h EXCEPT !.made = @ + n, !.torn = @, !.how = "plain"], Units(h.made, n), FALSE)
    BY <2>1, <2>3
  <2>5. n \in Nat
    BY LeftIs
  <2> QED
    BY <1>0, <1>b, <2>2, <2>4, <2>5, ReturnsSteady
<1>4. CASE ReadPart(x) /\ \E n \in 1..Left(x), found \in BOOLEAN :
             Returns(x, [h EXCEPT !.made = @ + n,
                               !.how = IF found THEN @
                                       ELSE IF h.length = NoLength THEN "stream" ELSE "plain"],
                        Units(h.made, n), FALSE)
  <2>1. PICK n \in 1..Left(x), found \in BOOLEAN :
             Returns(x, [h EXCEPT !.made = @ + n,
                               !.how = IF found THEN @
                                       ELSE IF h.length = NoLength THEN "stream" ELSE "plain"],
                        Units(h.made, n), FALSE)
    BY <1>4
  <2> DEFINE how == IF found THEN h.how ELSE IF h.length = NoLength THEN "stream" ELSE "plain"
  <2>6. [h EXCEPT !.made = @ + n, !.how = how] = [h EXCEPT !.made = @ + n, !.torn = @, !.how = how]
    BY <1>0 DEF HttpState
  <2>2. Returns(x, [h EXCEPT !.made = @ + n, !.torn = @, !.how = how], Units(h.made, n), FALSE)
    BY <2>1, <2>6
  <2>3. h.how = "parts"
    BY <1>4 DEF ReadPart, Reading
  <2>4. how \in Answers \union {"full", "stream", "plain"} /\ how # "full"
        /\ (how = "stream" => h.length = NoLength)
    BY <1>a, <2>3
  <2>5. n \in Nat
    BY LeftIs
  <2> HIDE DEF how
  <2> QED
    BY <1>0, <1>b, <2>2, <2>3, <2>4, <2>5, ReturnsSteady
<1> QED
  BY <1>0, <1>2, <1>3, <1>4, <1>5, <1>6 DEF ReadNothing, ReadPlain, ReadPart, Reading

LEMMA PostSteady ==
  ASSUME StreamsOK, Local, NEW x \in Stream, BodyDone(x) \/ Post(x)
  PROVE  Steady
<1>1. "finish" \in At /\ "push" \in At /\ UNCHANGED <<http, reader>>
  BY DEF At, BodyDone, Post, httpVars
<1>2. CASE stream[x].at = "body" /\ Move(x, "finish")
  BY <1>1, <1>2, MoveSteady
<1>3. CASE stream[x].at = "post" /\ Move(x, IF stream[x].shut THEN "finish" ELSE "push")
  <2>1. stream[x].at = "post" /\ (Move(x, "finish") \/ Move(x, "push"))
    BY <1>3
  <2> QED
    BY <1>1, <2>1, MoveSteady
<1> QED
  BY <1>2, <1>3 DEF BodyDone, Post

LEMMA PushSteady ==
  ASSUME StreamsOK, Local, NEW x \in Stream, Push(x)
  PROVE  Steady
<1> DEFINE s == stream[x]
           h == http[x]
           refused == s.closed /\ (~h.last \/ s.hasSent)
<1>0. s \in StreamState /\ h \in HttpState /\ reader[x] \in ReaderState
      /\ One(s, h, reader[x]) /\ s.at = "push"
      /\ http = [http EXCEPT ![x] = h]
      /\ reader' = [reader EXCEPT ![x] = reader[x]] /\ UNCHANGED reader
  BY OneOf DEF Push
<1>1. Set(x, [s EXCEPT !.at = IF refused THEN "body" ELSE "send", !.hasSent = @ \/ h.last])
      /\ SetHttp(x, [h EXCEPT !.dropped = @ \/ refused, !.piece = IF refused THEN None ELSE @])
  BY DEF Push
<1>2. CASE refused
  <2>1. PICK n : n = [s EXCEPT !.at = "body"]
    OBVIOUS
  <2>2. PICK g : g = [h EXCEPT !.dropped = TRUE, !.piece = <<>>]
    OBVIOUS
  <2>3. n = [s EXCEPT !.at = "body", !.hasSent = @ \/ h.last]
    BY <1>0, <1>2, <2>1 DEF StreamState, HttpState
  <2>4. stream' = [stream EXCEPT ![x] = n]
    BY <1>1, <1>2, <2>3 DEF Set
  <2>5. http' = [http EXCEPT ![x] = g]
    BY <1>0, <1>1, <1>2, <2>2 DEF SetHttp, None, HttpState
  <2>6. Fits(s, n, g, reader[x]) /\ Owned(s, n) /\ Closer(s, n)
    BY <1>0, <1>2, <2>1, <2>2, PushRefused
  <2> QED
    BY <1>0, <2>4, <2>5, <2>6, LiftSteady
<1>3. CASE ~refused
  <2>1. [h EXCEPT !.dropped = @ \/ FALSE, !.piece = @] = h
    BY <1>0 DEF HttpState
  <2>2. http' = http
    BY <1>0, <1>1, <1>3, <2>1 DEF SetHttp
  <2>3. stream' = [stream EXCEPT ![x] = [s EXCEPT !.at = "send", !.hasSent = @ \/ h.last]]
    BY <1>1, <1>3 DEF Set
  <2>4. CASE h.last
    <3>1. PICK n : n = [s EXCEPT !.at = "send", !.hasSent = TRUE]
      OBVIOUS
    <3>2. stream' = [stream EXCEPT ![x] = n]
      BY <2>3, <2>4, <3>1
    <3>3. Fits(s, n, h, reader[x]) /\ Owned(s, n) /\ Closer(s, n)
      BY <1>0, <1>3, <2>4, <3>1, PushLast
    <3> QED
      BY <1>0, <2>2, <3>2, <3>3, SetSteady
  <2>5. CASE ~h.last
    <3>1. PICK n : n = [s EXCEPT !.at = "send"]
      OBVIOUS
    <3>2. n = [s EXCEPT !.at = "send", !.hasSent = @ \/ h.last]
      BY <1>0, <2>5, <3>1 DEF StreamState
    <3>3. stream' = [stream EXCEPT ![x] = n]
      BY <2>3, <3>2
    <3>4. Fits(s, n, h, reader[x]) /\ Owned(s, n) /\ Closer(s, n)
      BY <1>0, <1>3, <2>5, <3>1, PushMore
    <3> QED
      BY <1>0, <2>2, <3>3, <3>4, SetSteady
  <2> QED
    BY <2>4, <2>5
<1> QED
  BY <1>2, <1>3

LEMMA SendSteady ==
  ASSUME StreamsOK, Local, NEW x \in Stream, Send(x)
  PROVE  Steady
<1> DEFINE s == stream[x]
           h == http[x]
           k == IF h.last THEN s.told + 1 ELSE s.told
<1>0. s \in StreamState /\ h \in HttpState /\ reader[x] \in ReaderState
      /\ One(s, h, reader[x]) /\ s.at = "send"
      /\ reader' = [reader EXCEPT ![x] = reader[x]]
  BY OneOf DEF Send
<1>1. k \in Nat
  BY <1>0 DEF StreamState
<1>2. PICK n : n = [s EXCEPT !.at = "body", !.told = k]
  OBVIOUS
<1>3. PICK g : g = [h EXCEPT !.sent = @ \o h.piece, !.piece = <<>>]
  OBVIOUS
<1>4. stream' = [stream EXCEPT ![x] = n] /\ http' = [http EXCEPT ![x] = g]
  BY <1>2, <1>3 DEF Send, Set, SetHttp, None
<1>5. Fits(s, n, g, reader[x]) /\ Owned(s, n) /\ Closer(s, n)
  BY <1>0, <1>1, <1>2, <1>3, SendPiece
<1> QED
  BY <1>0, <1>4, <1>5, LiftSteady

(* ... the reader of a body of unknown length ...                            *)

LEMMA ReadStreamSteady ==
  ASSUME StreamsOK, Local, NEW x \in Stream, ReadStream(x)
  PROVE  Steady
<1> DEFINE s == stream[x]
           h == http[x]
           r == reader[x]
           a == IF r.at = "none" THEN "top" ELSE r.at
<1>0. s \in StreamState /\ h \in HttpState /\ r \in ReaderState
      /\ One(s, h, r) /\ s.at = "body" /\ ~h.last /\ h.how = "stream"
      /\ http' = [http EXCEPT ![x] = h]
  BY OneOf DEF ReadStream, Reading
<1>1. a \in {"top", r.at}
  OBVIOUS
<1>2. PICK n : n = [s EXCEPT !.at = "look"]
  OBVIOUS
<1>3. PICK q : q = [r EXCEPT !.at = a, !.acc = <<>>, !.must = FALSE, !.first = TRUE]
  OBVIOUS
<1>4. stream' = [stream EXCEPT ![x] = n] /\ reader' = [reader EXCEPT ![x] = q]
  BY <1>2, <1>3 DEF ReadStream, SetReader, Move
<1>5. Fits(s, n, h, q) /\ Owned(s, n) /\ Closer(s, n)
  <2> HIDE DEF a
  <2> QED
    BY <1>0, <1>1, <1>2, <1>3, ReadStreamKeeps
<1> QED
  BY <1>0, <1>4, <1>5, LiftSteady

LEMMA HeadOf ==
  ASSUME NEW q \in Seq(Body), NEW p \in Seq(Body), NEW k \in 0..Len(p)
  PROVE  SubSeq(q \o p, 1, Len(q) + k) = q \o SubSeq(p, 1, k)
<1> DEFINE a == SubSeq(p, 1, k)
           b == SubSeq(q \o p, 1, Len(q) + k)
           c == q \o a
<1>1. Len(q) \in Nat /\ Len(p) \in Nat /\ k \in Nat
  BY LenProperties
<1>2. /\ q \o p \in Seq(Body) /\ Len(q \o p) = Len(q) + Len(p)
      /\ \A i \in 1..(Len(q) + Len(p)) : (q \o p)[i] = IF i <= Len(q) THEN q[i] ELSE p[i - Len(q)]
  BY ConcatProperties
<1>3. a \in Seq(Body) /\ Len(a) = k /\ \A i \in 1..k : a[i] = p[i]
  <2>1. \A j \in 1..k : p[j] \in Body
    BY <1>1
  <2> QED
    BY <1>1, <2>1, SubSeqProperties
<1>4. b \in Seq(Body) /\ Len(b) = Len(q) + k /\ \A i \in 1..(Len(q) + k) : b[i] = (q \o p)[i]
  <2>1. Len(q) + k \in 0..Len(q \o p)
    BY <1>1, <1>2
  <2>2. \A j \in 1..(Len(q) + k) : (q \o p)[j] \in Body
    BY <1>1, <1>2
  <2> QED
    BY <1>1, <1>2, <2>1, <2>2, SubSeqProperties
<1> HIDE DEF a, b
<1>5. /\ c \in Seq(Body) /\ Len(c) = Len(q) + k
      /\ \A i \in 1..(Len(q) + k) : c[i] = IF i <= Len(q) THEN q[i] ELSE a[i - Len(q)]
  BY <1>3, ConcatProperties
<1> HIDE DEF c
<1>6. \A i \in 1..(Len(q) + k) : b[i] = c[i]
  <2> TAKE i \in 1..(Len(q) + k)
  <2>1. b[i] = IF i <= Len(q) THEN q[i] ELSE p[i - Len(q)]
    <3>1. i \in 1..(Len(q) + Len(p))
      BY <1>1
    <3> QED
      BY <1>2, <1>4, <3>1
  <2>2. i > Len(q) => i - Len(q) \in 1..k
    BY <1>1
  <2>3. i > Len(q) => a[i - Len(q)] = p[i - Len(q)]
    BY <1>3, <2>2
  <2> QED
    BY <1>1, <1>5, <2>1, <2>3
<1>7. b = c
  BY <1>4, <1>5, <1>6, SeqEqual
<1> QED
  BY <1>7 DEF a, b, c

(* The chunks that fit, with those of the read so far, may be returned.      *)
LEMMA TakenFits ==
  ASSUME NEW a \in Seq(Body), NEW l \in Seq(Body), NEW k,
         Len(FlattenSeq(a)) <= MaxReturn,
         \/ k = Len(l) /\ Len(FlattenSeq(a)) + Len(FlattenSeq(l)) < MaxReturn
         \/ k = Fitting(a \o l) - Len(a)
  PROVE  /\ k \in 0..Len(l) /\ Len(FlattenSeq(a \o SubSeq(l, 1, k))) <= MaxReturn
         /\ a = <<>> /\ l # <<>> /\ (\A i \in DOMAIN l : Len(l[i]) <= MaxReturn) => k # 0
<1> DEFINE both == a \o l
           m == Len(a)
           n == Len(l)
<1>1. m \in Nat /\ n \in Nat /\ MaxReturn \in Nat
  BY LenProperties, ProxyAssumption
<1>2. both \in Seq(Body) /\ Len(both) = m + n
  BY ConcatProperties
<1>3. CASE k = n /\ Len(FlattenSeq(a)) + Len(FlattenSeq(l)) < MaxReturn
  <2>1. SubSeq(l, 1, n) = l
    BY SubSeqFull
  <2>2. FlattenSeq(both) = FlattenSeq(a) \o FlattenSeq(l)
    BY FlatConcat
  <2>3. FlattenSeq(a) \in Body /\ FlattenSeq(l) \in Body
    BY FlatType
  <2>4. Len(FlattenSeq(both)) = Len(FlattenSeq(a)) + Len(FlattenSeq(l))
    BY <2>2, <2>3, ConcatProperties DEF Body
  <2>5. k \in 0..n /\ SubSeq(l, 1, k) = l
    BY <1>1, <1>3, <2>1
  <2>7. l # <<>> => k # 0
    BY <1>3, EmptySeq
  <2>6. Len(FlattenSeq(both)) <= MaxReturn
    <3>1. Len(FlattenSeq(a)) \in Nat /\ Len(FlattenSeq(l)) \in Nat
      BY <2>3, LenProperties DEF Body
    <3> HIDE DEF both
    <3> QED
      BY <1>1, <1>3, <2>4, <3>1
  <2> QED
    BY <2>5, <2>6, <2>7
<1>4. CASE k = Fitting(both) - m
  <2> DEFINE f == Fitting(both)
  <2>1. SubSeq(both, 1, m + 0) = a \o SubSeq(l, 1, 0)
    <3>1. 0 \in 0..n
      BY <1>1
    <3> QED
      BY <3>1, HeadOf
  <2>2. SubSeq(l, 1, 0) = <<>> /\ a \o <<>> = a
    BY SubSeqEmpty, ConcatEmptySeq
  <2>3. SubSeq(both, 1, m) = a
    <3>1. m + 0 = m
      BY <1>1
    <3> HIDE DEF both, m
    <3> QED
      BY <2>1, <2>2, <3>1
  <2>8. ASSUME a = <<>>, l # <<>>, \A i \in DOMAIN l : Len(l[i]) <= MaxReturn
        PROVE  /\ both = l /\ 1 \in 0..Len(both)
               /\ Len(FlattenSeq(SubSeq(both, 1, 1))) <= MaxReturn
    <3>1. both = l
      BY <2>8, ConcatEmptySeq
    <3>2. Len(l) \in Nat /\ Len(l) # 0
      BY <2>8, EmptySeq
    <3>3. 1 \in 1..Len(l) /\ l[1] \in Body /\ Len(l[1]) <= MaxReturn
      BY <2>8, <3>2
    <3>4. SubSeq(l, 1, 1) = Append(<<>>, l[1]) /\ <<>> \in Seq(Body)
      <4>1. SubSeq(l, 1, 1) = SubSeq(l, 1, 1 - 1) \o <<l[1]>>
        BY <3>3, SubSeqRecursiveSecond
      <4>2. SubSeq(l, 1, 1 - 1) = <<>>
        BY SubSeqEmpty
      <4>3. Append(<<>>, l[1]) = <<>> \o <<l[1]>>
        BY <3>3, EmptyBody, AppendIsConcat
      <4> QED
        BY <4>1, <4>2, <4>3, EmptyBody
    <3>6. FlattenSeq(SubSeq(l, 1, 1)) = <<>> \o l[1]
      BY <3>3, <3>4, FlatAppend, FlatEmpty
    <3>7. <<>> \o l[1] = l[1]
      BY <3>3, ConcatEmptySeq DEF Body
    <3> HIDE DEF both
    <3> QED
      BY <3>1, <3>2, <3>3, <3>6, <3>7
  <2> HIDE DEF both, m, n
  <2>4. m \in 0..Len(both) /\ Len(FlattenSeq(SubSeq(both, 1, m))) <= MaxReturn
    <3>1. m \in 0..Len(both)
      BY <1>1, <1>2
    <3> QED
      BY <2>3, <3>1
  <2>5. f \in m..Len(both) /\ Len(FlattenSeq(SubSeq(both, 1, f))) <= MaxReturn
    BY <1>2, <2>4, FittingIs
  <2>9. a = <<>> /\ l # <<>> /\ (\A i \in DOMAIN l : Len(l[i]) <= MaxReturn) => f >= 1 /\ m = 0
    <3> SUFFICES ASSUME a = <<>>, l # <<>>, \A i \in DOMAIN l : Len(l[i]) <= MaxReturn
                 PROVE  f >= 1 /\ m = 0
      OBVIOUS
    <3>1. 1 \in 0..Len(both) /\ Len(FlattenSeq(SubSeq(both, 1, 1))) <= MaxReturn
      BY <2>8
    <3>2. f \in 1..Len(both)
      BY <1>2, <3>1, FittingIs
    <3> QED
      BY <3>2, EmptySeq DEF m
  <2> HIDE DEF f
  <2>10. a = <<>> /\ l # <<>> /\ (\A i \in DOMAIN l : Len(l[i]) <= MaxReturn) => k # 0
    <3>1. k = f - m
      BY <1>4 DEF f
    <3> QED
      BY <1>1, <1>2, <2>5, <2>9, <3>1
  <2>6. k \in 0..n /\ f = m + k
    <3>1. k = f - m
      BY <1>4 DEF f
    <3> QED
      BY <1>1, <1>2, <2>5, <3>1
  <2>7. SubSeq(both, 1, m + k) = a \o SubSeq(l, 1, k)
    BY <2>6, HeadOf DEF both, m, n
  <2> QED
    BY <2>5, <2>6, <2>7, <2>10 DEF n
<1> QED
  BY <1>3, <1>4

LEMMA LookSteady ==
  ASSUME StreamsOK, Local, NEW x \in Stream, Look(x)
  PROVE  Steady
<1> DEFINE s == stream[x]
           h == http[x]
           r == reader[x]
           all == Len(FlattenSeq(r.acc)) + Len(FlattenSeq(r.list)) < MaxReturn
           k == IF all THEN Len(r.list) ELSE Fitting(r.acc \o r.list) - Len(r.acc)
<1>0. s \in StreamState /\ h \in HttpState /\ r \in ReaderState
      /\ One(s, h, r) /\ s.at = "look" /\ Move(x, "decide") /\ UNCHANGED http
      /\ http' = [http EXCEPT ![x] = h]
  BY OneOf DEF Look
<1>1. CASE (r.closed \/ r.list = <<>>) /\ SetReader(x, [r EXCEPT !.late = FALSE])
  <2>1. PICK n : n = [s EXCEPT !.at = "decide"]
    OBVIOUS
  <2>2. PICK q : q = [r EXCEPT !.late = FALSE]
    OBVIOUS
  <2>3. stream' = [stream EXCEPT ![x] = n] /\ reader' = [reader EXCEPT ![x] = q]
    BY <1>0, <1>1, <2>1, <2>2 DEF Move, SetReader
  <2>4. Fits(s, n, h, q) /\ Owned(s, n) /\ Closer(s, n)
    <3> HIDE DEF s, h, r
    <3> QED
      BY <1>0, <1>1, <2>1, <2>2, NothingKeeps
  <2> QED
    BY <1>0, <2>3, <2>4, LiftSteady
<1>2. CASE r.list # <<>> /\ SetReader(x, [r EXCEPT !.acc = @ \o SubSeq(r.list, 1, k),
                             !.list = SubSeq(r.list, k + 1, Len(r.list)),
                             !.must = ~all, !.ready = FALSE, !.late = FALSE])
  <2> DEFINE b == ~all
  <2>1. Len(FlattenSeq(r.acc)) <= MaxReturn /\ \A i \in DOMAIN r.list : Len(r.list[i]) <= MaxReturn
    BY <1>0 DEF One, Flow, Ending
  <2>2. k \in 0..Len(r.list) /\ Len(FlattenSeq(r.acc \o SubSeq(r.list, 1, k))) <= MaxReturn
        /\ (k # 0 \/ r.acc # <<>>)
    <3>1. \/ k = Len(r.list) /\ Len(FlattenSeq(r.acc)) + Len(FlattenSeq(r.list)) < MaxReturn
          \/ k = Fitting(r.acc \o r.list) - Len(r.acc)
      OBVIOUS
    <3>2. r.acc \in Seq(Body) /\ r.list \in Seq(Body)
      BY <1>0 DEF ReaderState
    <3> HIDE DEF k
    <3> QED
      BY <1>2, <2>1, <3>1, <3>2, TakenFits
  <2>3. b \in BOOLEAN
    OBVIOUS
  <2>4. PICK n : n = [s EXCEPT !.at = "decide"]
    OBVIOUS
  <2> HIDE DEF k
  <2>5. PICK q : q = [r EXCEPT !.acc = @ \o SubSeq(r.list, 1, k),
                         !.list = SubSeq(r.list, k + 1, Len(r.list)), !.must = b, !.ready = FALSE,
                         !.late = FALSE]
    OBVIOUS
  <2>6. stream' = [stream EXCEPT ![x] = n] /\ reader' = [reader EXCEPT ![x] = q]
    BY <1>0, <1>2, <2>4, <2>5 DEF Move, SetReader
  <2>7. Fits(s, n, h, q) /\ Owned(s, n) /\ Closer(s, n)
    <3> HIDE DEF b, s, h, r
    <3> QED
      BY <1>0, <2>2, <2>3, <2>4, <2>5, TakeKeeps
  <2> QED
    BY <1>0, <2>6, <2>7, LiftSteady
<1> QED
  BY <1>1, <1>2 DEF Look, Pending

LEMMA DecideSteady ==
  ASSUME StreamsOK, Local, NEW x \in Stream, Decide(x)
  PROVE  Steady
<1> DEFINE s == stream[x]
           h == http[x]
           r == reader[x]
           some == r.acc # <<>>
<1>0. s \in StreamState /\ h \in HttpState /\ r \in ReaderState
      /\ One(s, h, r) /\ s.at = "decide" /\ http = [http EXCEPT ![x] = h]
  BY OneOf DEF Decide
<1>1. CASE Returns(x, h, FlattenSeq(r.acc), ~some) /\ SetReader(x, [r EXCEPT !.acc = <<>>])
  <2> DEFINE p == FlattenSeq(r.acc)
             k == h.read + Len(p)
             b == ~some \/ (h.length # NoLength /\ k >= h.length)
  <2>1. k \in Nat /\ b \in BOOLEAN /\ (b => r.acc = <<>>)
    <3>3. h.length = NoLength
      BY <1>0 DEF One, Flow, Ending
    <3>1. p \in Body
      BY <1>0, FlatType DEF ReaderState
    <3>2. Len(p) \in Nat /\ h.read \in Nat
      BY <1>0, <3>1, LenProperties DEF Body, HttpState
    <3> QED
      BY <3>2, <3>3
  <2>2. PICK n : n = [s EXCEPT !.at = "post"]
    OBVIOUS
  <2>3. PICK g : g = [h EXCEPT !.piece = p, !.read = k, !.last = b]
    OBVIOUS
  <2>4. PICK q : q = [r EXCEPT !.acc = <<>>]
    OBVIOUS
  <2>5. /\ stream' = [stream EXCEPT ![x] = n] /\ http' = [http EXCEPT ![x] = g]
        /\ reader' = [reader EXCEPT ![x] = q]
    BY <1>1, <2>2, <2>3, <2>4 DEF Returns, Move, SetHttp, SetReader
  <2>6. Fits(s, n, g, q) /\ Owned(s, n) /\ Closer(s, n)
    <3> HIDE DEF k, b, s, h, r
    <3> QED
      BY <1>0, <2>1, <2>2, <2>3, <2>4, ReturnKeeps
  <2> QED
    BY <1>0, <2>5, <2>6, LiftSteady
<1>2. CASE SetReader(x, [r EXCEPT !.first = FALSE]) /\ Move(x, IF some THEN "look" ELSE "wait")
           /\ UNCHANGED http
  <2> DEFINE to == IF some THEN "look" ELSE "wait"
  <2>1. to \in {"look", "wait"}
    OBVIOUS
  <2> HIDE DEF to
  <2>2. PICK n : n = [s EXCEPT !.at = to]
    OBVIOUS
  <2>3. PICK q : q = [r EXCEPT !.first = FALSE]
    OBVIOUS
  <2>4. /\ stream' = [stream EXCEPT ![x] = n] /\ http' = [http EXCEPT ![x] = h]
        /\ reader' = [reader EXCEPT ![x] = q]
    BY <1>0, <1>2, <2>2, <2>3 DEF Move, SetReader, to
  <2>5. Fits(s, n, h, q) /\ Owned(s, n) /\ Closer(s, n)
    BY <1>0, <2>1, <2>2, <2>3, WaitKeeps
  <2> QED
    BY <1>0, <2>4, <2>5, LiftSteady
<1> QED
  BY <1>1, <1>2 DEF Decide

LEMMA WaitSteady ==
  ASSUME StreamsOK, Local, NEW x \in Stream, Wait(x)
  PROVE  Steady
<1>1. "look" \in At /\ UNCHANGED <<http, reader>> /\ stream[x].at = "wait" /\ Move(x, "look")
  BY DEF At, Wait, httpVars
<1> QED
  BY <1>1, MoveSteady

(* The thread of the reader, when it is the reader alone that changes.       *)
LEMMA ReaderSteady ==
  ASSUME StreamsOK, Local, NEW x \in Stream, UNCHANGED <<stream, http>>,
         reader[x].at # "none",
         NEW q \in ReaderState, q.at # "none", q.acc = reader[x].acc, q.list = reader[x].list,
         q.late = reader[x].late, q.closed => reader[x].closed \/ stream[x].closed,
         reader' = [reader EXCEPT ![x] = q]
  PROVE  Steady
<1> DEFINE s == stream[x]
<1>1. s \in StreamState /\ http[x] \in HttpState /\ reader[x] \in ReaderState /\ One(s, http[x], reader[x])
      /\ stream' = [stream EXCEPT ![x] = s] /\ http' = [http EXCEPT ![x] = http[x]]
  BY OneOf
<1>2. Fits(s, s, http[x], q)
  BY <1>1, ReaderKeeps
<1>3. Owned(s, s) /\ Closer(s, s)
  BY DEF Owned, Closer
<1> QED
  BY <1>1, <1>2, <1>3, LiftSteady

LEMMA ReaderGoesOn ==
  ASSUME StreamsOK, Local, NEW x \in Stream, UNCHANGED <<stream, http>>,
         reader[x].at # "none", NEW a \in {"top", "reading", "held", "final", "done"},
         SetReader(x, [reader[x] EXCEPT !.at = a])
  PROVE  Steady
<1>1. PICK q : q = [reader[x] EXCEPT !.at = a]
  OBVIOUS
<1>2. reader[x] \in ReaderState
  BY OneOf
<1>3. q \in ReaderState /\ q.at # "none" /\ q.acc = reader[x].acc /\ q.list = reader[x].list
      /\ q.late = reader[x].late /\ q.closed = reader[x].closed
  BY <1>1, <1>2 DEF ReaderState
<1>4. reader' = [reader EXCEPT ![x] = q]
  BY <1>1 DEF SetReader
<1> QED
  BY <1>3, <1>4, ReaderSteady

LEMMA ReaderThreadSteady ==
  ASSUME StreamsOK, Local, NEW x \in Stream,
         ReaderTop(x) \/ HoldBack(x) \/ ReadEnds(x) \/ ReaderFinal(x)
  PROVE  Steady
<1> DEFINE r == reader[x]
<1>1. r \in ReaderState /\ r.at # "none" /\ UNCHANGED <<stream, http>>
  BY OneOf DEF ReaderTop, HoldBack, ReadEnds, ReaderFinal, streamVars
<1>2. CASE ReaderTop(x)
  <2> DEFINE a == IF r.closed THEN "final" ELSE "reading"
  <2>1. a \in {"top", "reading", "held", "final", "done"} /\ SetReader(x, [r EXCEPT !.at = a])
    BY <1>2 DEF ReaderTop
  <2> HIDE DEF a
  <2> QED
    BY <1>1, <2>1, ReaderGoesOn
<1>3. CASE HoldBack(x)
  BY <1>1, <1>3, ReaderGoesOn DEF HoldBack
<1>4. CASE ReadEnds(x)
  BY <1>1, <1>4, ReaderGoesOn DEF ReadEnds
<1>5. CASE ReaderFinal(x)
  <2>1. PICK q : q = [r EXCEPT !.complete = TRUE, !.ready = TRUE, !.at = "done"]
    OBVIOUS
  <2>2. q \in ReaderState /\ q.at # "none" /\ q.acc = r.acc /\ q.list = r.list
        /\ q.late = r.late /\ q.closed = r.closed
    BY <1>1, <2>1 DEF ReaderState
  <2>3. reader' = [reader EXCEPT ![x] = q]
    BY <1>5, <2>1 DEF ReaderFinal, SetReader
  <2> QED
    BY <1>1, <2>2, <2>3, ReaderSteady
<1> QED
  BY <1>2, <1>3, <1>4, <1>5

LEMMA ChunkSteady ==
  ASSUME StreamsOK, Local, NEW x \in Stream, ReadChunk(x)
  PROVE  Steady
<1> DEFINE s == stream[x]
           h == http[x]
           r == reader[x]
<1>0. /\ s \in StreamState /\ h \in HttpState /\ r \in ReaderState /\ One(s, h, r)
      /\ r.at = "reading" /\ stream' = [stream EXCEPT ![x] = s]
  BY OneOf DEF ReadChunk, streamVars
<1>1. PICK k \in 1..Left(x) :
          /\ k <= MaxReturn
          /\ SetHttp(x, [h EXCEPT !.made = @ + k])
          /\ SetReader(x, [r EXCEPT !.list = Append(@, Units(h.made, k)), !.ready = TRUE,
                !.late = TRUE, !.at = IF ~r.closed /\ Pending(x) + k > MaxPending THEN "held" ELSE "top"])
  BY DEF ReadChunk
<1> DEFINE a == IF ~r.closed /\ Pending(x) + k > MaxPending THEN "held" ELSE "top"
<1>2. k \in 0..MaxReturn /\ a \in {"top", "held"}
  <2>1. k \in Nat
    BY LeftIs
  <2> QED
    BY <1>1, <2>1, ProxyAssumption
<1> HIDE DEF a
<1>3. PICK g : g = [h EXCEPT !.made = @ + k]
  OBVIOUS
<1>4. PICK q : q = [r EXCEPT !.list = Append(@, Units(h.made, k)), !.ready = TRUE, !.late = TRUE, !.at = a]
  OBVIOUS
<1>5. http' = [http EXCEPT ![x] = g] /\ reader' = [reader EXCEPT ![x] = q]
  BY <1>1, <1>3, <1>4 DEF SetHttp, SetReader, a
<1>6. Fits(s, s, g, q)
  <2> HIDE DEF s, h, r
  <2> QED
    BY <1>0, <1>2, <1>3, <1>4, ChunkKeeps
<1>7. Owned(s, s) /\ Closer(s, s)
  BY DEF Owned, Closer
<1> QED
  BY <1>0, <1>5, <1>6, <1>7, LiftSteady

(* ... and the end of the helper.                                            *)

LEMMA ShutSteady ==
  ASSUME StreamsOK, Local, NEW x \in Stream, ShutHttp(x)
  PROVE  Steady
<1> DEFINE s == stream[x]
           h == http[x]
           r == reader[x]
<1>0. /\ s \in StreamState /\ h \in HttpState /\ r \in ReaderState /\ One(s, h, r)
      /\ s.captured /\ UNCHANGED http
      /\ http' = [http EXCEPT ![x] = h] /\ reader = [reader EXCEPT ![x] = r]
  BY OneOf DEF ShutHttp
<1>1. CASE /\ s.closing = "helper"
           /\ Set(x, [s EXCEPT !.shut = TRUE, !.closing = "reader"]) /\ UNCHANGED reader
  <2>1. PICK n : n = [s EXCEPT !.shut = TRUE, !.closing = "reader"]
    OBVIOUS
  <2>2. Fits(s, n, h, r) /\ Owned(s, n) /\ Closer(s, n)
    BY <1>0, <1>1, <2>1, ShutKeeps
  <2> QED
    BY <1>0, <1>1, <2>1, <2>2, SetSteady DEF Set
<1>2. CASE /\ s.closing = "reader" /\ Set(x, [s EXCEPT !.closing = "done"])
           /\ IF r.at = "none" \/ r.closed THEN UNCHANGED reader
              ELSE SetReader(x, [r EXCEPT !.closed = TRUE, !.complete = TRUE, !.ready = TRUE])
  <2>1. PICK n : n = [s EXCEPT !.closing = "done"]
    OBVIOUS
  <2>2. Fits(s, n, h, r) /\ Owned(s, n) /\ Closer(s, n)
    BY <1>0, <1>2, <2>1, PassKeeps
  <2>3. stream' = [stream EXCEPT ![x] = n]
    BY <1>2, <2>1 DEF Set
  <2>4. CASE UNCHANGED reader
    BY <1>0, <2>2, <2>3, <2>4, SetSteady
  <2>5. CASE r.at # "none" /\ SetReader(x, [r EXCEPT !.closed = TRUE, !.complete = TRUE, !.ready = TRUE])
    <3>1. PICK q : q = [r EXCEPT !.closed = TRUE, !.complete = TRUE, !.ready = TRUE]
      OBVIOUS
    <3>2. q \in ReaderState /\ q.at # "none" /\ q.acc = r.acc /\ q.list = r.list /\ q.late = r.late
      BY <1>0, <2>5, <3>1 DEF ReaderState
    <3>3. n.closed
      BY <1>0, <1>2, <2>1 DEF One, Life, StreamState
    <3>4. reader' = [reader EXCEPT ![x] = q]
      BY <2>5, <3>1 DEF SetReader
    <3>5. n \in StreamState /\ One(n, h, r)
      BY <2>2 DEF Fits
    <3>6. Fits(n, n, h, q)
      BY <1>0, <2>5, <3>2, <3>3, <3>5, ReaderKeeps
    <3>7. Fits(s, n, h, q)
      BY <2>2, <3>6 DEF Fits
    <3> QED
      BY <1>0, <2>2, <2>3, <3>4, <3>7, LiftSteady
  <2> QED
    BY <1>2, <2>4, <2>5
<1> QED
  BY <1>1, <1>2 DEF ShutHttp

LEMMA DiscardSteady ==
  ASSUME StreamsOK, Local, NEW x \in Stream, stream[x].at = "discard",
         Set(x, [stream[x] EXCEPT !.shut = TRUE, !.at = "feed"]), UNCHANGED <<http, reader>>
  PROVE  Steady
<1> DEFINE s == stream[x]
<1>0. s \in StreamState /\ http[x] \in HttpState /\ reader[x] \in ReaderState
      /\ One(s, http[x], reader[x])
  BY OneOf
<1>1. PICK n : n = [s EXCEPT !.shut = TRUE, !.at = "feed"]
  OBVIOUS
<1>2. Fits(s, n, http[x], reader[x]) /\ Owned(s, n) /\ Closer(s, n)
  BY <1>0, <1>1, DiscardKeeps
<1> QED
  BY <1>1, <1>2, SetSteady DEF Set

LEMMA HttpSteady ==
  ASSUME StreamsOK, Local, HttpNext
  PROVE  Steady
<1>1. PICK x \in Stream :
          \/ Upload(x) \/ Trim(x) \/ Execute(x) \/ BodyDone(x)
          \/ ReadNothing(x) \/ ReadFull(x) \/ ReadPlain(x) \/ ReadPart(x) \/ ReadStream(x)
          \/ Post(x) \/ Push(x) \/ Send(x)
          \/ Look(x) \/ Decide(x) \/ Wait(x)
          \/ ReaderTop(x) \/ ReadChunk(x) \/ HoldBack(x) \/ ReadEnds(x) \/ ReaderFinal(x)
          \/ ShutHttp(x) \/ DiscardHttp(x)
  BY DEF HttpNext
<1>2. CASE DiscardHttp(x)
  BY <1>2, DiscardSteady DEF DiscardHttp, httpVars
<1> QED
  BY <1>1, <1>2, UploadSteady, TrimSteady, ExecuteSteady, PostSteady, ReadSteady, ReadStreamSteady,
     PushSteady, SendSteady, LookSteady, DecideSteady, WaitSteady, ReaderThreadSteady, ChunkSteady,
     ShutSteady

(* The websocket: as far as it changes its stream.                           *)
LEMMA WsSteady ==
  ASSUME StreamsOK, Local, WsNext
  PROVE  Steady
<1>1. W \in Stream /\ UNCHANGED <<http, reader>>
  BY SocketAssumption DEF WsNext, Refuse, Refused, FirstAttempt, OnWsError, Drop, Dial, ErrorCloses, Settle,
     OnWsOpened, WsEnds, OnWsClosed, OnWsDataFails, Pass, ShutWs, DiscardWs, CloseWorker, httpVars
<1> DEFINE s == stream[W]
<1>0. s \in StreamState /\ http[W] \in HttpState /\ reader[W] \in ReaderState
      /\ One(s, http[W], reader[W])
  BY <1>1, OneOf
<1>2. CASE UNCHANGED stream
  BY <1>1, <1>2, Unchanged
<1>3. CASE Refuse \/ Refused \/ FirstAttempt
  <2>1. "refused" \in At /\ "attach" \in At
    BY DEF At
  <2>2. \/ s.at = "make" /\ (Move(W, "refused") \/ Move(W, "attach"))
        \/ s.at = "refused" /\ Move(W, "attach")
    BY <1>3 DEF Refuse, Refused, FirstAttempt
  <2> QED
    BY <1>1, <2>1, <2>2, MoveSteady
<1>4. CASE stream' = [stream EXCEPT ![W].failed = TRUE]
  <2>1. PICK n : n = [s EXCEPT !.failed = TRUE]
    OBVIOUS
  <2>2. Fits(s, n, http[W], reader[W]) /\ Owned(s, n) /\ Closer(s, n)
    BY <1>0, <2>1, FailedKeeps
  <2> QED
    BY <1>1, <1>4, <2>1, <2>2, SetSteady
<1>5. CASE Pass
  <2>1. "finish" \in At /\ "get" \in At
    BY DEF At
  <2>2. s.at = "pass" /\ (Move(W, "finish") \/ Move(W, "get"))
    BY <1>5, MoreIs DEF Pass
  <2> QED
    BY <1>1, <2>1, <2>2, MoveSteady
<1>6. CASE ShutWs
  <2>1. PICK n : n = [s EXCEPT !.shut = TRUE, !.closing = "done"]
    OBVIOUS
  <2>2. s.closing = "helper" /\ s.captured /\ stream' = [stream EXCEPT ![W] = n]
    BY <1>6, <2>1 DEF ShutWs, Set
  <2>3. Fits(s, n, http[W], reader[W]) /\ Owned(s, n) /\ Closer(s, n)
    BY <1>0, <2>1, <2>2, ShutKeeps
  <2> QED
    BY <1>1, <2>2, <2>3, SetSteady
<1>7. CASE DiscardWs
  BY <1>1, <1>7, DiscardSteady DEF DiscardWs
<1> QED
  BY <1>2, <1>3, <1>4, <1>5, <1>6, <1>7 DEF WsNext, OnWsError, Drop, Dial, ErrorCloses, Settle,
     OnWsOpened, WsEnds, OnWsClosed, OnWsDataFails, CloseWorker, streamVars

(***************************************************************************)
(* The types of the connection.                                            *)
(***************************************************************************)

LEMMA Threads ==
  /\ Loop \in Thread /\ Timer \in Thread /\ Pinger \in Thread
  /\ Loop # Timer /\ Loop # Pinger
  /\ \A x \in Stream : Worker(x) \in Thread /\ Worker(x) # Loop
  /\ \A a \in Attempt :
        /\ Socket(a) \in Thread /\ Socket(a) # Loop /\ Socket(a) # Timer /\ Socket(a) # Pinger
        /\ \A x \in Stream : Socket(a) # Worker(x)
        /\ \A b \in Attempt : Socket(a) = Socket(b) => a = b
BY DEF Thread, Loop, Timer, Pinger, Worker, Socket, Attempt

(* A thread turns to something else.                                         *)
LEMMA JobType ==
  ASSUME ConTypeOK, NEW t \in Thread, NEW j \in Job, Become(t, j),
         UNCHANGED <<loop, active, disconnecting, connecting, blocked, endpoint, noWait, backoff, ws, sock,
                     errors, session, accepting, aged, todo, secondary>>
  PROVE  ConTypeOK'
BY DEF ConTypeOK, Become

LEMMA CallCloseType ==
  ASSUME ConTypeOK, NEW t \in Thread, NEW x \in Stream, CallClose(t, x)
  PROVE  ConTypeOK'
BY DEF ConTypeOK, CallClose, Become, Job

LEMMA CheckType ==
  ASSUME ConTypeOK, NEW t \in Thread, NEW mine, CheckSession(t, mine)
  PROVE  ConTypeOK'
<1> DEFINE j == IF mine = active THEN "flag" ELSE "none"
<1>1. j \in Job /\ Become(t, j)
  BY DEF CheckSession, Job
<1> HIDE DEF j
<1> QED
  BY <1>1, JobType DEF CheckSession

LEMMA LoopType ==
  ASSUME ConTypeOK, Reset \/ Opened \/ NewSession \/ Ends \/ OnError \/ CleanUp \/ CleanedUp
                    \/ RunForComplete \/ Rest \/ NewClient(best)
  PROVE  ConTypeOK'
<1>0. Loop \in Thread /\ MaxSessions \in Nat \ {0} /\ \A n \in Noise : n \in Nat
  BY Threads, ConAssumption
<1>1. CASE Reset
  BY <1>0, <1>1 DEF ConTypeOK, Reset, Place
<1>2. CASE Opened
  BY <1>0, <1>2 DEF ConTypeOK, Opened, Place
<1>3. CASE NewSession
  <2>1. session' \in 0..active' /\ active' = active
    BY <1>3 DEF ConTypeOK, NewSession
  <2>2. accepting' \in [Session -> BOOLEAN]
    BY <1>3 DEF ConTypeOK, NewSession
  <2>3. job' \in [Thread -> Job]
    <3>1. PICK j \in {"none", "check"} : job' = [job EXCEPT ![Loop] = j]
      BY <1>3 DEF NewSession, Become
    <3>2. j \in Job
      BY DEF Job
    <3> QED
      BY <1>0, <3>1, <3>2 DEF ConTypeOK
  <2>4. loop' = "run" /\ loop' \in Place /\ active # 0
    BY <1>3 DEF ConTypeOK, NewSession, Place
  <2> QED
    BY <1>3, <2>1, <2>2, <2>3, <2>4 DEF ConTypeOK, NewSession
<1>4. CASE Ends
  <2>1. ws \in Session /\ ws = active
    BY <1>0, <1>4 DEF ConTypeOK, Ends, Session
  <2>2. errors' \subseteq Session /\ sock' \in [Session -> {"new", "open", "gone", "shut"}]
    BY <1>4, <2>1 DEF ConTypeOK, Ends
  <2> QED
    BY <1>4, <2>2 DEF ConTypeOK, Ends
<1>5. CASE OnError
  BY <1>5 DEF ConTypeOK, OnError
<1>6. CASE CleanUp
  BY <1>0, <1>6 DEF ConTypeOK, CleanUp, Become, Place, Job
<1>7. CASE CleanedUp
  BY <1>7 DEF ConTypeOK, CleanedUp, Place
<1>8. CASE RunForComplete
  BY <1>8 DEF ConTypeOK, RunForComplete, Place
<1>9. CASE Rest
  <2>1. PICK n \in Noise :
          LET doubled == (backoff + n) * 2 IN
          IF doubled > MaxBackoff
          THEN backoff' = MaxBackoff /\ loop' = "returned"
          ELSE backoff' = doubled /\ loop' = "begin"
    BY <1>9 DEF Rest
  <2>2. backoff' \in Nat /\ loop' \in {"returned", "begin"}
    BY <1>0, <2>1 DEF ConTypeOK, MaxBackoff
  <2> QED
    BY <1>9, <2>2 DEF ConTypeOK, Rest, Place
<1>10. CASE NewClient(best)
  <2>1. active' \in 0..MaxSessions /\ session' \in 0..active' /\ active' # 0
    BY <1>0, <1>10 DEF ConTypeOK, NewClient
  <2> QED
    BY <1>10, <2>1 DEF ConTypeOK, NewClient, Place
<1> QED
  BY <1>1, <1>2, <1>3, <1>4, <1>5, <1>6, <1>7, <1>8, <1>9, <1>10

LEMMA ConType ==
  ASSUME ConTypeOK, ConNext
  PROVE  ConTypeOK'
<1>0. Loop \in Thread /\ Timer \in Thread /\ {"flag", "shut", "all", "none"} \subseteq Job
  BY Threads DEF Job
<1>1. CASE Age
  BY <1>1 DEF ConTypeOK, Age
<1>2. CASE OnRunForTimer
  BY <1>0, <1>2, JobType DEF OnRunForTimer
<1>3. ASSUME NEW t \in Thread, Disconnect(t)
      PROVE  ConTypeOK'
  <2> DEFINE j == IF disconnecting \/ session = 0 THEN "shut" ELSE "all"
  <2>1. j \in Job /\ job' = [job EXCEPT ![t] = j]
    BY <1>0, <1>3 DEF Disconnect, Become
  <2> HIDE DEF j
  <2>2. job' \in [Thread -> Job]
    BY <2>1 DEF ConTypeOK
  <2> QED
    BY <1>3, <2>2 DEF ConTypeOK, Disconnect
<1>4. ASSUME NEW t \in Thread, Shut(t)
      PROVE  ConTypeOK'
  <2>1. job' \in [Thread -> Job] /\ sock' \in [Session -> {"new", "open", "gone", "shut"}]
    BY <1>0, <1>4 DEF ConTypeOK, Shut, Become
  <2> QED
    BY <1>4, <2>1 DEF ConTypeOK, Shut
<1>5. CASE OnHandshakeComplete
  BY <1>5 DEF ConTypeOK, OnHandshakeComplete, DefaultBackoff
<1>6. CASE OnRefused
  <2>1. backoff' \in Nat
    BY <1>6, ConAssumption DEF ConTypeOK, OnRefused
  <2>2. job' \in [Thread -> Job]
    BY <1>0, <1>6 DEF ConTypeOK, OnRefused, Become
  <2> QED
    BY <1>6, <2>1, <2>2 DEF ConTypeOK, OnRefused
<1>7. ASSUME NEW url \in Url, OnSummonRequest(url) \/ SecondaryEnds(url)
      PROVE  ConTypeOK'
  BY <1>7 DEF ConTypeOK, OnSummonRequest, SecondaryEnds
<1> QED
  BY <1>1, <1>2, <1>3, <1>4, <1>5, <1>6, <1>7, LoopType DEF ConNext

LEMMA CloserType ==
  ASSUME ConTypeOK, NEW t \in Thread,
         CloseAll(t) \/ CloseDone(t) \/ \E x \in Stream : CloseEnter(t, x)
  PROVE  ConTypeOK'
<1>1. CASE CloseAll(t)
  <2>1. job' \in [Thread -> Job]
    BY <1>1 DEF ConTypeOK, CloseAll, Become, Job
  <2>2. todo' \in [Thread -> SUBSET Stream] /\ accepting' \in [Session -> BOOLEAN]
    BY <1>1 DEF ConTypeOK, CloseAll
  <2> QED
    BY <1>1, <2>1, <2>2 DEF ConTypeOK, CloseAll
<1>2. CASE CloseDone(t)
  <2> DEFINE j == IF job[t] = "close" \/ (t = Loop /\ loop = "closing") THEN "none" ELSE "shut"
  <2>1. j \in Job /\ Become(t, j)
    BY <1>2 DEF CloseDone, Job
  <2> HIDE DEF j
  <2> QED
    BY <1>2, <2>1, JobType DEF CloseDone
<1>3. ASSUME NEW x \in Stream, CloseEnter(t, x)
      PROVE  ConTypeOK'
  <2>1. todo' \in [Thread -> SUBSET Stream]
    BY <1>3 DEF ConTypeOK, CloseEnter
  <2> QED
    BY <1>3, <2>1 DEF ConTypeOK, CloseEnter
<1> QED
  BY <1>1, <1>2, <1>3

(* The messages that are handed over.                                        *)
LEMMA ReceiveType ==
  ASSUME ConTypeOK, HandTypeOK, NEW x \in Stream, NEW m \in Message, Receive(x, m)
  PROVE  ConTypeOK' /\ HandTypeOK'
<1>1. active # 0 /\ loop = "run"
  BY DEF ConTypeOK, Receive, Hearing
<1>2. hand' = <<x, m>> \/ hand' = hand
  BY DEF Receive
<1>3. loop' \in {"give", "run"}
  BY <1>1 DEF Receive
<1>4. job' \in [Thread -> Job]
  <2>1. job' = job \/ job' = [job EXCEPT ![Loop] = "check"]
    BY DEF Receive, Become
  <2>2. "check" \in Job /\ Loop \in Thread
    BY Threads DEF Job
  <2> QED
    BY <2>1, <2>2 DEF ConTypeOK
<1>5. HandTypeOK'
  BY <1>2 DEF HandTypeOK
<1> QED
  BY <1>1, <1>3, <1>4, <1>5 DEF ConTypeOK, Receive, Place

LEMMA GiveType ==
  ASSUME ConTypeOK, HandTypeOK, Give
  PROVE  ConTypeOK' /\ HandTypeOK'
<1>1. hand' = <<>> /\ loop' = "run" /\ loop = "give" /\ hand[1] \in Stream
  BY DEF Give, HandTypeOK
<1>2. job' \in [Thread -> Job] /\ todo' \in [Thread -> SUBSET Stream]
  <2>1. job' = job \/ job' = [job EXCEPT ![Loop] = "close"]
    BY DEF Give, Become
  <2>2. todo' = todo \/ todo' = [todo EXCEPT ![Loop] = {hand[1]}]
    BY DEF Give
  <2>3. "close" \in Job /\ Loop \in Thread
    BY Threads DEF Job
  <2> QED
    BY <1>1, <2>1, <2>2, <2>3 DEF ConTypeOK
<1> QED
  BY <1>1, <1>2 DEF ConTypeOK, HandTypeOK, Give, Place

(***************************************************************************)
(* Sessions do not mix.                                                    *)
(***************************************************************************)

Same == UNCHANGED <<loop, active, session, sock>>

(* The streams go on as their own; the connection, but for what it does for
   its threads, stays where it is.                                           *)
LEMMA ApartKept ==
  ASSUME Apart, AllOwned, UNCHANGED <<loop, active, session>>,
         (\A n \in {active} : sock'[n] # "new" \/ sock'[n] = sock[n]),
         loop = "closing" => job'[Loop] = job[Loop] /\ todo'[Loop] = todo[Loop]
  PROVE  Apart'
<1>1. \A x \in Stream : /\ stream'[x].owner = stream[x].owner
                        /\ stream[x].closed => stream'[x].closed
  BY DEF AllOwned, Owned
<1>2. Serving' <=> Serving
  BY DEF Serving
<1> QED
  BY <1>1, <1>2 DEF Apart

LEMMA ApartStreams ==
  ASSUME Apart, AllOwned, UNCHANGED conVars
  PROVE  Apart'
BY ApartKept DEF conVars

LEMMA OwnedSame ==
  ASSUME UNCHANGED stream
  PROVE  AllOwned
BY DEF AllOwned, Owned

(* A thread other than the loop turns to something else, or the loop does
   while it serves its session.                                              *)
LEMMA ApartJob ==
  ASSUME ConTypeOK, Apart, AllOwned, Same, NEW t, NEW j, Become(t, j), t # Loop \/ loop # "closing",
         todo' = todo \/ \E S : todo' = [todo EXCEPT ![t] = S]
  PROVE  Apart'
<1>1. UNCHANGED <<loop, active, session, sock>>
  BY DEF Same
<1>2. loop = "closing" => job'[Loop] = job[Loop] /\ todo'[Loop] = todo[Loop]
  BY Threads DEF ConTypeOK, Become
<1> QED
  BY <1>1, <1>2, ApartKept

LEMMA ApartLoop ==
  ASSUME ConTypeOK, Apart, UNCHANGED stream,
         Reset \/ Opened \/ NewSession \/ Ends \/ OnError \/ CleanUp \/ CleanedUp
         \/ RunForComplete \/ Rest \/ NewClient(best)
  PROVE  Apart'
<1>0. active \in 0..MaxSessions /\ ws = active /\ session \in 0..active
      /\ (loop \notin {"begin", "number"} => active # 0) /\ MaxSessions \in Nat
      /\ Loop \in Thread
  BY Threads, ConAssumption DEF ConTypeOK
<1>1. CASE Reset
  BY <1>1 DEF Apart, Serving, Reset
<1>2. CASE Opened
  <2>1. sock[active] = "new" /\ active # 0 /\ loop = "run" /\ active \in Session
    BY <1>0, <1>2 DEF Opened, Session
  <2>2. session # active /\ ~Serving
    BY <2>1 DEF Apart, Serving
  <2>3. sock'[active] = "open"
    BY <1>0, <1>2, <2>1 DEF ConTypeOK, Opened
  <2> QED
    BY <1>2, <2>2, <2>3 DEF Apart, Serving, Opened
<1>3. CASE NewSession
  <2>1. loop = "opened" /\ loop' = "run" /\ session' = active /\ active' = active /\ sock' = sock
    BY <1>3 DEF NewSession
  <2>2. ~Serving /\ sock[active] # "new"
    BY <2>1 DEF Apart, Serving
  <2>3. \A x \in Stream : stream[x].owner # 0 => stream[x].closed
    BY <2>2 DEF Apart
  <2>4. \A x \in Stream : stream[x].owner \in 0..active
    BY <1>0 DEF Apart
  <2> QED
    BY <2>1, <2>2, <2>3, <2>4 DEF Apart, Serving
<1>4. CASE Ends
  <2>1. UNCHANGED <<loop, active, session, job, todo>>
    BY <1>4 DEF Ends
  <2>2. sock'[active] # "new"
    <3>1. active \in Session
      BY <1>0, <1>4 DEF Ends, Session
    <3> QED
      BY <1>0, <1>4, <3>1 DEF ConTypeOK, Ends
  <2> QED
    BY <2>1, <2>2, OwnedSame, ApartKept
<1>5. CASE OnError
  BY <1>5, OwnedSame, ApartKept DEF OnError
<1>6. CASE CleanUp
  <2>1. active \in Session /\ loop = "run" /\ UNCHANGED <<active, session>>
    BY <1>0, <1>6 DEF CleanUp, Session
  <2>2. sock'[active] # "new"
    BY <1>0, <1>6, <2>1 DEF ConTypeOK, CleanUp
  <2>3. CASE session = 0
    <3>1. loop' = "rest"
      BY <1>6, <2>3 DEF CleanUp
    <3>2. \A x \in Stream : stream[x].owner = 0
      BY <2>3 DEF Apart
    <3> QED
      BY <2>1, <2>2, <2>3, <3>1, <3>2 DEF Apart, Serving
  <2>4. CASE session # 0
    <3>1. loop' = "closing" /\ job'[Loop] = "all"
      BY <1>0, <1>6, <2>4 DEF ConTypeOK, CleanUp, Become
    <3>2. Serving' <=> Serving
      BY <2>1, <3>1 DEF Serving
    <3> QED
      BY <2>1, <2>2, <3>1, <3>2 DEF Apart
  <2> QED
    BY <2>3, <2>4
<1>7. CASE CleanedUp
  BY <1>7 DEF Apart, Serving, CleanedUp, Free
<1>8. CASE RunForComplete
  BY <1>8 DEF Apart, Serving, RunForComplete
<1>9. CASE Rest
  <2>1. loop = "rest" /\ loop' \in {"begin", "returned"} /\ UNCHANGED <<active, session, sock>>
    BY <1>9 DEF Rest
  <2> QED
    BY <2>1 DEF Apart, Serving
<1>10. CASE NewClient(best)
  <2>1. loop = "number" /\ loop' = "run" /\ active' = active + 1 /\ session' = session
    BY <1>10 DEF NewClient
  <2>2. session' # active' /\ active' # 0
    BY <1>0, <2>1
  <2> QED
    BY <2>1, <2>2 DEF Apart, Serving
<1> QED
  BY <1>1, <1>2, <1>3, <1>4, <1>5, <1>6, <1>7, <1>8, <1>9, <1>10

LEMMA ApartCon ==
  ASSUME ConTypeOK, Apart, UNCHANGED stream, ConNext
  PROVE  Apart'
<1>0. AllOwned /\ Loop \in Thread
  BY OwnedSame, Threads
<1>1. CASE Age \/ OnHandshakeComplete \/ \E url \in Url : OnSummonRequest(url) \/ SecondaryEnds(url)
  BY <1>0, <1>1, ApartKept DEF Age, OnHandshakeComplete, OnSummonRequest, SecondaryEnds
<1>2. CASE OnRunForTimer
  BY <1>0, <1>2, Threads, ApartJob DEF OnRunForTimer, Same
<1>3. ASSUME NEW t \in Thread, Disconnect(t)
      PROVE  Apart'
  <2>1. t = Loop => loop # "closing"
    BY <1>3 DEF Disconnect, Apart
  <2> QED
    BY <1>0, <1>3, <2>1, ApartJob DEF Disconnect, Same
<1>4. ASSUME NEW t \in Thread, Shut(t)
      PROVE  Apart'
  <2>1. t = Loop => loop # "closing"
    BY <1>4 DEF Shut, Apart
  <2>2. UNCHANGED <<loop, active, session, todo>>
    BY <1>4 DEF Shut
  <2>3. loop = "closing" => job'[Loop] = job[Loop]
    BY <1>0, <1>4, <2>1 DEF Shut, Become, ConTypeOK
  <2>4. sock'[active] # "new" \/ sock'[active] = sock[active]
    BY <1>4 DEF ConTypeOK, Shut
  <2> QED
    BY <1>0, <2>2, <2>3, <2>4, ApartKept
<1>5. CASE OnRefused
  <2>1. loop = "run" /\ UNCHANGED <<loop, active, session, sock>>
    BY <1>5 DEF OnRefused, Hearing
  <2> QED
    BY <1>0, <2>1, ApartKept
<1> QED
  BY <1>1, <1>2, <1>3, <1>4, <1>5, ApartLoop DEF ConNext

LEMMA ApartClosers ==
  ASSUME ConTypeOK, Local, Apart, AllOwned, NEW t \in Thread,
         \/ CloseAll(t) \/ CloseDone(t)
         \/ \E x \in Stream : CloseEnter(t, x) /\ stream'[x].closed
  PROVE  Apart'
<1>0. Loop \in Thread
  BY Threads
<1>1. CASE CloseAll(t)
  <2>1. UNCHANGED <<loop, active, session, sock, stream>> /\ job[t] = "all"
        /\ job' = [job EXCEPT ![t] = "closeAll"]
        /\ todo' = [todo EXCEPT ![t] = {x \in Stream : stream[x].mapped /\ stream[x].owner = session}]
    BY <1>1 DEF CloseAll, streamVars, Become
  <2>2. CASE t # Loop
    <3>1. job'[Loop] = job[Loop] /\ todo'[Loop] = todo[Loop]
      BY <1>0, <2>1, <2>2 DEF ConTypeOK
    <3> QED
      BY <2>1, <3>1, ApartKept
  <2>3. CASE t = Loop
    <3>1. job'[Loop] = "closeAll" /\ todo'[Loop] = {x \in Stream : stream[x].mapped /\ stream[x].owner = session}
      BY <1>0, <2>1, <2>3 DEF ConTypeOK
    <3>2. \A x \in Stream : stream[x].owner # 0 => stream[x].mapped \/ stream[x].closed
      BY DEF Local, One, Life
    <3>3. \A x \in Stream : stream[x].owner # 0 => stream[x].closed \/ x \in todo'[Loop]
      BY <3>1, <3>2 DEF Apart
    <3>4. Serving' <=> Serving
      BY <2>1 DEF Serving
    <3> QED
      BY <2>1, <3>1, <3>3, <3>4 DEF Apart
  <2> QED
    BY <2>2, <2>3
<1>2. CASE CloseDone(t)
  <2>1. UNCHANGED <<loop, active, session, sock, todo, stream>> /\ todo[t] = {}
        /\ job' = [job EXCEPT ![t] =
                      IF job[t] = "close" \/ (t = Loop /\ loop = "closing") THEN "none" ELSE "shut"]
    BY <1>2 DEF CloseDone, streamVars, Become
  <2>2. CASE t # Loop \/ loop # "closing"
    <3>1. loop = "closing" => job'[Loop] = job[Loop]
      BY <1>0, <2>1, <2>2 DEF ConTypeOK
    <3> QED
      BY <2>1, <3>1, ApartKept
  <2>3. CASE t = Loop /\ loop = "closing"
    <3>1. job'[Loop] = "none"
      BY <1>0, <2>1, <2>3 DEF ConTypeOK
    <3>2. job[Loop] = "closeAll"
      BY <1>2, <2>3 DEF CloseDone, Apart
    <3>3. \A x \in Stream : stream[x].owner # 0 => stream[x].closed
      BY <2>1, <2>3, <3>2 DEF Apart
    <3>4. Serving' <=> Serving
      BY <2>1 DEF Serving
    <3> QED
      BY <2>1, <3>1, <3>3, <3>4 DEF Apart
  <2> QED
    BY <2>2, <2>3
<1>3. ASSUME NEW x \in Stream, CloseEnter(t, x), stream'[x].closed
      PROVE  Apart'
  <2>1. UNCHANGED <<loop, active, session, sock, job>> /\ todo' = [todo EXCEPT ![t] = @ \ {x}]
    BY <1>3 DEF CloseEnter
  <2>2. \A y \in Stream : /\ stream'[y].owner = stream[y].owner
                          /\ stream[y].closed => stream'[y].closed
    BY DEF AllOwned, Owned
  <2>3. \A y \in Stream \ {x} : y \in todo[Loop] => y \in todo'[Loop]
    BY <1>0, <2>1 DEF ConTypeOK
  <2>4. Serving' <=> Serving
    BY <2>1 DEF Serving
  <2> QED
    BY <1>3, <2>1, <2>2, <2>3, <2>4 DEF Apart
<1> QED
  BY <1>1, <1>2, <1>3

LEMMA ApartReceive ==
  ASSUME ConTypeOK, Apart, NEW x \in Stream, NEW m \in Message, Receive(x, m),
         \/ AllOwned
         \/ /\ stream[x].owner = 0 /\ stream'[x].owner = session
            /\ \A y \in Stream \ {x} : stream'[y] = stream[y]
  PROVE  Apart'
<1>1. UNCHANGED <<active, session, sock>> /\ loop = "run" /\ loop' \in {"give", "run"} /\ session = active
      /\ session \in Nat
  BY DEF Receive, Hearing, ConTypeOK
<1>2. Serving /\ Serving'
  BY <1>1 DEF Serving
<1>3. \A y \in Stream : /\ stream'[y].owner \in 0..session
                        /\ stream'[y].owner # 0 /\ stream'[y].owner # session => stream'[y].closed
  <2> TAKE y \in Stream
  <2>1. CASE AllOwned
    BY <2>1 DEF AllOwned, Owned, Apart
  <2>2. CASE /\ stream'[x].owner = session
             /\ \A z \in Stream \ {x} : stream'[z] = stream[z]
    BY <1>1, <2>2 DEF Apart
  <2> QED
    BY <2>1, <2>2
<1> QED
  BY <1>1, <1>2, <1>3 DEF Apart

LEMMA ApartGive ==
  ASSUME ConTypeOK, Apart, AllOwned, Give
  PROVE  Apart'
<1>1. UNCHANGED <<active, session, sock>> /\ loop = "give" /\ loop' = "run"
  BY DEF Give
<1>2. Serving' <=> Serving
  BY <1>1 DEF Serving
<1> QED
  BY <1>1, <1>2 DEF AllOwned, Owned, Apart

(* Whoever calls Close is not the loop.                                      *)
LEMMA ApartCall ==
  ASSUME ConTypeOK, Apart, AllOwned, NEW t, NEW x, t # Loop, CallClose(t, x)
  PROVE  Apart'
<1>1. Same /\ Become(t, "close") /\ \E S : todo' = [todo EXCEPT ![t] = S]
  BY DEF CallClose, Same
<1> QED
  BY <1>1, ApartJob

LEMMA ApartCheck ==
  ASSUME ConTypeOK, Apart, AllOwned, NEW t, NEW mine, CheckSession(t, mine)
  PROVE  Apart'
<1>1. t # Loop \/ loop # "closing"
  BY DEF CheckSession, Apart
<1> QED
  BY <1>1, ApartJob DEF CheckSession, Same

(***************************************************************************)
(* The attempts of the websocket.                                          *)
(***************************************************************************)

SocketsOK == relay \in RelayState /\ client \in [Attempt -> ClientState]
Busy(a) == job[Socket(a)] # "none"
NoneBegins == \A a \in Attempt : Closes(a)' => Closes(a)

(* A step of someone else.                                                   *)
LEMMA TriedKept ==
  ASSUME Tried, Ended, UNCHANGED wsVars, Lasting(stream[W], stream'[W]), NoneBegins
  PROVE  Tried' /\ Ended'
<1>1. relay' = relay /\ client' = client
  BY DEF wsVars
<1>2. /\ stream[W].opened => stream'[W].opened
      /\ stream[W].shut => stream'[W].shut
      /\ stream[W].opened /\ stream[W].at # "make" => stream'[W].at # "make"
  BY DEF Lasting
<1>3. \A a \in Attempt : Closes(a)' => Closes(a)
  BY DEF NoneBegins
<1>4. Tried'
  BY <1>1, <1>2, <1>3 DEF Tried
<1>5. Ended'
  BY <1>1, <1>2 DEF Ended
<1> QED
  BY <1>4, <1>5

LEMMA NoneBeginsKept ==
  ASSUME AllCloser, \A a \in Attempt : Busy(a)' => Busy(a)
  PROVE  NoneBegins
<1>1. Closer(stream[W], stream'[W])
  BY SocketAssumption DEF AllCloser
<1>2. stream'[W].closing # "no" => stream[W].closing # "no" /\ stream'[W].closer = stream[W].closer
  BY <1>1 DEF Closer
<1> QED
  BY <1>2 DEF NoneBegins, Closes, Busy

(* A thread that is none of theirs, or is busy, turns to something else.     *)
LEMMA BusyJob ==
  ASSUME ConTypeOK, NEW t, NEW j, Become(t, j), (\A a \in Attempt : t # Socket(a)) \/ job[t] # "none"
  PROVE  \A a \in Attempt : Busy(a)' => Busy(a)
BY Threads DEF ConTypeOK, Become, Busy

LEMMA BusySame ==
  ASSUME UNCHANGED job
  PROVE  \A a \in Attempt : Busy(a)' => Busy(a)
BY DEF Busy

LEMMA BusyCon ==
  ASSUME ConTypeOK, ConNext \/ NewClient(best)
  PROVE  \A a \in Attempt : Busy(a)' => Busy(a)
<1>1. CASE Reset \/ Opened \/ Ends \/ OnError \/ CleanedUp \/ RunForComplete \/ Rest
           \/ NewClient(best) \/ Age \/ OnHandshakeComplete
           \/ \E url \in Url : OnSummonRequest(url) \/ SecondaryEnds(url)
  BY <1>1, BusySame DEF Reset, Opened, Ends, OnError, CleanedUp, RunForComplete, Rest,
     NewClient, Age, OnHandshakeComplete, OnSummonRequest, SecondaryEnds
<1>2. CASE NewSession
  BY <1>2, BusyJob, Threads DEF NewSession
<1>3. CASE CleanUp
  BY <1>3, BusyJob, BusySame, Threads DEF CleanUp
<1>4. CASE OnRunForTimer
  BY <1>4, BusyJob, Threads DEF OnRunForTimer
<1>5. CASE OnRefused
  BY <1>5, BusyJob, Threads DEF OnRefused
<1>6. ASSUME NEW t \in Thread, Disconnect(t) \/ Shut(t)
      PROVE  \A a \in Attempt : Busy(a)' => Busy(a)
  <2>1. job[t] # "none" /\ \E j : Become(t, j)
    BY <1>6 DEF Disconnect, Shut
  <2> QED
    BY <2>1, BusyJob
<1> QED
  BY <1>1, <1>2, <1>3, <1>4, <1>5, <1>6 DEF ConNext

(* Close is entered by a thread that is busy with it.                        *)
LEMMA EnterBegins ==
  ASSUME ConTypeOK, NEW t \in Thread, NEW x \in Stream, CloseEnter(t, x),
         \A y \in Stream : \/ stream'[y] = stream[y]
                           \/ y = x /\ stream'[y].closing = "unmap" /\ stream'[y].closer = t
  PROVE  NoneBegins
<1>1. W \in Stream /\ job' = job /\ job[t] # "none"
  BY SocketAssumption DEF CloseEnter
<1>2. CASE stream'[W] = stream[W]
  BY <1>1, <1>2 DEF NoneBegins, Closes
<1>3. CASE stream'[W].closer = t
  <2>1. \A a \in Attempt : Closes(a)' => job[Socket(a)] # "none"
    BY <1>1, <1>3 DEF Closes
  <2> QED
    BY <2>1 DEF NoneBegins, Closes
<1> QED
  BY <1>1, <1>2, <1>3

(* A callback that closes the stream begins for its own attempt only.        *)
LEMMA CallBegins ==
  ASSUME ConTypeOK, AllCloser, NEW a \in Attempt, CloseStream(a) \/ CallClose(Socket(a), W)
  PROVE  \A b \in Attempt \ {a} : Closes(b)' => Closes(b)
<1>1. W \in Stream /\ Closer(stream[W], stream'[W])
  BY SocketAssumption DEF AllCloser
<1>2. job' = job \/ job' = [job EXCEPT ![Socket(a)] = "close"]
  BY DEF CloseStream, CallClose, Become, conVars
<1>3. \A b \in Attempt \ {a} : job'[Socket(b)] = job[Socket(b)]
  BY <1>2, Threads DEF ConTypeOK
<1> QED
  BY <1>1, <1>3 DEF Closer, Closes

LEMMA CallType ==
  ASSUME ConTypeOK, NEW a \in Attempt, CloseStream(a) \/ CallClose(Socket(a), W)
  PROVE  ConTypeOK'
<1>1. CASE CallClose(Socket(a), W)
  BY <1>1, SocketAssumption, Threads, CallCloseType
<1>2. CASE UNCHANGED conVars
  BY <1>2 DEF conVars, ConTypeOK
<1> QED
  BY <1>1, <1>2 DEF CloseStream

LEMMA CallApart ==
  ASSUME ConTypeOK, Apart, AllOwned, NEW a \in Attempt, CloseStream(a) \/ CallClose(Socket(a), W)
  PROVE  Apart'
<1>1. CASE CallClose(Socket(a), W)
  BY <1>1, Threads, ApartCall
<1>2. CASE UNCHANGED conVars
  BY <1>2, ApartStreams
<1> QED
  BY <1>1, <1>2 DEF CloseStream

LEMMA WsCon ==
  ASSUME ConTypeOK, Apart, AllOwned, WsNext
  PROVE  ConTypeOK' /\ Apart'
<1>1. CASE UNCHANGED conVars
  <2>1. ConTypeOK'
    BY <1>1 DEF conVars, ConTypeOK
  <2> QED
    BY <1>1, <2>1, ApartStreams
<1>2. CASE Refuse
  <2>1. CallClose(Worker(W), W) /\ Worker(W) \in Thread /\ Worker(W) # Loop
    BY <1>2, Threads, SocketAssumption DEF Refuse
  <2> QED
    BY <2>1, SocketAssumption, CallCloseType, ApartCall
<1>3. ASSUME NEW a \in Attempt, CloseStream(a) \/ CallClose(Socket(a), W)
      PROVE  ConTypeOK' /\ Apart'
  BY <1>3, CallType, CallApart
<1>4. ASSUME NEW a \in Attempt, ErrorCloses(a) \/ OnWsClosed(a) \/ OnWsDataFails(a)
      PROVE  ConTypeOK' /\ Apart'
  <2>1. CloseStream(a) \/ CallClose(Socket(a), W) \/ UNCHANGED conVars
    BY <1>4 DEF ErrorCloses, OnWsClosed, OnWsDataFails
  <2> QED
    BY <1>1, <1>3, <2>1
<1>5. CASE \/ Refused \/ FirstAttempt
           \/ \E a \in Attempt :
                 OnWsError(a) \/ Drop(a) \/ Dial(a) \/ Settle(a) \/ OnWsOpened(a) \/ WsEnds(a)
           \/ Pass \/ ShutWs \/ DiscardWs \/ CloseWorker
  BY <1>1, <1>5 DEF Refused, FirstAttempt, OnWsError, Drop, Dial, Settle, OnWsOpened, WsEnds,
     Pass, ShutWs, DiscardWs, CloseWorker
<1> QED
  BY <1>2, <1>4, <1>5 DEF WsNext

LEMMA WsType ==
  ASSUME SocketsOK, WsNext
  PROVE  SocketsOK'
<1>0. 0 \in 0..Tries /\ 1 \in Attempt /\ 1 \in 0..Tries /\ Tries \in Nat
  BY ConAssumption DEF Attempt
<1>1. ASSUME NEW c \in ClientState
      PROVE  Shutting(c) \in ClientState
  BY DEF ClientState, Shutting
<1>2. CASE UNCHANGED wsVars
  BY <1>2 DEF SocketsOK, wsVars
<1>3. CASE FirstAttempt
  <2>1. relay' \in RelayState
    BY <1>0, <1>3 DEF SocketsOK, RelayState, FirstAttempt
  <2>2. client' \in [Attempt -> ClientState]
    BY <1>0, <1>3 DEF SocketsOK, ClientState, FirstAttempt
  <2> QED
    BY <2>1, <2>2 DEF SocketsOK
<1>4. CASE ShutWs \/ DiscardWs
  BY <1>4 DEF SocketsOK, RelayState, ShutWs, DiscardWs, Shutdown
<1>5. CASE CloseWorker
  <2>1. relay' \in RelayState
    BY <1>5 DEF SocketsOK, RelayState, CloseWorker
  <2>2. relay.captured \in 0..Tries
    BY DEF SocketsOK, RelayState
  <2>3. client' \in [Attempt -> ClientState]
    <3>1. CASE client' = client
      BY <3>1 DEF SocketsOK
    <3>2. CASE relay.captured # 0 /\ client' = [client EXCEPT ![relay.captured] = Shutting(@)]
      <4>1. relay.captured \in Attempt
        BY <1>0, <2>2, <3>2 DEF Attempt
      <4>2. Shutting(client[relay.captured]) \in ClientState
        BY <1>1, <4>1 DEF SocketsOK
      <4> QED
        BY <3>2, <4>1, <4>2 DEF SocketsOK
    <3> QED
      BY <1>5, <3>1, <3>2 DEF CloseWorker, ShutAttempt
  <2> QED
    BY <2>1, <2>3 DEF SocketsOK
<1>6. ASSUME NEW a \in Attempt, NEW c \in ClientState, client' = [client EXCEPT ![a] = c], relay' \in RelayState
      PROVE  SocketsOK'
  BY <1>6 DEF SocketsOK
<1>7. ASSUME NEW a \in Attempt,
             OnWsError(a) \/ ErrorCloses(a) \/ Settle(a) \/ OnWsOpened(a) \/ WsEnds(a) \/ OnWsClosed(a)
      PROVE  SocketsOK'
  <2>0. client[a] \in ClientState /\ relay \in RelayState
    BY DEF SocketsOK
  <2>1. relay' \in RelayState
    BY <1>7, <2>0 DEF RelayState, OnWsError, ErrorCloses, Settle, OnWsOpened, WsEnds, OnWsClosed
  <2>2. CASE Settle(a)
    <3>1. [Shutting(client[a]) EXCEPT !.error = "told"] \in ClientState
      BY <1>1, <2>0 DEF ClientState, Shutting
    <3> QED
      BY <1>6, <2>1, <2>2, <3>1 DEF Settle
  <2>3. CASE OnWsError(a)
    <3>1. PICK e \in {"settle", "close", "drop"} : client' = [client EXCEPT ![a].error = e]
      BY <2>3 DEF OnWsError
    <3>2. [client[a] EXCEPT !.error = e] \in ClientState
      BY <2>0 DEF ClientState
    <3> QED
      BY <1>6, <2>1, <3>1, <3>2
  <2>4. CASE ErrorCloses(a)
    <3>1. [client[a] EXCEPT !.error = "settle"] \in ClientState
      BY <2>0 DEF ClientState
    <3> QED
      BY <1>6, <2>1, <2>4, <3>1 DEF ErrorCloses
  <2>5. CASE OnWsOpened(a)
    <3>1. [client[a] EXCEPT !.sock = "open"] \in ClientState
      BY <2>0 DEF ClientState
    <3> QED
      BY <1>6, <2>1, <2>5, <3>1 DEF OnWsOpened
  <2>6. CASE WsEnds(a)
    <3>1. PICK e \in {"no", "due"} : client' = [client EXCEPT ![a].sock = "gone", ![a].error = e]
      BY <2>6 DEF WsEnds
    <3>2. [client[a] EXCEPT !.sock = "gone", !.error = e] \in ClientState
      BY <2>0 DEF ClientState
    <3>3. client' = [client EXCEPT ![a] = [client[a] EXCEPT !.sock = "gone", !.error = e]]
      BY <3>1 DEF SocketsOK
    <3> QED
      BY <1>6, <2>1, <3>2, <3>3
  <2>7. CASE OnWsClosed(a)
    <3>1. [client[a] EXCEPT !.close = "told"] \in ClientState
      BY <2>0 DEF ClientState
    <3> QED
      BY <1>6, <2>1, <2>7, <3>1 DEF OnWsClosed
  <2> QED
    BY <1>7, <2>2, <2>3, <2>4, <2>5, <2>6, <2>7
<1>8. ASSUME NEW a \in Attempt, Drop(a)
      PROVE  SocketsOK'
  <2> DEFINE c == [client EXCEPT ![a].error = "dial"]
             n == relay.current
  <2>1. relay' \in RelayState /\ n \in 0..Tries
    BY <1>0, <1>8 DEF SocketsOK, RelayState, Drop
  <2>2. c \in [Attempt -> ClientState]
    BY DEF SocketsOK, ClientState
  <2>3. client' = IF n = 0 THEN c ELSE [c EXCEPT ![n] = Shutting(@)]
    BY <1>8 DEF Drop
  <2> HIDE DEF c, n
  <2>4. n # 0 => n \in Attempt
    BY <1>0, <2>1 DEF Attempt
  <2>5. n # 0 => Shutting(c[n]) \in ClientState
    BY <1>1, <2>2, <2>4
  <2>6. client' \in [Attempt -> ClientState]
    BY <2>2, <2>3, <2>4, <2>5
  <2> QED
    BY <2>1, <2>6 DEF SocketsOK
<1>9. ASSUME NEW a \in Attempt, Dial(a)
      PROVE  SocketsOK'
  <2> DEFINE n == relay.tried + 1
  <2>0. relay \in RelayState /\ relay.tried \in Nat
    BY DEF SocketsOK, RelayState
  <2>1. CASE client' = [client EXCEPT ![a].error = "close"] /\ UNCHANGED relay
    BY <2>1 DEF SocketsOK, ClientState
  <2>2. CASE /\ ~(n > Tries) /\ relay' = [relay EXCEPT !.tried = n, !.current = n]
             /\ client' = [client EXCEPT ![n].sock = "trying", ![a].error = "settle"]
    <3>1. n \in Attempt /\ n \in 0..Tries
      BY <1>0, <2>0, <2>2 DEF Attempt
    <3> HIDE DEF n
    <3>2. relay' \in RelayState
      BY <2>0, <2>2, <3>1 DEF RelayState
    <3>3. client' \in [Attempt -> ClientState]
      BY <2>2, <3>1 DEF SocketsOK, ClientState
    <3> QED
      BY <3>2, <3>3 DEF SocketsOK
  <2> QED
    BY <1>9, <2>1, <2>2 DEF Dial
<1> QED
  BY <1>2, <1>3, <1>4, <1>5, <1>7, <1>8, <1>9 DEF WsNext, Refuse, Refused, OnWsDataFails, Pass

(* Where an attempt stands, from what it is doing.                           *)
LEMMA Standing ==
  ASSUME SocketsOK, Tried, NEW a \in Attempt
  PROVE  /\ a \in Nat \ {0} /\ a + 1 \in Nat /\ relay.tried \in 0..Tries /\ relay.current \in {0, relay.tried}
         /\ client[a] \in ClientState
         /\ client[a] # NewClientOf => a <= relay.tried
         /\ client[a].error # "no" \/ client[a].sock # "none" => a <= relay.tried
         /\ client[a].error \in {"due", "drop", "dial", "close"} =>
               a = relay.tried /\ client[a].sock \notin Live
         /\ client[a].error = "settle" => client[a].sock \notin Live
         /\ client[a].sock \in Live => a = relay.tried /\ a = relay.current /\ client[a].error = "no"
<1>1. a \in Nat \ {0} /\ relay.tried \in 0..Tries /\ Tries \in Nat /\ client[a] \in ClientState
  BY ConAssumption DEF SocketsOK, RelayState, Attempt
<1>2. relay.current \in {0, relay.tried}
  BY DEF Tried
<1>3. client[a] # NewClientOf => a <= relay.tried
  BY <1>1 DEF Tried
<1>4. client[a].error # "no" \/ client[a].sock # "none" => client[a] # NewClientOf
  BY DEF NewClientOf
<1>5. client[a].error \in {"due", "drop", "dial", "close"} => a = relay.tried
  BY <1>1, <1>3, <1>4 DEF Tried
<1>6. client[a].sock \in Live => a = relay.current /\ client[a].error = "no"
  BY DEF Tried
<1> QED
  BY <1>1, <1>2, <1>3, <1>4, <1>5, <1>6

(* One step in the life of an attempt: what it may become.                   *)
LEMMA AttemptGoesOn ==
  ASSUME SocketsOK, Tried, NEW a \in Attempt, NEW c \in ClientState,
         client' = [client EXCEPT ![a] = c],
         relay'.tried = relay.tried, relay'.current = relay.current,
         relay.everOpened => relay'.everOpened,
         relay'.everOpened => relay.everOpened \/ client[a].sock \in Live,
         Lasting(stream[W], stream'[W]),
         \A b \in Attempt \ {a} : Closes(b)' => Closes(b),
         client[a] # NewClientOf,
         c.sock \in Live => client[a].sock \in Live,
         c.sock = "open" => relay'.everOpened,
         client[a].error \in {"settle", "told"} => c.error \in {"settle", "told"},
         c.sock \in Live => c.error = client[a].error,
         c.error \in {"drop", "dial"} => ~relay'.everOpened /\ a = relay.tried,
         a = relay.tried /\ Closes(a)' =>
             relay'.everOpened \/ (c.sock \notin Live /\ c.error \in {"no", "settle", "told"}),
         a # relay.tried /\ Closes(a)' => Closes(a) \/ relay.current = a \/ relay.current = 0
  PROVE  Tried'
<1>0. a \in Nat \ {0} /\ relay.tried \in 0..Tries /\ a <= relay.tried /\ Tries \in Nat
  BY Standing, ConAssumption
<1>1. /\ client'[a] = c
      /\ \A b \in Attempt \ {a} : client'[b] = client[b]
  BY DEF SocketsOK
<1>2. \A b \in Attempt : b \in Nat \ {0} /\ b + 1 \in Nat
  BY Standing
<1>3. relay'.tried # 0 => stream'[W].opened /\ stream'[W].at # "make"
  BY DEF Tried, Lasting
<1>4. client[a].sock \in Live => a = relay.current /\ a = relay.tried /\ client[a].error = "no"
  BY Standing
<1> SUFFICES ASSUME NEW b \in Attempt
             PROVE  /\ b > relay.tried => client'[b] = NewClientOf /\ ~Closes(b)'
                    /\ b < relay.tried => client'[b].error \in {"settle", "told"}
                    /\ client'[b].sock \in Live => b = relay.current /\ client'[b].error = "no"
                    /\ client'[b].error = "drop" \/ client'[b].error = "dial" => ~relay'.everOpened
                    /\ client'[b].sock = "open" => relay'.everOpened
                    /\ b = relay.tried /\ client'[b].sock \notin Live /\ Closes(b)' =>
                          relay'.everOpened \/ client'[b].error \in {"no", "settle", "told"}
                    /\ b = relay.tried /\ client'[b].sock \in Live => (Closes(b)' => relay'.everOpened)
                    /\ b + 1 = relay.tried /\ client'[b + 1].sock \in Live => ~Closes(b)'
  BY <1>3 DEF Tried
<1>5. CASE b = a
  <2>1. client'[b].sock \in Live => b = relay.current /\ client'[b].error = "no"
    BY <1>1, <1>4, <1>5
  <2>2. b < relay.tried => client'[b].error \in {"settle", "told"}
    BY <1>1, <1>5 DEF Tried
  <2>3. b + 1 = relay.tried /\ client'[b + 1].sock \in Live => ~Closes(b)'
    <3> SUFFICES ASSUME b + 1 = relay.tried, client'[b + 1].sock \in Live PROVE ~Closes(b)'
      OBVIOUS
    <3>1. b + 1 \in Attempt /\ b + 1 # a
      BY <1>0, <1>2, <1>5 DEF Attempt
    <3>2. client[b + 1].sock \in Live
      BY <1>1, <3>1
    <3>3. relay.current = b + 1 /\ ~Closes(b)
      BY <3>1, <3>2, Standing DEF Tried
    <3> QED
      BY <1>0, <1>2, <1>5, <3>3
  <2> QED
    BY <1>0, <1>1, <1>5, <2>1, <2>2, <2>3
<1>6. CASE b # a
  <2>1. client'[b] = client[b] /\ (Closes(b)' => Closes(b))
    BY <1>1, <1>6
  <2>2. client[b].error = "drop" \/ client[b].error = "dial" => ~relay'.everOpened
    <3>1. client[b].error = "drop" \/ client[b].error = "dial" => b = relay.tried
      BY Standing
    <3> QED
      BY <1>4, <1>6, <3>1 DEF Tried
  <2>3. b + 1 = relay.tried /\ client'[b + 1].sock \in Live => ~Closes(b)'
    <3> SUFFICES ASSUME b + 1 = relay.tried, client'[b + 1].sock \in Live PROVE ~Closes(b)'
      OBVIOUS
    <3>1. b + 1 \in Attempt
      BY <1>0, <1>2 DEF Attempt
    <3>2. client[b + 1].sock \in Live
      BY <1>1, <3>1
    <3> QED
      BY <2>1, <3>2 DEF Tried
  <2>4. client[b].sock = "open" => relay'.everOpened
    BY DEF Tried
  <2>5. b > relay.tried => client'[b] = NewClientOf /\ ~Closes(b)'
    BY <2>1 DEF Tried
  <2>6. /\ b = relay.tried /\ client'[b].sock \notin Live /\ Closes(b)' =>
              relay'.everOpened \/ client'[b].error \in {"no", "settle", "told"}
        /\ b = relay.tried /\ client'[b].sock \in Live => (Closes(b)' => relay'.everOpened)
    BY <2>1 DEF Tried
  <2> QED
    BY <2>1, <2>2, <2>3, <2>4, <2>5, <2>6 DEF Tried
<1> QED
  BY <1>5, <1>6

LEMMA TriedStill ==
  ASSUME Tried, UNCHANGED client, Lasting(stream[W], stream'[W]), NoneBegins,
         relay'.tried = relay.tried, relay'.current = relay.current, relay'.everOpened = relay.everOpened
  PROVE  Tried'
<1>1. stream[W].opened /\ stream[W].at # "make" => stream'[W].opened /\ stream'[W].at # "make"
  BY DEF Lasting
<1>2. \A a \in Attempt : Closes(a)' => Closes(a)
  BY DEF NoneBegins
<1> QED
  BY <1>1, <1>2 DEF Tried

LEMMA EndedKept ==
  ASSUME Ended, Lasting(stream[W], stream'[W]),
         relay'.worker = relay.worker, relay'.captured = relay.captured, relay'.current = relay.current,
         \A b \in Attempt : client'[b].sock \in Live => client[b].sock \in Live
  PROVE  Ended'
BY DEF Ended, Lasting

(* The callbacks of an attempt.                                              *)
LEMMA CallbackTried ==
  ASSUME ConTypeOK, SocketsOK, Tried, Ended, AllCloser, Lasting(stream[W], stream'[W]), NEW a \in Attempt,
         OnWsError(a) \/ ErrorCloses(a) \/ Settle(a) \/ OnWsOpened(a) \/ WsEnds(a) \/ OnWsClosed(a)
         \/ OnWsDataFails(a)
  PROVE  Tried' /\ Ended'
<1> DEFINE o == client[a]
<1>0. /\ a \in Nat \ {0} /\ relay.current \in {0, relay.tried} /\ relay \in RelayState
      /\ o \in ClientState
      /\ o.error # "no" \/ o.sock # "none" => a <= relay.tried /\ o # NewClientOf
      /\ o.error \in {"due", "drop", "dial", "close"} => a = relay.tried /\ o.sock \notin Live
      /\ o.error = "settle" => o.sock \notin Live
      /\ o.sock \in Live => a = relay.tried /\ a = relay.current /\ o.error = "no"
  BY Standing DEF SocketsOK, NewClientOf
<1>1. /\ relay'.tried = relay.tried /\ relay'.current = relay.current
      /\ relay'.worker = relay.worker /\ relay'.captured = relay.captured
  BY <1>0 DEF RelayState, OnWsError, ErrorCloses, Settle, OnWsOpened, WsEnds, OnWsClosed, OnWsDataFails, wsVars
<1>3. ASSUME UNCHANGED job
      PROVE  NoneBegins /\ \A b \in Attempt : Closes(b)' => Closes(b)
  <2>1. NoneBegins
    BY <1>3, BusySame, NoneBeginsKept
  <2> QED
    BY <2>1 DEF NoneBegins
<1>4. ASSUME NEW c \in ClientState, client' = [client EXCEPT ![a] = c],
             c.sock \in Live => o.sock \in Live
      PROVE  Ended'
  <2>1. \A b \in Attempt : client'[b].sock \in Live => client[b].sock \in Live
    BY <1>4 DEF SocketsOK
  <2> QED
    BY <1>1, <2>1, EndedKept
<1>5. a = relay.tried /\ o.sock \notin Live /\ Closes(a) => relay.everOpened \/ o.error \in {"no", "settle", "told"}
  BY DEF Tried
<1>6. a = relay.tried /\ o.sock \in Live /\ Closes(a) => relay.everOpened
  BY DEF Tried
<1>7. CASE OnWsError(a)
  <2>1. PICK e \in {"settle", "close", "drop"} :
           client' = [client EXCEPT ![a].error = e] /\ (e = "drop" => ~relay.everOpened)
    BY <1>7 DEF OnWsError
  <2>2. PICK c : c = [o EXCEPT !.error = e]
    OBVIOUS
  <2>3. c \in ClientState /\ c.sock = o.sock /\ c.error = e /\ client' = [client EXCEPT ![a] = c]
    BY <1>0, <2>1, <2>2 DEF ClientState
  <2>4. o.error = "due" /\ UNCHANGED relay /\ \A b \in Attempt : Closes(b)' => Closes(b)
    BY <1>3, <1>7 DEF OnWsError, conVars
  <2>5. c.sock = "open" => relay'.everOpened
    BY <1>0, <2>3, <2>4 DEF Live
  <2>6. Tried'
    BY <1>0, <1>5, <2>1, <2>3, <2>4, <2>5, AttemptGoesOn
  <2> QED
    BY <1>4, <2>3, <2>6
<1>8. CASE ErrorCloses(a)
  <2>1. PICK c : c = [o EXCEPT !.error = "settle"]
    OBVIOUS
  <2>2. c \in ClientState /\ c.sock = o.sock /\ c.error = "settle" /\ client' = [client EXCEPT ![a] = c]
    BY <1>0, <1>8, <2>1 DEF ClientState, ErrorCloses
  <2>3. o.error = "close" /\ UNCHANGED relay /\ \A b \in Attempt \ {a} : Closes(b)' => Closes(b)
    BY <1>8, CallBegins DEF ErrorCloses
  <2>4. c.sock = "open" => relay'.everOpened
    BY <1>0, <2>2, <2>3 DEF Live
  <2>5. Tried'
    BY <1>0, <2>2, <2>3, <2>4, AttemptGoesOn
  <2> QED
    BY <1>4, <2>2, <2>5
<1>9. CASE Settle(a)
  <2>1. o.error = "settle" /\ o.sock \notin Live /\ UNCHANGED relay /\ \A b \in Attempt : Closes(b)' => Closes(b)
    BY <1>0, <1>3, <1>9 DEF Settle, conVars
  <2>2. Shutting(o) = o
    BY <1>0, <2>1 DEF Shutting, ClientState
  <2>3. PICK c : c = [o EXCEPT !.error = "told"]
    OBVIOUS
  <2>4. c \in ClientState /\ c.sock = o.sock /\ c.error = "told" /\ client' = [client EXCEPT ![a] = c]
    BY <1>0, <1>9, <2>2, <2>3 DEF ClientState, Settle
  <2>5. c.sock = "open" => relay'.everOpened
    BY <2>1, <2>4 DEF Live
  <2>6. Tried'
    BY <1>0, <1>5, <2>1, <2>4, <2>5, AttemptGoesOn
  <2> QED
    BY <1>4, <2>4, <2>6
<1>10. CASE OnWsOpened(a)
  <2>1. o.sock \in Live /\ \A b \in Attempt : Closes(b)' => Closes(b)
    BY <1>3, <1>10 DEF OnWsOpened, conVars, Live
  <2>2. relay'.everOpened
    BY <1>0, <1>10, <2>1 DEF RelayState, OnWsOpened, Heeded
  <2>3. PICK c : c = [o EXCEPT !.sock = "open"]
    OBVIOUS
  <2>4. c \in ClientState /\ c.sock = "open" /\ c.error = o.error /\ client' = [client EXCEPT ![a] = c]
    BY <1>0, <1>10, <2>3 DEF ClientState, OnWsOpened
  <2>5. o # NewClientOf /\ c.sock \in Live
    BY <1>0, <2>1, <2>4 DEF Live
  <2>6. Tried'
    BY <1>0, <1>1, <2>1, <2>2, <2>4, <2>5, AttemptGoesOn
  <2> QED
    BY <1>4, <2>1, <2>4, <2>6
<1>11. CASE WsEnds(a)
  <2>1. o.sock \in Live /\ UNCHANGED relay /\ \A b \in Attempt : Closes(b)' => Closes(b)
    BY <1>3, <1>11 DEF WsEnds, conVars
  <2>2. PICK e \in {"no", "due"} : client' = [client EXCEPT ![a].sock = "gone", ![a].error = e]
    BY <1>11 DEF WsEnds
  <2>3. PICK c : c = [o EXCEPT !.sock = "gone", !.error = e]
    OBVIOUS
  <2>4. c \in ClientState /\ c.sock = "gone" /\ c.error = e
    BY <1>0, <2>3 DEF ClientState
  <2>5. client' = [client EXCEPT ![a] = c]
    BY <2>2, <2>3 DEF SocketsOK
  <2>6. o # NewClientOf /\ c.sock \notin Live /\ c.sock # "open"
    BY <1>0, <2>1, <2>4 DEF Live
  <2>7. Tried'
    BY <1>0, <1>6, <2>1, <2>4, <2>5, <2>6, AttemptGoesOn
  <2> QED
    BY <1>4, <2>1, <2>4, <2>5, <2>7
<1>12. CASE OnWsClosed(a)
  <2>1. PICK c : c = [o EXCEPT !.close = "told"]
    OBVIOUS
  <2>2. c \in ClientState /\ c.sock = o.sock /\ c.error = o.error /\ client' = [client EXCEPT ![a] = c]
    BY <1>0, <1>12, <2>1 DEF ClientState, OnWsClosed
  <2>3. /\ o.sock \in {"gone", "shut"} /\ o.error \in {"no", "told"} /\ o.sock \notin Live
        /\ relay'.everOpened = relay.everOpened
    BY <1>0, <1>12 DEF RelayState, OnWsClosed, Live
  <2>4. CASE Heeded(a) /\ CloseStream(a)
    <3>1. \A b \in Attempt \ {a} : Closes(b)' => Closes(b)
      BY <2>4, CallBegins
    <3>2. relay.current = a \/ relay.current = 0
      BY <2>4 DEF Heeded
    <3>3. Tried'
      BY <1>0, <1>1, <2>2, <2>3, <3>1, <3>2, AttemptGoesOn
    <3> QED
      BY <1>4, <2>2, <3>3
  <2>5. CASE UNCHANGED conVars
    <3>1. \A b \in Attempt : Closes(b)' => Closes(b)
      BY <1>3, <2>5 DEF conVars
    <3>2. Tried'
      BY <1>0, <1>1, <1>5, <2>2, <2>3, <3>1, AttemptGoesOn
    <3> QED
      BY <1>4, <2>2, <3>2
  <2> QED
    BY <1>12, <2>4, <2>5 DEF OnWsClosed
<1>13. CASE OnWsDataFails(a)
  <2>1. o.sock = "open" /\ o.sock \in Live /\ client' = client /\ relay' = relay
    BY <1>13 DEF OnWsDataFails, Live, wsVars
  <2>2. relay.everOpened /\ \A b \in Attempt \ {a} : Closes(b)' => Closes(b)
    BY <1>13, <2>1, CallBegins DEF OnWsDataFails, Tried
  <2>3. client' = [client EXCEPT ![a] = o]
    BY <2>1 DEF SocketsOK
  <2>4. Tried'
    BY <1>0, <1>1, <2>1, <2>2, <2>3, AttemptGoesOn
  <2> QED
    BY <1>0, <1>4, <2>3, <2>4
<1> QED
  BY <1>7, <1>8, <1>9, <1>10, <1>11, <1>12, <1>13

(* The first attempt.                                                        *)
LEMMA FirstTried ==
  ASSUME ConTypeOK, SocketsOK, StreamsOK, Local, Tried, Ended, Steady, FirstAttempt
  PROVE  Tried' /\ Ended'
<1> DEFINE s == stream[W]
<1>0. s \in StreamState /\ One(s, http[W], reader[W]) /\ W \in Stream
  BY SocketAssumption, OneOf
<1>1. s.at = "make" /\ relay.tried = 0 /\ relay \in RelayState
  BY DEF FirstAttempt, Tried, SocketsOK
<1>2. s.opened /\ ~s.shut
  BY <1>0, <1>1 DEF One, Life
<1>3. relay.worker = "none"
  BY <1>2 DEF Ended
<1>4. /\ relay'.tried = 1 /\ relay'.current = 1 /\ relay'.everOpened = relay.everOpened
      /\ relay'.worker = "none"
  BY <1>1, <1>3 DEF RelayState, FirstAttempt
<1>5. stream'[W].at = "attach" /\ stream'[W].opened /\ stream'[W].shut = s.shut
  BY <1>0, <1>2 DEF FirstAttempt, Move, StreamsOK, StreamState
<1>6. 1 \in Attempt /\ \A b \in Attempt : b \in Nat \ {0}
  BY ConAssumption DEF Attempt
<1>7. \A b \in Attempt : client[b] = NewClientOf /\ ~Closes(b)
  BY <1>1, <1>6 DEF Tried
<1>8. /\ client'[1].sock = "trying" /\ client'[1].error = "no"
      /\ \A b \in Attempt \ {1} : client'[b] = NewClientOf
  BY <1>6, <1>7 DEF FirstAttempt, SocketsOK, NewClientOf
<1>9. \A b \in Attempt : ~Closes(b)'
  <2>1. NoneBegins
    BY BusySame, NoneBeginsKept DEF Steady, FirstAttempt, conVars
  <2> QED
    BY <1>7, <2>1 DEF NoneBegins
<1>10. Tried'
  <2>1. \A b \in Attempt : b # 1 => client'[b].sock \notin Live /\ client'[b].error = "no" /\ client'[b].sock # "open"
    BY <1>8 DEF NewClientOf, Live
  <2>2. \A b \in Attempt : ~(b < 1) /\ (b > 1 => b # 1)
    BY <1>6
  <2> QED
    BY <1>4, <1>5, <1>8, <1>9, <2>1, <2>2 DEF Tried
<1> QED
  BY <1>4, <1>10 DEF Ended

(* The next one.                                                             *)
LEMMA DropTried ==
  ASSUME ConTypeOK, SocketsOK, Tried, Ended, AllCloser, Lasting(stream[W], stream'[W]),
         NEW a \in Attempt, Drop(a)
  PROVE  Tried' /\ Ended'
<1>0. /\ relay.current \in {0, relay.tried} /\ relay \in RelayState /\ client[a] \in ClientState
      /\ a = relay.tried /\ client[a].sock \notin Live /\ client[a].error = "drop" /\ a \in Nat \ {0}
  BY Standing DEF SocketsOK, Drop
<1>1. \A b \in Attempt : client[b].sock \notin Live
  <2>1. \A b \in Attempt : client[b].sock \in Live => b = a
    BY <1>0, Standing
  <2> QED
    BY <1>0, <2>1
<1> DEFINE c == [client[a] EXCEPT !.error = "dial"]
<1>2. client' = [client EXCEPT ![a] = c]
  <2>1. CASE relay.current = 0
    BY <2>1 DEF Drop
  <2>2. CASE relay.current = a /\ a # 0
    <3>1. Shutting(c) = c
      BY <1>0 DEF Shutting, ClientState
    <3>2. client' = [[client EXCEPT ![a].error = "dial"] EXCEPT ![a] = Shutting(@)]
      BY <2>2 DEF Drop
    <3>3. client' = [client EXCEPT ![a] = Shutting(c)]
      BY <3>2 DEF SocketsOK
    <3> QED
      BY <3>1, <3>3
  <2> QED
    BY <1>0, <2>1, <2>2
<1>3. c.sock = client[a].sock /\ c.error = "dial"
  BY <1>0 DEF ClientState
<1> HIDE DEF c
<1>4. \A b \in Attempt : /\ client'[b].sock = client[b].sock
                         /\ client'[b].error = IF b = a THEN "dial" ELSE client[b].error
                         /\ b # a => client'[b] = client[b]
  BY <1>2, <1>3 DEF SocketsOK
<1>5. /\ relay'.tried = relay.tried /\ relay'.current = 0 /\ relay'.everOpened = relay.everOpened
      /\ relay'.worker = relay.worker /\ relay'.captured = relay.captured
  BY <1>0 DEF RelayState, Drop
<1>6. \A b \in Attempt : Closes(b)' => Closes(b)
  <2>1. NoneBegins
    BY BusySame, NoneBeginsKept DEF Drop, conVars
  <2> QED
    BY <2>1 DEF NoneBegins
<1>7. \A b \in Attempt : b \in Nat /\ b + 1 \in Nat /\ (b + 1 = relay.tried => b + 1 \in Attempt)
  BY <1>0, Standing
<1>8. Tried'
  <2>1. relay'.tried # 0 => stream'[W].opened /\ stream'[W].at # "make"
    BY <1>5 DEF Tried, Lasting
  <2>2. ~relay.everOpened /\ ~Closes(a)
    BY <1>0 DEF Tried
  <2> SUFFICES ASSUME NEW b \in Attempt
               PROVE  /\ b > relay.tried => client'[b] = NewClientOf /\ ~Closes(b)'
                      /\ b < relay.tried => client'[b].error \in {"settle", "told"}
                      /\ client'[b].sock \notin Live
                      /\ client'[b].sock # "open"
                      /\ b = relay.tried => ~Closes(b)'
                      /\ b + 1 = relay.tried => client'[b + 1].sock \notin Live
    BY <1>5, <2>1, <2>2 DEF Tried
  <2>3. client'[b].sock \notin Live /\ client'[b].sock # "open"
    BY <1>1, <1>4 DEF Live
  <2>4. b + 1 = relay.tried => client'[b + 1].sock \notin Live
    BY <1>1, <1>4, <1>7
  <2>5. CASE b = a
    BY <1>0, <1>6, <2>2, <2>3, <2>4, <2>5
  <2>6. CASE b # a
    BY <1>0, <1>4, <1>6, <2>3, <2>4, <2>6 DEF Tried
  <2> QED
    BY <2>5, <2>6
<1> QED
  BY <1>1, <1>4, <1>5, <1>8 DEF Ended, Lasting

LEMMA DialTried ==
  ASSUME ConTypeOK, SocketsOK, Tried, Ended, AllCloser, Lasting(stream[W], stream'[W]),
         NEW a \in Attempt, Dial(a)
  PROVE  Tried' /\ Ended'
<1>0. /\ relay.current \in {0, relay.tried} /\ relay \in RelayState /\ client[a] \in ClientState
      /\ a = relay.tried /\ client[a].sock \notin Live /\ client[a].error = "dial" /\ a \in Nat \ {0}
      /\ Tries \in Nat
  BY Standing, ConAssumption DEF SocketsOK, Dial
<1>1. \A b \in Attempt : client[b].sock \notin Live
  <2>1. \A b \in Attempt : client[b].sock \in Live => b = a
    BY <1>0, Standing
  <2> QED
    BY <1>0, <2>1
<1>2. ~relay.everOpened /\ ~Closes(a)
  BY <1>0 DEF Tried
<1>3. \A b \in Attempt : Closes(b)' => Closes(b)
  <2>1. NoneBegins
    BY BusySame, NoneBeginsKept DEF Dial, conVars
  <2> QED
    BY <2>1 DEF NoneBegins
<1> DEFINE n == relay.tried + 1
<1>4. CASE client' = [client EXCEPT ![a].error = "close"] /\ UNCHANGED relay
  <2>1. PICK c : c = [client[a] EXCEPT !.error = "close"]
    OBVIOUS
  <2>2. c \in ClientState /\ c.sock = client[a].sock /\ c.error = "close" /\ client' = [client EXCEPT ![a] = c]
    BY <1>0, <1>4, <2>1 DEF ClientState
  <2>3. client[a] # NewClientOf /\ c.sock # "open"
    BY <1>0, <2>2 DEF NewClientOf, Live
  <2>4. Tried'
    BY <1>0, <1>2, <1>3, <1>4, <2>2, <2>3, AttemptGoesOn
  <2>5. \A b \in Attempt : client'[b].sock \in Live => client[b].sock \in Live
    BY <2>2 DEF SocketsOK
  <2> QED
    BY <1>4, <2>4, <2>5, EndedKept
<1>5. CASE /\ ~(n > Tries \/ stream[W].shut) /\ relay' = [relay EXCEPT !.tried = n, !.current = n]
           /\ client' = [client EXCEPT ![n].sock = "trying", ![a].error = "settle"] /\ UNCHANGED stream
  <2>1. n \in Attempt /\ n = a + 1 /\ n # a
    BY <1>0, <1>5 DEF Attempt
  <2>2. client[n] = NewClientOf /\ ~Closes(n)
    BY <1>0, <2>1 DEF Tried
  <2> HIDE DEF n
  <2>3. /\ client'[n].sock = "trying" /\ client'[n].error = "no"
        /\ client'[a].sock = client[a].sock /\ client'[a].error = "settle"
        /\ \A b \in Attempt : b # n /\ b # a => client'[b] = client[b]
    BY <1>0, <1>5, <2>1, <2>2 DEF SocketsOK, ClientState, NewClientOf
  <2>4. /\ relay'.tried = n /\ relay'.current = n /\ relay'.everOpened = relay.everOpened
        /\ relay'.worker = relay.worker
    BY <1>0, <1>5 DEF RelayState
  <2>5. relay.worker = "none"
    BY <1>5 DEF Ended
  <2>6. stream'[W].opened /\ stream'[W].at # "make"
    BY <1>0, <1>5 DEF Tried
  <2>7. Tried'
    <3> SUFFICES ASSUME NEW b \in Attempt
                 PROVE  /\ b > n => client'[b] = NewClientOf /\ ~Closes(b)'
                        /\ b < n => client'[b].error \in {"settle", "told"}
                        /\ client'[b].sock \in Live => b = n /\ client'[b].error = "no"
                        /\ client'[b].sock # "open"
                        /\ b = n => ~Closes(b)'
                        /\ b + 1 = n => ~Closes(b)'
      BY <1>2, <2>4, <2>6 DEF Tried
    <3>1. b \in Nat
      BY Standing
    <3>2. CASE b = n
      BY <1>3, <2>1, <2>2, <2>3, <3>1, <3>2
    <3>3. CASE b = a
      BY <1>0, <1>2, <1>3, <2>1, <2>3, <3>1, <3>3 DEF Live
    <3>4. CASE b # a /\ b # n
      <4>1. client'[b] = client[b] /\ client[b].sock \notin Live
        BY <1>1, <2>3, <3>4
      <4>2. client'[b].sock # "open"
        BY <4>1 DEF Live
      <4>3. b > n => b > relay.tried
        BY <1>0, <2>1, <3>1
      <4>4. b < n => b < relay.tried
        BY <1>0, <2>1, <3>1, <3>4
      <4>5. b > n => client[b] = NewClientOf /\ ~Closes(b)
        BY <4>3 DEF Tried
      <4>6. b < n => client[b].error \in {"settle", "told"}
        BY <4>4 DEF Tried
      <4> QED
        BY <1>0, <1>3, <2>1, <3>1, <3>4, <4>1, <4>2, <4>5, <4>6
    <3> QED
      BY <3>2, <3>3, <3>4
  <2> QED
    BY <2>4, <2>5, <2>7 DEF Ended
<1> QED
  BY <1>4, <1>5 DEF Dial

(* Close of the helper.                                                      *)
LEMMA ShutTried ==
  ASSUME ConTypeOK, SocketsOK, StreamsOK, Tried, Ended, AllCloser, Lasting(stream[W], stream'[W]),
         ShutWs \/ DiscardWs
  PROVE  Tried' /\ Ended'
<1>0. relay \in RelayState /\ W \in Stream /\ stream[W] \in StreamState
  BY SocketAssumption DEF SocketsOK, StreamsOK
<1>1. /\ relay'.tried = relay.tried /\ relay'.current = relay.current
      /\ relay'.everOpened = relay.everOpened /\ relay'.captured = relay.current /\ relay'.worker = "due"
  BY <1>0 DEF RelayState, ShutWs, DiscardWs, Shutdown
<1>2. stream'[W].shut
  <2>1. CASE ShutWs
    <3>1. PICK n : n = [stream[W] EXCEPT !.shut = TRUE, !.closing = "done"]
      OBVIOUS
    <3>2. n.shut
      BY <1>0, <3>1 DEF StreamState
    <3>3. stream' = [stream EXCEPT ![W] = n]
      BY <2>1, <3>1 DEF ShutWs, Set
    <3> QED
      BY <1>0, <3>2, <3>3 DEF StreamsOK
  <2>2. CASE DiscardWs
    <3>1. PICK n : n = [stream[W] EXCEPT !.shut = TRUE, !.at = "feed"]
      OBVIOUS
    <3>2. n.shut
      BY <1>0, <3>1 DEF StreamState
    <3>3. stream' = [stream EXCEPT ![W] = n]
      BY <2>2, <3>1 DEF DiscardWs, Set
    <3> QED
      BY <1>0, <3>2, <3>3 DEF StreamsOK
  <2> QED
    BY <2>1, <2>2
<1>3. NoneBegins /\ UNCHANGED client
  BY BusySame, NoneBeginsKept DEF ShutWs, DiscardWs, conVars
<1>4. Tried'
  BY <1>1, <1>3, TriedStill
<1> QED
  BY <1>1, <1>2, <1>4 DEF Ended

LEMMA WorkerTried ==
  ASSUME ConTypeOK, SocketsOK, Tried, Ended, AllCloser, Lasting(stream[W], stream'[W]), CloseWorker
  PROVE  Tried' /\ Ended'
<1> DEFINE a == relay.captured
<1>0. relay \in RelayState /\ relay.worker = "due"
  BY DEF SocketsOK, CloseWorker
<1>1. /\ relay'.tried = relay.tried /\ relay'.current = relay.current
      /\ relay'.everOpened = relay.everOpened /\ relay'.worker = "done"
  BY <1>0 DEF RelayState, CloseWorker
<1>2. NoneBegins /\ \A b \in Attempt : Closes(b)' => Closes(b)
  <2>1. NoneBegins
    BY BusySame, NoneBeginsKept DEF CloseWorker, conVars
  <2> QED
    BY <2>1 DEF NoneBegins
<1>3. stream'[W].shut
  BY <1>0 DEF Ended, Lasting
<1>4. CASE \A b \in Attempt : client[b].sock \notin Live
  <2>1. client' = client
    <3>1. CASE a = 0
      BY <3>1 DEF CloseWorker
    <3>2. CASE a # 0
      <4>1. a \in Attempt
        BY <1>0, <3>2, ConAssumption DEF RelayState, Attempt
      <4>2. client[a] \in ClientState /\ client[a].sock \notin Live
        BY <1>4, <4>1 DEF SocketsOK
      <4>3. Shutting(client[a]) = client[a]
        BY <4>2 DEF Shutting, ClientState
      <4>4. client' = [client EXCEPT ![a] = Shutting(client[a])]
        BY <3>2 DEF CloseWorker, ShutAttempt
      <4> QED
        BY <4>1, <4>3, <4>4 DEF SocketsOK
    <3> QED
      BY <3>1, <3>2
  <2>2. Tried'
    BY <1>1, <1>2, <2>1, TriedStill
  <2> QED
    BY <1>1, <1>3, <1>4, <2>1, <2>2 DEF Ended
<1>5. ASSUME NEW b \in Attempt, client[b].sock \in Live
      PROVE  Tried' /\ Ended'
  <2>1. /\ a = relay.current /\ b = a /\ b = relay.tried /\ client[b].error = "no" /\ b \in Nat \ {0}
        /\ client[b] \in ClientState
    BY <1>0, <1>5, Standing DEF Ended
  <2>2. PICK c : c = Shutting(client[b])
    OBVIOUS
  <2>3. c \in ClientState /\ c.sock = "shut" /\ c.error = "no" /\ client' = [client EXCEPT ![b] = c]
    BY <1>5, <2>1, <2>2 DEF ClientState, Shutting, CloseWorker, ShutAttempt
  <2>4. c.sock \notin Live /\ c.sock # "open" /\ client[b] # NewClientOf
    BY <1>5, <2>3 DEF Live, NewClientOf
  <2>5. Tried'
    BY <1>1, <1>2, <2>1, <2>3, <2>4, AttemptGoesOn
  <2>6. \A d \in Attempt : client'[d].sock \notin Live
    <3>1. \A d \in Attempt : client[d].sock \in Live => d = b
      BY <2>1, Standing
    <3> QED
      BY <2>3, <2>4, <3>1 DEF SocketsOK
  <2> QED
    BY <1>1, <1>3, <2>5, <2>6 DEF Ended
<1> QED
  BY <1>4, <1>5

LEMMA WsTried ==
  ASSUME ConTypeOK, SocketsOK, StreamsOK, Local, Tried, Ended, Steady, WsNext
  PROVE  Tried' /\ Ended'
<1>0. AllCloser /\ Lasting(stream[W], stream'[W])
  BY SocketAssumption DEF Steady, Kept
<1>1. CASE Refuse
  <2>1. \A a \in Attempt : Worker(W) # Socket(a)
    BY SocketAssumption, Threads
  <2>2. NoneBegins
    BY <1>0, <1>1, <2>1, BusyJob, NoneBeginsKept DEF Refuse, CallClose
  <2> QED
    BY <1>0, <1>1, <2>2, TriedKept DEF Refuse
<1>2. CASE Refused \/ Pass
  <2>1. NoneBegins
    BY <1>0, <1>2, BusySame, NoneBeginsKept DEF Refused, Pass, conVars
  <2> QED
    BY <1>0, <1>2, <2>1, TriedKept DEF Refused, Pass
<1> QED
  BY <1>0, <1>1, <1>2, FirstTried, CallbackTried, DropTried, DialTried, ShutTried, WorkerTried DEF WsNext

(***************************************************************************)
(* The search for the nearest server.                                      *)
(***************************************************************************)

LEMMA NoPingsType == NoPings \in [Server -> Seq(PingResult)]
<1>1. \A S : <<>> \in Seq(S)
  OBVIOUS
<1> QED
  BY <1>1 DEF NoPings

LEMMA PingInitType ==
  ASSUME PingInit
  PROVE  PingTypeOK
<1>1. pings \in [Server -> Seq(PingResult)]
  <2>1. CASE pings = NoPings
    BY <2>1, NoPingsType
  <2>2. ASSUME NEW s \in Server, NEW t \in Times, pings = [NoPings EXCEPT ![s] = <<t>>]
        PROVE  pings \in [Server -> Seq(PingResult)]
    <3>1. <<t>> \in Seq(PingResult)
      BY DEF PingResult
    <3> QED
      BY <2>2, <3>1, NoPingsType
  <2> QED
    BY <2>1, <2>2 DEF PingInit
<1>2. best \in Server \cup {"none"}
  BY DEF PingInit
<1>3. pinger \in {"rest", "save", "ping", "tell"} /\ rounds \in Nat
  BY DEF PingInit
<1>4. first \in BOOLEAN /\ worked \in BOOLEAN /\ told \in BOOLEAN
  <2>1. first = FALSE
    BY DEF PingInit
  <2>2. told = FALSE
    BY DEF PingInit
  <2>3. worked \in BOOLEAN
    BY DEF PingInit
  <2> QED
    BY <2>1, <2>2, <2>3
<1> QED
  BY <1>1, <1>2, <1>3, <1>4 DEF PingTypeOK

(* The last pings are pings.                                                 *)
LEMMA LastOfType ==
  ASSUME NEW S, NEW s \in Seq(S)
  PROVE  LastOf(s) \in Seq(S)
<1>1. Len(s) \in Nat /\ Keep \in Nat \ {0}
  BY LatencyAssumption
<1>2. CASE Len(s) <= Keep
  BY <1>2 DEF LastOf
<1>3. CASE ~(Len(s) <= Keep)
  <2>1. Len(s) - Keep + 1 \in 1..Len(s) + 1
    BY <1>1, <1>3
  <2>2. SubSeq(s, Len(s) - Keep + 1, Len(s)) \in Seq(S)
    BY <1>1, <2>1, SubSeqProperties
  <2> QED
    BY <1>3, <2>2 DEF LastOf
<1> QED
  BY <1>2, <1>3

LEMMA PingType ==
  ASSUME PingTypeOK, PingStep
  PROVE  PingTypeOK'
<1>1. CASE BeginRound
  BY <1>1 DEF PingTypeOK, BeginRound
<1>2. CASE SaveTime
  BY <1>2, NoPingsType DEF PingTypeOK, SaveTime, ResetStats
<1>3. CASE UpdateStats
  <2>1. CASE UNCHANGED <<worked, pings, best>>
    BY <1>3, <2>1 DEF PingTypeOK, UpdateStats
  <2>2. CASE ResetStats
    BY <1>3, <2>2, NoPingsType DEF PingTypeOK, UpdateStats, ResetStats
  <2>3. ASSUME NEW listed \in SUBSET Server \ {{}}, NEW default \in Server,
               NEW result \in [listed -> PingResult],
               LET p == [s \in Server |->
                            IF s \in listed THEN LastOf(Append(pings[s], result[s])) ELSE <<>>] IN
               /\ pings' = p /\ UNCHANGED worked
               /\ IF Nearest(p) = {} THEN UNCHANGED best
                  ELSE \E low \in Nearest(p) : best' = Chosen(p, low, default)
        PROVE  PingTypeOK'
    <3> DEFINE p == [s \in Server |->
                        IF s \in listed THEN LastOf(Append(pings[s], result[s])) ELSE <<>>]
    <3>1. \A s \in Server : p[s] \in Seq(PingResult)
      <4> TAKE s \in Server
      <4>1. CASE s \in listed
        <5>1. Append(pings[s], result[s]) \in Seq(PingResult)
          BY <2>3, <4>1 DEF PingTypeOK
        <5> QED
          BY <4>1, <5>1, LastOfType
      <4>2. CASE s \notin listed
        <5>1. \A S : <<>> \in Seq(S)
          OBVIOUS
        <5> QED
          BY <4>2, <5>1
      <4> QED
        BY <4>1, <4>2
    <3>2. p \in [Server -> Seq(PingResult)]
      BY <3>1
    <3>3. pings' = p /\ worked' = worked
          /\ (best' = best \/ \E low \in Nearest(p) : best' = Chosen(p, low, default))
      BY <2>3
    <3> HIDE DEF p
    <3>4. best' \in Server \cup {"none"}
      BY <3>3 DEF PingTypeOK, Chosen, Nearest, Answering
    <3> QED
      BY <1>3, <3>2, <3>3, <3>4 DEF PingTypeOK, UpdateStats
  <2> QED
    BY <1>3, <2>1, <2>2, <2>3 DEF UpdateStats
<1> QED
  BY <1>1, <1>2, <1>3 DEF PingStep

LEMMA FirstRunKeeps ==
  ASSUME ConTypeOK, PingTypeOK, Apart, FirstRunComplete, UNCHANGED stream
  PROVE  ConTypeOK' /\ PingTypeOK' /\ Apart' /\ \A a \in Attempt : Busy(a)' => Busy(a)
<1>1. AllOwned /\ Pinger \in Thread /\ Pinger # Loop /\ "flag" \in Job
  BY OwnedSame, Threads DEF Job
<1>2. PingTypeOK'
  BY DEF PingTypeOK, FirstRunComplete
<1>3. CASE UNCHANGED <<noWait, job>>
  <2>1. UNCHANGED conVars
    BY <1>3 DEF FirstRunComplete, conVars
  <2> QED
    BY <1>1, <1>2, <2>1, ApartStreams, BusySame DEF ConTypeOK, conVars
<1>4. CASE noWait' = TRUE /\ Become(Pinger, "flag")
  <2>1. UNCHANGED <<loop, active, disconnecting, connecting, blocked, endpoint, backoff, ws, sock,
                    errors, session, accepting, aged, todo, secondary>>
    BY DEF FirstRunComplete
  <2>2. job' \in [Thread -> Job]
    BY <1>1, <1>4 DEF ConTypeOK, Become
  <2>3. ConTypeOK'
    BY <1>4, <2>1, <2>2 DEF ConTypeOK
  <2>4. Apart'
    BY <1>1, <1>4, <2>1, ApartJob DEF Same
  <2> QED
    BY <1>2, <1>4, <2>3, <2>4, BusyJob, Threads
<1> QED
  BY <1>3, <1>4 DEF FirstRunComplete

(***************************************************************************)
(* The whole relay.                                                        *)
(***************************************************************************)

LEMMA InitTypes ==
  ASSUME Init
  PROVE  ConTypeOK /\ StreamsOK /\ HandTypeOK /\ SocketsOK
<1>1. ConTypeOK
  <2>1. MaxSessions \in Nat \ {0}
    BY ConAssumption
  <2>2. /\ sock \in [Session -> {"new", "open", "gone", "shut"}]
        /\ accepting \in [Session -> BOOLEAN]
        /\ job \in [Thread -> Job] /\ todo \in [Thread -> SUBSET Stream]
    BY DEF Init, ConInit, Job
  <2>3. loop \in Place /\ loop = "begin" /\ errors \subseteq Session /\ secondary \subseteq Url
        /\ endpoint \in {"default", "nearest"}
    BY DEF Init, ConInit, Place
  <2>4. active \in 0..MaxSessions /\ ws = active /\ session \in 0..active /\ backoff \in Nat
    BY <2>1 DEF Init, ConInit, DefaultBackoff
  <2>5. disconnecting \in BOOLEAN /\ connecting \in BOOLEAN /\ blocked \in BOOLEAN /\ noWait \in BOOLEAN
        /\ aged \in BOOLEAN
    BY DEF Init, ConInit
  <2> QED
    BY <2>2, <2>3, <2>4, <2>5 DEF ConTypeOK
<1>2. StreamsOK
  <2>1. NewStream \in StreamState
    <3>1. <<>> \in Seq(Message) /\ Nothing \in Message /\ Loop \in Thread /\ 0 \in 0..MaxSessions
      BY Basics, ConAssumption
    <3> QED
      BY <3>1 DEF NewStream, StreamState, At
  <2>2. NewHttp \in HttpState
    BY EmptyBody DEF NewHttp, HttpState, None, NoLength
  <2>3. NewReader \in ReaderState
    BY EmptyBody DEF NewReader, ReaderState
  <2> QED
    BY <2>1, <2>2, <2>3 DEF Init, StreamInit, HttpInit, StreamsOK
<1>3. HandTypeOK
  BY DEF Init, StreamInit, HandTypeOK
<1>4. SocketsOK
  <2>1. NewRelay \in RelayState
    BY ConAssumption DEF NewRelay, RelayState
  <2>2. NewClientOf \in ClientState
    BY DEF NewClientOf, ClientState
  <2> QED
    BY <2>1, <2>2 DEF Init, WsInit, SocketsOK
<1> QED
  BY <1>1, <1>2, <1>3, <1>4

LEMMA InitLocal ==
  ASSUME Init
  PROVE  Local
<1>1. SUFFICES ASSUME NEW x \in Stream PROVE One(stream[x], http[x], reader[x])
  BY DEF Local
<1>2. stream[x] = NewStream /\ http[x] = NewHttp /\ reader[x] = NewReader
  BY DEF Init, StreamInit, HttpInit
<1>3. Life(NewStream)
  BY DEF Life, NewStream
<1>4. Tell(NewStream, NewHttp)
  BY DEF Tell, Sending, NewStream, NewHttp
<1>5. Load(NewStream, NewHttp)
  BY DEF Load, NewStream, NewHttp
<1>6. Flow(NewStream, NewHttp, NewReader)
  <2>1. FlattenSeq(<<>>) = <<>> /\ Len(<<>>) = 0 /\ MaxReturn \in Nat
    BY FlatEmpty, ProxyAssumption
  <2>2. Units(0, 0) = <<>>
    BY UnitsType DEF Units
  <2>3. <<>> \o <<>> = <<>>
    OBVIOUS
  <2> QED
    BY <2>1, <2>2, <2>3 DEF Flow, Ending, NewStream, NewHttp, NewReader, None, NoLength
<1> QED
  BY <1>2, <1>3, <1>4, <1>5, <1>6 DEF One

LEMMA InitRest ==
  ASSUME Init
  PROVE  Apart /\ Tried /\ Ended
<1>1. \A x \in Stream : stream[x] = NewStream
  BY DEF Init, StreamInit
<1>2. Apart
  <2>1. \A x \in Stream : stream[x].owner = 0
    BY <1>1 DEF NewStream
  <2>2. loop = "begin" /\ session = 0 /\ active = 0
    BY DEF Init, ConInit
  <2> QED
    BY <2>1, <2>2 DEF Apart
<1>3. \A a \in Attempt : client[a] = NewClientOf /\ ~Closes(a) /\ a \in Nat \ {0}
  <2> TAKE a \in Attempt
  <2>1. Socket(a) \in Thread
    BY Threads
  <2>2. job[Socket(a)] = "none"
    BY <2>1 DEF Init, ConInit
  <2>3. stream[W].closing = "no"
    BY <1>1, SocketAssumption DEF NewStream
  <2> QED
    BY <2>2, <2>3, ConAssumption DEF Closes, Init, WsInit, Attempt
<1>4. relay = NewRelay
  BY DEF Init, WsInit
<1>5. Tried
  <2>1. relay.tried = 0 /\ relay.current = 0 /\ ~relay.everOpened
    BY <1>4 DEF NewRelay
  <2>2. NewClientOf.sock = "none" /\ NewClientOf.error = "no" /\ "none" \notin Live
    BY DEF NewClientOf, Live
  <2>3. \A a \in Attempt : a > 0 /\ a # 0 /\ a + 1 # 0 /\ ~(a < 0)
    BY <1>3
  <2> QED
    BY <1>3, <2>1, <2>2, <2>3 DEF Tried
<1>6. Ended
  BY <1>4 DEF Ended, NewRelay
<1> QED
  BY <1>2, <1>5, <1>6

LEMMA InitHolds == Init => IInv
<1> SUFFICES ASSUME Init PROVE IInv
  OBVIOUS
<1>1. PingTypeOK /\ world \in World
  BY PingInitType DEF Init
<1> QED
  BY <1>1, InitTypes, InitLocal, InitRest DEF IInv, TypeOK, StreamsOK, SocketsOK

(***************************************************************************)
(* Every step keeps it.                                                    *)
(***************************************************************************)

LEMMA Invariant ==
  ASSUME IInv
  PROVE  /\ TypeOK /\ ConTypeOK /\ StreamsOK /\ HandTypeOK /\ SocketsOK /\ PingTypeOK /\ world \in World
         /\ Local /\ Apart /\ Tried /\ Ended
BY DEF IInv, TypeOK, StreamsOK, SocketsOK

(* What a step that leaves the websocket's attempts alone has to show.       *)
LEMMA KeptByOthers ==
  ASSUME IInv, ConTypeOK', HandTypeOK', PingTypeOK', world' \in World, Kept, Apart', NoneBegins,
         UNCHANGED wsVars
  PROVE  IInv'
<1>1. SocketsOK'
  BY Invariant DEF SocketsOK, wsVars
<1>2. Tried' /\ Ended'
  BY Invariant, SocketAssumption, TriedKept DEF Kept
<1> QED
  BY <1>1, <1>2 DEF IInv, TypeOK, StreamsOK, SocketsOK, Kept

LEMMA SameRest ==
  ASSUME IInv
  PROVE  /\ UNCHANGED proxyVars => UNCHANGED <<httpVars, wsVars>> /\ PingTypeOK' /\ world' \in World
         /\ UNCHANGED pingVars => PingTypeOK'
         /\ UNCHANGED hand => HandTypeOK'
         /\ UNCHANGED conVars => ConTypeOK'
<1>1. UNCHANGED pingVars => PingTypeOK'
  BY Invariant DEF PingTypeOK, pingVars
<1>2. UNCHANGED hand => HandTypeOK'
  BY Invariant DEF HandTypeOK
<1>3. UNCHANGED conVars => ConTypeOK'
  BY Invariant DEF ConTypeOK, conVars
<1> QED
  BY <1>1, <1>2, <1>3, Invariant DEF proxyVars

LEMMA ConnectKeeps ==
  ASSUME IInv, Connect \/ ConnectTo
  PROVE  IInv'
<1>1. (ConNext \/ NewClient(best)) /\ UNCHANGED <<stream, hand, httpVars, proxyVars>>
  BY DEF Connect, ConnectTo, streamVars, proxyVars
<1>2. HandTypeOK' /\ PingTypeOK' /\ world' \in World /\ UNCHANGED wsVars
  BY <1>1, SameRest
<1>3. Steady
  BY <1>1, Invariant, Unchanged DEF httpVars
<1>4. ConTypeOK' /\ Apart'
  BY <1>1, Invariant, ConType, LoopType, ApartCon, ApartLoop
<1>5. NoneBegins
  BY <1>1, <1>3, Invariant, BusyCon, NoneBeginsKept DEF Steady
<1> QED
  BY <1>2, <1>3, <1>4, <1>5, KeptByOthers DEF Steady

LEMMA HearKeeps ==
  ASSUME IInv, Hear
  PROVE  IInv'
<1>1. PICK g \in Given[world] : Receive(g[1], g[2])
  BY DEF Hear
<1> DEFINE x == g[1]
           m == g[2]
<1>2. x \in Stream /\ m \in Message
  BY <1>1, Invariant, GivenAssumption
<1>3. Receive(x, m)
  BY <1>1
<1> HIDE DEF x, m
<1>4. PingTypeOK' /\ world' \in World /\ UNCHANGED <<httpVars, wsVars>>
  BY SameRest DEF Hear
<1>5. Kept /\ AllCloser /\ (\/ AllOwned
                            \/ stream[x].owner = 0 /\ stream'[x].owner = session
                               /\ \A y \in Stream \ {x} : stream'[y] = stream[y])
  BY <1>2, <1>3, <1>4, Invariant, ReceiveKept
<1>6. ConTypeOK' /\ HandTypeOK'
  BY <1>2, <1>3, Invariant, ReceiveType
<1>7. Apart'
  BY <1>2, <1>3, <1>5, Invariant, ApartReceive
<1>8. NoneBegins
  <2>1. job' = job \/ Become(Loop, "check")
    BY <1>3 DEF Receive
  <2>2. \A a \in Attempt : Busy(a)' => Busy(a)
    BY <2>1, Invariant, BusySame, BusyJob, Threads
  <2> QED
    BY <1>5, <2>2, NoneBeginsKept
<1> QED
  BY <1>4, <1>5, <1>6, <1>7, <1>8, KeptByOthers

LEMMA GiveKeeps ==
  ASSUME IInv, Give, UNCHANGED proxyVars
  PROVE  IInv'
<1>1. PingTypeOK' /\ world' \in World /\ UNCHANGED <<httpVars, wsVars>>
  BY SameRest
<1>2. Steady
  BY <1>1, Invariant, GiveSteady
<1>3. ConTypeOK' /\ HandTypeOK' /\ Apart'
  BY <1>2, Invariant, GiveType, ApartGive DEF Steady
<1>4. NoneBegins
  <2>1. job' = job \/ Become(Loop, "close")
    BY DEF Give
  <2>2. \A a \in Attempt : Busy(a)' => Busy(a)
    BY <2>1, Invariant, BusySame, BusyJob, Threads
  <2> QED
    BY <1>2, <2>2, NoneBeginsKept DEF Steady
<1> QED
  BY <1>1, <1>2, <1>3, <1>4, KeptByOthers DEF Steady

LEMMA CheckKeeps ==
  ASSUME IInv, NEW t \in Thread, NEW mine, CheckSession(t, mine), UNCHANGED <<streamVars, proxyVars>>
  PROVE  IInv'
<1>1. PingTypeOK' /\ world' \in World /\ UNCHANGED <<httpVars, wsVars>> /\ HandTypeOK' /\ UNCHANGED stream
  BY SameRest DEF streamVars
<1>2. Steady
  BY <1>1, Invariant, Unchanged DEF httpVars
<1>3. ConTypeOK' /\ Apart'
  BY <1>2, Invariant, CheckType, ApartCheck DEF Steady
<1>4. NoneBegins
  <2>1. job[t] # "none" /\ \E j : Become(t, j)
    BY DEF CheckSession
  <2> QED
    BY <1>2, <2>1, Invariant, BusyJob, NoneBeginsKept DEF Steady
<1> QED
  BY <1>1, <1>2, <1>3, <1>4, KeptByOthers DEF Steady

LEMMA CloserKeeps ==
  ASSUME IInv, NEW t \in Thread, CloseAll(t) \/ CloseDone(t), UNCHANGED proxyVars
  PROVE  IInv'
<1>1. PingTypeOK' /\ world' \in World /\ UNCHANGED <<httpVars, wsVars>> /\ HandTypeOK' /\ UNCHANGED stream
  BY SameRest DEF streamVars, CloseAll, CloseDone
<1>2. Steady
  BY <1>1, Invariant, Unchanged DEF httpVars
<1>3. ConTypeOK' /\ Apart'
  BY <1>2, Invariant, CloserType, ApartClosers DEF Steady
<1>4. NoneBegins
  <2>1. job[t] # "none" /\ \E j : Become(t, j)
    BY DEF CloseAll, CloseDone
  <2> QED
    BY <1>2, <2>1, Invariant, BusyJob, NoneBeginsKept DEF Steady
<1> QED
  BY <1>1, <1>2, <1>3, <1>4, KeptByOthers DEF Steady

LEMMA EnterKeeps ==
  ASSUME IInv, NEW t \in Thread, NEW x \in Stream, CloseEnter(t, x), UNCHANGED proxyVars
  PROVE  IInv'
<1>1. PingTypeOK' /\ world' \in World /\ UNCHANGED <<httpVars, wsVars>> /\ HandTypeOK'
  BY SameRest DEF CloseEnter
<1>2. /\ Kept /\ AllOwned /\ stream'[x].closed
      /\ \A y \in Stream : \/ stream'[y] = stream[y]
                           \/ y = x /\ stream'[y].closing = "unmap" /\ stream'[y].closer = t
  BY <1>1, Invariant, CloseEnterKept
<1>3. ConTypeOK' /\ Apart'
  BY <1>2, Invariant, CloserType, ApartClosers
<1>4. NoneBegins
  BY <1>2, Invariant, EnterBegins
<1> QED
  BY <1>1, <1>2, <1>3, <1>4, KeptByOthers

(* The steps of a stream's own thread.                                       *)
LEMMA ThreadKeeps ==
  ASSUME IInv, NEW x \in Stream, UNCHANGED proxyVars,
         CloseStep(x) \/ Get(x) \/ InitFromOpen(x) \/ Attach(x) \/ Feed(x) \/ Finish(x) \/ Fail(x) \/ End(x)
  PROVE  IInv'
<1>1. PingTypeOK' /\ world' \in World /\ UNCHANGED <<httpVars, wsVars>> /\ HandTypeOK'
  BY SameRest DEF CloseStep, Get, InitFromOpen, Attach, Feed, Finish, Fail, End
<1>2. Steady
  BY <1>1, Invariant, CloseStepSteady, GetSteady, InitSteady, AttachSteady, FeedSteady, FinishSteady
<1>3. Worker(x) \in Thread /\ Worker(x) # Loop /\ \A a \in Attempt : Worker(x) # Socket(a)
  BY Threads
<1>4. ConTypeOK' /\ Apart' /\ \A a \in Attempt : Busy(a)' => Busy(a)
  <2>1. CASE CloseStep(x) \/ Get(x) \/ InitFromOpen(x) \/ Attach(x) \/ Feed(x) \/ End(x)
    <3>1. UNCHANGED conVars
      BY <2>1 DEF CloseStep, Get, InitFromOpen, Attach, Feed, End
    <3> QED
      BY <1>2, <3>1, SameRest, Invariant, ApartStreams, BusySame DEF Steady, conVars
  <2>2. CASE Finish(x)
    <3>1. CallClose(Worker(x), x) /\ Become(Worker(x), "close")
      BY <2>2 DEF Finish, CallClose
    <3> QED
      BY <1>2, <1>3, <3>1, Invariant, CallCloseType, ApartCall, BusyJob DEF Steady
  <2>3. CASE Fail(x)
    <3>1. /\ Become(Worker(x), "check") /\ "check" \in Job
          /\ UNCHANGED <<loop, active, disconnecting, connecting, blocked, endpoint, noWait, backoff, ws, sock,
                         errors, session, accepting, aged, todo, secondary>>
      BY <2>3 DEF Fail, Job
    <3> QED
      BY <1>2, <1>3, <3>1, Invariant, JobType, ApartJob, BusyJob DEF Steady, Same
  <2> QED
    BY <2>1, <2>2, <2>3
<1>5. NoneBegins
  BY <1>2, <1>4, NoneBeginsKept DEF Steady
<1> QED
  BY <1>1, <1>2, <1>4, <1>5, KeptByOthers DEF Steady

LEMMA ServeKeeps ==
  ASSUME IInv, Serve
  PROVE  IInv'
<1>0. UNCHANGED proxyVars /\ Loop \in Thread /\ \A x \in Stream : Worker(x) \in Thread
  BY Threads DEF Serve
<1>1. CASE Give
  BY <1>0, <1>1, GiveKeeps
<1>2. CASE LoopCheck \/ \E x \in Stream : OwnCheck(x)
  BY <1>0, <1>2, CheckKeeps DEF LoopCheck, OwnCheck
<1>3. CASE \E t \in Thread : CloseAll(t) \/ CloseDone(t)
  BY <1>0, <1>3, CloserKeeps
<1>4. CASE \E t \in Thread, x \in Stream : CloseEnter(t, x)
  BY <1>0, <1>4, EnterKeeps
<1>5. CASE \E x \in Stream : CloseStep(x) \/ Get(x) \/ InitFromOpen(x) \/ Attach(x) \/ Feed(x)
                             \/ Finish(x) \/ Fail(x) \/ End(x)
  BY <1>0, <1>5, ThreadKeeps
<1> QED
  BY <1>1, <1>2, <1>3, <1>4, <1>5 DEF Serve, StreamNext

LEMMA ProxyKeeps ==
  ASSUME IInv, Proxy
  PROVE  IInv'
<1>1. HttpNext /\ UNCHANGED <<wsVars, pingVars, world>>
  BY DEF Proxy
<1>2. UNCHANGED <<conVars, hand>>
  <2>1. CASE \E x \in Stream : Upload(x) \/ Trim(x) \/ Execute(x) \/ BodyDone(x)
    BY <2>1 DEF Upload, Trim, Execute, BodyDone
  <2>2. CASE \E x \in Stream : Post(x) \/ Push(x) \/ Send(x) \/ Look(x) \/ Decide(x) \/ Wait(x)
                               \/ ShutHttp(x) \/ DiscardHttp(x)
    BY <2>2 DEF Post, Push, Send, Look, Decide, Wait, ShutHttp, DiscardHttp
  <2>3. CASE \E x \in Stream : ReaderTop(x) \/ ReadChunk(x) \/ HoldBack(x) \/ ReadEnds(x) \/ ReaderFinal(x)
    BY <2>3 DEF ReaderTop, ReadChunk, HoldBack, ReadEnds, ReaderFinal, streamVars
  <2>4. CASE \E x \in Stream : ReadNothing(x) \/ ReadFull(x) \/ ReadPlain(x) \/ ReadPart(x) \/ ReadStream(x)
    BY <2>4 DEF ReadNothing, ReadFull, ReadPlain, ReadPart, ReadStream
  <2> QED
    BY <1>1, <2>1, <2>2, <2>3, <2>4 DEF HttpNext
<1>3. Steady
  BY <1>1, Invariant, HttpSteady
<1>4. ConTypeOK' /\ HandTypeOK' /\ PingTypeOK' /\ world' \in World
  BY <1>1, <1>2, SameRest, Invariant
<1>5. Apart'
  BY <1>2, <1>3, Invariant, ApartStreams DEF Steady
<1>6. NoneBegins
  BY <1>2, <1>3, BusySame, NoneBeginsKept DEF Steady, conVars
<1> QED
  BY <1>1, <1>3, <1>4, <1>5, <1>6, KeptByOthers DEF Steady

LEMMA ProxySocketKeeps ==
  ASSUME IInv, ProxySocket
  PROVE  IInv'
<1>1. WsNext /\ UNCHANGED <<pingVars, world>>
  BY DEF ProxySocket
<1>2. UNCHANGED hand
  BY <1>1 DEF WsNext, Refuse, Refused, FirstAttempt, OnWsError, Drop, Dial, ErrorCloses, Settle,
     OnWsOpened, WsEnds, OnWsClosed, OnWsDataFails, Pass, ShutWs, DiscardWs, CloseWorker, streamVars
<1>3. Steady
  BY <1>1, Invariant, WsSteady
<1>4. ConTypeOK' /\ Apart'
  BY <1>1, <1>3, Invariant, WsCon DEF Steady
<1>5. SocketsOK'
  BY <1>1, Invariant, WsType
<1>6. Tried' /\ Ended'
  BY <1>1, <1>3, Invariant, WsTried
<1>7. HandTypeOK' /\ PingTypeOK' /\ world' \in World
  BY <1>1, <1>2, SameRest, Invariant
<1> QED
  BY <1>3, <1>4, <1>5, <1>6, <1>7 DEF IInv, TypeOK, StreamsOK, SocketsOK, Steady, Kept

LEMMA PingKeeps ==
  ASSUME IInv, Ping \/ MoveNearer \/ UNCHANGED vars
  PROVE  IInv'
<1>1. UNCHANGED <<stream, hand, httpVars, wsVars, world>>
  BY DEF Ping, MoveNearer, vars, streamVars
<1>2. Steady
  BY <1>1, Invariant, Unchanged DEF httpVars
<1>3. ConTypeOK' /\ PingTypeOK' /\ Apart' /\ \A a \in Attempt : Busy(a)' => Busy(a)
  <2>1. CASE Ping
    BY <1>2, <2>1, SameRest, Invariant, PingType, ApartStreams, BusySame DEF Ping, Steady, conVars
  <2>2. CASE MoveNearer
    BY <1>1, <2>2, Invariant, FirstRunKeeps DEF MoveNearer
  <2>3. CASE UNCHANGED vars
    BY <1>2, <2>3, SameRest, Invariant, ApartStreams, BusySame DEF vars, Steady, conVars
  <2> QED
    BY <2>1, <2>2, <2>3
<1>4. NoneBegins
  BY <1>2, <1>3, NoneBeginsKept DEF Steady
<1>5. HandTypeOK' /\ world' \in World
  BY <1>1, SameRest, Invariant
<1> QED
  BY <1>1, <1>2, <1>3, <1>4, <1>5, KeptByOthers DEF Steady

LEMMA StepHolds == IInv /\ [Next]_vars => IInv'
BY ConnectKeeps, HearKeeps, ServeKeeps, ProxyKeeps, ProxySocketKeeps, PingKeeps DEF Next

LEMMA Holds == Spec => []IInv
BY InitHolds, StepHolds, PTL DEF Spec

(***************************************************************************)
(* What was to be shown.                                                   *)
(***************************************************************************)

LEMMA Settled ==
  ASSUME IInv
  PROVE  StreamSettled
<1> SUFFICES ASSUME NEW x \in Stream
             PROVE  LET s == stream[x] IN
                    /\ s.told <= 1
                    /\ s.closing = "done" => ~s.mapped /\ s.hasSent
                    /\ s.closing = "done" /\ s.at \in {"off", "done"} =>
                          /\ s.told = 1 \/ s.serverClosed
                          /\ s.helper # "none" => s.shut
  BY DEF StreamSettled
<1>1. stream[x] \in StreamState /\ Life(stream[x]) /\ Tell(stream[x], http[x])
  BY Invariant DEF StreamsOK, Local, One
<1> QED
  BY <1>1 DEF Life, Tell, Sending, StreamState

LEMMA Exact ==
  ASSUME IInv
  PROVE  BodiesExact
<1> SUFFICES ASSUME NEW x \in Stream
             PROVE  LET h == http[x] r == reader[x] IN
                    /\ ~stream[x].closed /\ h.last /\ ~r.late => h.sent \o h.piece = Units(0, h.made)
                    /\ ~stream[x].closed => h.sent \o h.piece \o FlattenSeq(r.acc \o r.list) = Units(0, h.made)
                    /\ ~h.dropped => IsPrefix(h.sent, Units(0, h.made))
                    /\ stream[x].at = "execute" => h.room = h.got
  BY DEF BodiesExact
<1> DEFINE h == http[x]
           r == reader[x]
           rest == FlattenSeq(r.acc \o r.list)
<1>1. /\ h \in HttpState /\ r \in ReaderState
      /\ Load(stream[x], h) /\ Tell(stream[x], h) /\ Flow(stream[x], h, r)
  BY Invariant DEF StreamsOK, Local, One
<1>2. h.sent \in Body /\ h.piece \in Body /\ rest \in Body
  <2>1. r.acc \o r.list \in Seq(Body)
    BY <1>1 DEF ReaderState
  <2> QED
    BY <1>1, <2>1, FlatType DEF HttpState
<1>3. ASSUME ~h.dropped
      PROVE  h.sent \o h.piece \o rest = Units(0, h.made)
  BY <1>1, <1>3 DEF Flow, Ending
<1>4. ASSUME ~h.dropped
      PROVE  IsPrefix(h.sent, Units(0, h.made))
  <2>1. Units(0, h.made) = h.sent \o (h.piece \o rest)
    BY <1>2, <1>3, <1>4, BodyAssoc
  <2>2. PICK t : t = h.piece \o rest
    OBVIOUS
  <2>3. t \in Body
    BY <1>2, <2>2 DEF Body
  <2> HIDE DEF h, rest
  <2>4. IsPrefix(h.sent, h.sent \o t)
    <3>1. Len(h.sent) \in Nat /\ Len(h.sent \o t) = Len(h.sent) + Len(t) /\ Len(t) \in Nat
      BY <1>2, <2>3 DEF Body
    <3>2. SubSeq(h.sent, 1, Len(h.sent)) = SubSeq(h.sent \o t, 1, Len(h.sent))
      BY <1>2, <2>3, <3>1 DEF Body
    <3> QED
      BY <3>1, <3>2 DEF IsPrefix
  <2> QED
    BY <2>1, <2>2, <2>4
<1>5. ~stream[x].closed => ~h.dropped
  BY <1>1 DEF Flow, Ending
<1>6. stream[x].at = "execute" => h.room = h.got
  BY <1>1 DEF Load
<1>7. ASSUME ~stream[x].closed, h.last, ~r.late
      PROVE  h.sent \o h.piece = Units(0, h.made)
  <2>1. r.acc = <<>> /\ r.list = <<>>
    BY <1>1, <1>7 DEF Tell, Flow, Ending
  <2>2. rest = <<>>
    <3>1. <<>> \o <<>> = <<>>
      BY EmptyBody, ConcatEmptySeq
    <3> QED
      BY <2>1, <3>1, FlatEmpty
  <2> HIDE DEF h, r, rest
  <2>3. (h.sent \o h.piece) \o <<>> = h.sent \o h.piece
    BY <1>2, ConcatProperties, ConcatEmptySeq DEF Body
  <2> QED
    BY <1>3, <1>5, <1>7, <2>2, <2>3
<1> QED
  BY <1>3, <1>4, <1>5, <1>6, <1>7

(* The type of every variable: of the connection, of the streams and their
   requests, of the attempts of the websocket and of the search.             *)
THEOREM TypeCorrect == Spec => []TypeOK
<1>1. IInv => TypeOK
  BY DEF IInv
<1> QED
  BY <1>1, Holds, PTL

(* However the close of a stream races with its thread, with the server's
   own close and with the closing of all streams, the server is told at most
   once, and at least once unless it closed the stream itself, and a helper
   that was made, however late, has been closed (webstreamimpl.py:84, :237). *)
THEOREM SettledCorrect == Spec => []StreamSettled
BY Settled, Holds, PTL

(* While a stream is open nothing of its body is lost, doubled or put out of
   order between the local server and the relay, whether the stream's thread
   reads it or the accumulation reader; at its end nothing is left behind but
   what came after the last look, with the end right behind it; what was sent
   of a closed one is its beginning until a piece is refused; and an upload is
   handed over with nothing added (webstreamhttphelper.py,
   httpstreamaccumulationreader.py).                                         *)
THEOREM BodiesCorrect == Spec => []BodiesExact
BY Exact, Holds, PTL

(* A closed websocket stream leaves no websocket behind, not even one that
   was being made when it was closed (webstreamwshelper.py:224).             *)
THEOREM NoLeakCorrect == Spec => []NoSocketLeft
<1>1. IInv => NoSocketLeft
  BY DEF IInv, Ended, NoSocketLeft
<1> QED
  BY <1>1, Holds, PTL

(* The late callbacks of an attempt that failed do not close the stream of
   the attempt made in its stead (webstreamwshelper.py:431).                 *)
THEOREM RetryCorrect == Spec => []RetryKeepsStream
<1>1. ASSUME IInv
      PROVE  RetryKeepsStream
  <2> SUFFICES ASSUME NEW a \in 1..Tries - 1, stream[W].closing # "no", stream[W].closer = Socket(a),
                      client[a + 1].sock \in Live
               PROVE  FALSE
    BY DEF RetryKeepsStream
  <2>1. a \in Attempt /\ a + 1 \in Attempt
    BY ConAssumption DEF Attempt
  <2>2. a + 1 = relay.tried
    BY <1>1, <2>1, Invariant, Standing
  <2> QED
    BY <1>1, <2>1, <2>2 DEF IInv, Tried, Closes
<1> QED
  BY <1>1, Holds, PTL

(* Before a connection gets its session every stream of an earlier one has
   been closed, whoever closes it and however many disconnects there are
   (servercon.py, session.py).                                               *)
THEOREM SessionsCorrect == Spec => []SessionsSeparate
<1>1. ASSUME IInv
      PROVE  SessionsSeparate
  <2>1. session \in Nat
    BY <1>1, Invariant, ConAssumption DEF ConTypeOK
  <2> QED
    BY <1>1, <2>1 DEF IInv, Apart, SessionsSeparate
<1> QED
  BY <1>1, Holds, PTL

====
