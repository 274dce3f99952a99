---------------------------- MODULE HaFiles_proof ----------------------------
(***************************************************************************)
(* Proofs about HaFiles, for every world: whatever the files, the curated  *)
(* lists and the addresses, and however often the add-on is started, no    *)
(* assistant is opened wider than its lists, and letting an address in     *)
(* lets in no other.                                                       *)
(*                                                                         *)
(* Kept is a recursive function over the lines of a file: what it keeps is *)
(* proved by induction on their number, with the least element of a set.   *)
(***************************************************************************)
EXTENDS HaFiles, SequenceTheorems, WellFoundedInduction, TLAPS

(***************************************************************************)
(* Induction over the natural numbers, on a set of them.                   *)
(***************************************************************************)

Before == OpToRel(<, Nat)

LEMMA BeforeDef == Before = {p \in Nat \X Nat : p[1] < p[2]}
BY DEF Before, OpToRel

LEMMA BeforeWellFounded == IsWellFoundedOn(Before, Nat)
BY NatLessThanWellFounded DEF Before, OpToRel

LEMMA Induction ==
  ASSUME NEW S, 0 \in S, \A n \in Nat : n \in S => n + 1 \in S
  PROVE  \A n \in Nat : n \in S
<1> DEFINE T == Nat \ S
<1>1. SUFFICES ASSUME T # {} PROVE FALSE
  OBVIOUS
<1>2. T \subseteq Nat
  OBVIOUS
<1>3. PICK x \in T : \A y \in T : <<y, x>> \notin Before
  <2> HIDE DEF T
  <2> QED
    BY <1>1, <1>2, BeforeWellFounded, WFMin
<1>4. x - 1 \in T
  <2>1. x # 0
    OBVIOUS
  <2> QED
    BY <2>1
<1>5. <<x - 1, x>> \in Before
  BY <1>4, BeforeDef
<1> QED
  BY <1>3, <1>4, <1>5

(***************************************************************************)
(* Kept: every line but those of one address.                              *)
(***************************************************************************)

(* The body of the function, up to an index. *)
Step(lines, ip, f, n) ==
  [i \in 0..n |-> IF i = 0 THEN <<>>
                  ELSE IF lines[i] = ip THEN f[i - 1] ELSE Append(f[i - 1], lines[i])]

LEMMA KeptExists ==
  ASSUME NEW q, NEW ip, NEW n \in Nat
  PROVE  \E f : f = Step(q, ip, f, n)
<1> DEFINE S == {k \in Nat : \E f : f = Step(q, ip, f, k)}
<1>1. 0 \in S
  <2> DEFINE f == [i \in 0..0 |-> <<>>]
  <2>1. f = Step(q, ip, f, 0)
    BY DEF Step
  <2> QED
    BY <2>1
<1>2. ASSUME NEW k \in Nat, k \in S
      PROVE  k + 1 \in S
  <2>1. PICK f : f = Step(q, ip, f, k)
    BY <1>2
  <2> DEFINE g == [i \in 0..(k + 1) |->
                     IF i \in 0..k THEN f[i]
                     ELSE IF q[k + 1] = ip THEN f[k] ELSE Append(f[k], q[k + 1])]
  <2>2. ASSUME NEW i \in 0..(k + 1)
        PROVE  g[i] = IF i = 0 THEN <<>>
                      ELSE IF q[i] = ip THEN g[i - 1] ELSE Append(g[i - 1], q[i])
    <3>1. CASE i = 0
      BY <2>1, <3>1 DEF Step
    <3>2. CASE i # 0 /\ i \in 0..k
      <4>1. i - 1 \in 0..k /\ i - 1 \in 0..(k + 1)
        BY <3>2
      <4>2. g[i] = f[i] /\ g[i - 1] = f[i - 1]
        BY <3>2, <4>1
      <4>3. f[i] = IF q[i] = ip THEN f[i - 1] ELSE Append(f[i - 1], q[i])
        <5>1. Step(q, ip, f, k)[i] = IF q[i] = ip THEN f[i - 1] ELSE Append(f[i - 1], q[i])
          BY <3>2 DEF Step
        <5> QED
          BY <2>1, <5>1
      <4> QED
        BY <3>2, <4>2, <4>3
    <3>3. CASE i = k + 1
      <4>1. i \notin 0..k /\ k \in 0..k /\ k \in 0..(k + 1) /\ i - 1 = k /\ i # 0
        BY <3>3
      <4>2. g[k] = f[k]
        BY <4>1
      <4> QED
        BY <3>3, <4>1, <4>2
    <3> QED
      BY <3>1, <3>2, <3>3
  <2>3. g = Step(q, ip, g, k + 1)
    BY <2>2, Zenon DEF Step
  <2> HIDE DEF g
  <2> QED
    BY <2>3
<1> HIDE DEF S
<1>3. n \in S
  BY <1>1, <1>2, Induction
<1> QED
  BY <1>3 DEF S

LEMMA KeptDef ==
  ASSUME NEW q, NEW ip, Len(q) \in Nat
  PROVE  \E f : f = Step(q, ip, f, Len(q)) /\ Kept(q, ip) = f[Len(q)]
<1> DEFINE F == CHOOSE f : f = Step(q, ip, f, Len(q))
<1>1. F = Step(q, ip, F, Len(q))
  BY KeptExists
<1>2. Kept(q, ip) = F[Len(q)]
  BY DEF Kept, Step
<1> QED
  BY <1>1, <1>2

(* A sequence and what is appended to it, as sets. *)
LEMMA RangeAppend ==
  ASSUME NEW A, NEW s \in Seq(A), NEW e \in A
  PROVE  Append(s, e) \in Seq(A) /\ Range(Append(s, e)) = Range(s) \union {e}
<1>1. /\ Append(s, e) \in Seq(A) /\ Len(Append(s, e)) = Len(s) + 1
      /\ \A i \in 1..Len(s) : Append(s, e)[i] = s[i]
      /\ Append(s, e)[Len(s) + 1] = e
  BY AppendProperties
<1>2. /\ DOMAIN s = 1..Len(s) /\ DOMAIN Append(s, e) = 1..(Len(s) + 1) /\ Len(s) \in Nat
  BY <1>1
<1>3. 1..(Len(s) + 1) = (1..Len(s)) \union {Len(s) + 1}
  BY <1>2
<1> QED
  BY <1>1, <1>2, <1>3 DEF Range

LEMMA KeptAll ==
  ASSUME NEW A, NEW q \in Seq(A), NEW ip
  PROVE  /\ Kept(q, ip) \in Seq(A)
         /\ Range(Kept(q, ip)) = Range(q) \ {ip}
<1>0. Len(q) \in Nat /\ DOMAIN q = 1..Len(q)
  OBVIOUS
<1>1. PICK f : f = Step(q, ip, f, Len(q)) /\ Kept(q, ip) = f[Len(q)]
  BY <1>0, KeptDef
<1>2. /\ f[0] = <<>>
      /\ \A i \in 1..Len(q) : f[i] = IF q[i] = ip THEN f[i - 1] ELSE Append(f[i - 1], q[i])
  <2>1. \A i \in 0..Len(q) : Step(q, ip, f, Len(q))[i] =
            IF i = 0 THEN <<>>
            ELSE IF q[i] = ip THEN f[i - 1] ELSE Append(f[i - 1], q[i])
    BY DEF Step
  <2>2. \A i \in 0..Len(q) : f[i] =
            IF i = 0 THEN <<>>
            ELSE IF q[i] = ip THEN f[i - 1] ELSE Append(f[i - 1], q[i])
    BY <1>1, <2>1
  <2> QED
    BY <1>0, <2>2
<1> DEFINE Good(n) == f[n] \in Seq(A) /\ Range(f[n]) = {q[i] : i \in 1..n} \ {ip}
           S == {n \in Nat : n <= Len(q) => Good(n)}
<1>3. 0 \in S
  <2>1. f[0] \in Seq(A) /\ Range(f[0]) = {}
    <3>1. \A B : <<>> \in Seq(B) /\ DOMAIN <<>> = {}
      OBVIOUS
    <3> QED
      BY <1>2, <3>1 DEF Range
  <2>2. 1..0 = {}
    OBVIOUS
  <2> QED
    BY <2>1, <2>2
<1>4. ASSUME NEW n \in Nat, n \in S
      PROVE  n + 1 \in S
  <2> SUFFICES ASSUME n + 1 <= Len(q)
               PROVE  Good(n + 1)
    OBVIOUS
  <2>1. Good(n)
    BY <1>4, <1>0
  <2>2. n + 1 \in 1..Len(q) /\ (n + 1) - 1 = n /\ q[n + 1] \in A /\ 1..(n + 1) = (1..n) \union {n + 1}
    BY <1>0
  <2>3. f[n + 1] = IF q[n + 1] = ip THEN f[n] ELSE Append(f[n], q[n + 1])
    BY <1>2, <2>2
  <2>4. {q[i] : i \in 1..(n + 1)} = {q[i] : i \in 1..n} \union {q[n + 1]}
    BY <2>2
  <2>5. CASE q[n + 1] = ip
    BY <2>1, <2>3, <2>4, <2>5
  <2>6. CASE q[n + 1] # ip
    <3>1. f[n + 1] \in Seq(A) /\ Range(f[n + 1]) = Range(f[n]) \union {q[n + 1]}
      BY <2>1, <2>2, <2>3, <2>6, RangeAppend
    <3> QED
      BY <2>1, <2>4, <2>6, <3>1
  <2> QED
    BY <2>5, <2>6
<1> HIDE DEF Good
<1>5. \A n \in Nat : n \in S
  <2> HIDE DEF S
  <2> QED
    BY <1>3, <1>4, Induction
<1>6. Good(Len(q))
  BY <1>0, <1>5
<1> QED
  BY <1>0, <1>1, <1>6 DEF Good, Range

(***************************************************************************)
(* The inductive invariant                                                 *)
(***************************************************************************)

(* What the file of an assistant is made from. *)
Genera(a, c) == IF a = "alexa" THEN GeneraAlexa(c) ELSE GeneraGoogle(c)

TimerPc == {None, "sleep", "clear", "restart", "defer", "undefer", "send"}

(* Every variable but the lines of configuration.yaml, in the file and as read. *)
StartOK ==
    /\ world \in Worlds
    /\ fresh \in Nat /\ unloaded \in BOOLEAN /\ boots \in 0 .. world.boots
    /\ addon \in {"off", "assistants", "read", "http", "updated", "run"}
RestartOK ==
    /\ RestartRequired \in BOOLEAN /\ IssueRestartOnConnect \in BOOLEAN
    /\ timer \in [Timer -> TimerPc]
    /\ link \in {"off", "on", "dead"} /\ restart \in BOOLEAN
VoiceOK ==
    /\ curated \in [Assistant -> world.lists]
    /\ gen.pc \in {None, "version", "read", "write"} /\ gen.of \in Assistant
    /\ gen = [pc |-> gen.pc, of |-> gen.of, draft |-> gen.draft]
    /\ DOMAIN voice = Assistant /\ voice = [a \in Assistant |-> voice[a]]
BansOK ==
    /\ banned \subseteq world.addresses /\ banFile \in Seq(world.addresses)
    /\ unban \in [pc : {None, "read", "write", "verify"}, ip : world.addresses \union {None},
                  seen : SUBSET world.addresses, lines : Seq(world.addresses)]
TypeOK == StartOK /\ RestartOK /\ VoiceOK /\ BansOK

(* Every file was made from one of the lists, and so is the one about to be written. *)
MadeFromLists ==
    /\ \A a \in Assistant : voice[a] = Absent \/ \E c \in world.lists : voice[a] = Genera(a, c)
    /\ gen.pc = "write" => \E c \in world.lists : gen.draft = Genera(gen.of, c)

(* What the command is about to write has every ban it has read but its own. *)
CopyWhole == unban.pc = "write" => \A ip \in unban.seen : ip = unban.ip \/ ip \in Range(unban.lines)

(* A restart that is due is some thread's business.                             *)
RestartKept == addon = "run" /\ RestartRequired => \E t \in Timer : timer[t] \in {"sleep", "clear"}

IInv == TypeOK /\ MadeFromLists /\ CopyWhole /\ RestartKept

LEMMA InitHolds == Init => IInv
<1> SUFFICES ASSUME Init
             PROVE  IInv
  OBVIOUS
<1>1. StartOK
  <2>1. world.boots \in Nat
    BY WorldsAssumption DEF Init
  <2>2. boots = 0 /\ fresh = 0 /\ addon = "off"
    BY DEF Init
  <2>3. world \in Worlds /\ unloaded \in BOOLEAN
    BY DEF Init
  <2> QED
    BY <2>1, <2>2, <2>3 DEF StartOK
<1>2. RestartOK
  BY DEF Init, RestartOK, TimerPc
<1>3. VoiceOK
  BY DEF Init, VoiceOK, Assistant, NoGen
<1>4. BansOK
  <2>1. \A B : << >> \in Seq(B)
    OBVIOUS
  <2> QED
    BY <2>1 DEF Init, BansOK, NoCommand
<1>5. MadeFromLists
  BY DEF Init, MadeFromLists, NoGen, None
<1>6. CopyWhole
  BY DEF Init, CopyWhole, NoCommand, None
<1>7. RestartKept
  BY DEF Init, RestartKept
<1> QED
  BY <1>1, <1>2, <1>3, <1>4, <1>5, <1>6, <1>7 DEF IInv, TypeOK

(* The start of the add-on. *)
LEMMA StartHolds ==
  ASSUME StartOK, [Next]_vars
  PROVE  StartOK'
<1>0. world.boots \in Nat
  BY WorldsAssumption DEF StartOK
<1>1. CASE UNCHANGED vars
  BY <1>1 DEF StartOK, vars, file, start
<1>2. CASE Next
  <2>0. world' = world
    BY <1>2 DEF Next
  <2>1. CASE Environment
    <3>1. CASE HaRestarts
      BY <2>0, <3>1 DEF StartOK, HaRestarts, Reads, start
    <3>2. CASE \E f \in world.files : UserEdits(f)
      BY <2>0, <3>2 DEF StartOK, UserEdits, start
    <3>3. CASE LinkBreaks \/ LinkCloses \/ (\E c \in [Assistant -> world.lists] : CurateLists(c))
               \/ (\E ip \in world.addresses : HaBans(ip))
      BY <2>0, <3>3 DEF StartOK, LinkBreaks, LinkCloses, CurateLists, HaBans, file, start
    <3> QED
      BY <2>1, <3>1, <3>2, <3>3 DEF Environment
  <2>2. CASE Boot
    <3>1. boots' = boots + 1 /\ boots < world.boots /\ addon' = "assistants" /\ UNCHANGED file
      BY <2>2 DEF Boot
    <3> QED
      BY <1>0, <2>0, <3>1 DEF StartOK, file
  <2>3. CASE Stop
    <3>1. fresh' = fresh \/ fresh' = 0
      BY <2>3 DEF Stop
    <3>2. addon' = "off" /\ boots' = boots /\ unloaded' = unloaded
      BY <2>3 DEF Stop
    <3> QED
      BY <2>0, <3>1, <3>2 DEF StartOK
  <2>4. CASE WriteAssistants \/ WriteHttp
    <3>1. fresh' = fresh \/ fresh' = fresh + 1
      BY <2>4 DEF WriteAssistants, WriteHttp
    <3>2. unloaded' \in BOOLEAN
      BY <2>4 DEF WriteAssistants, WriteHttp, Writes
    <3>3. addon' \in {"read", "updated"} /\ boots' = boots
      BY <2>4 DEF WriteAssistants, WriteHttp
    <3> QED
      BY <2>0, <3>1, <3>2, <3>3 DEF StartOK
  <2>5. CASE ReadAgain \/ Started
    BY <2>0, <2>5 DEF StartOK, ReadAgain, Started, file
  <2>6. CASE Connect \/ VoiceStep \/ UnbanStep \/ (\E ip \in world.addresses : Unban(ip))
    <3>1. UNCHANGED <<file, start>>
      BY <2>6 DEF Connect, VoiceStep, LearnVersion, ReadCurated, WriteVoice,
                  UnbanStep, ReadBans, WriteBans, VerifyBan, Unban
    <3> QED
      BY <2>0, <3>1 DEF StartOK, file, start
  <2>7. CASE \E t \in Timer : TimerStep(t) \/ NeedsRestart(t)
    <3>1. UNCHANGED <<file, start>>
      BY <2>7 DEF TimerStep, Wake, Clear, RestartHa, TestLink, DeferRestart, Undefer, SendRestart, NeedsRestart
    <3> QED
      BY <2>0, <3>1 DEF StartOK, file, start
  <2> QED
    BY <1>2, <2>1, <2>2, <2>3, <2>4, <2>5, <2>6, <2>7 DEF Next, StartStep
<1> QED
  BY <1>1, <1>2

(* The restarts. A thread leaves without one only when another has crossed it off. *)
LEMMA RestartHolds ==
  ASSUME RestartOK, RestartKept, [Next]_vars
  PROVE  RestartOK' /\ RestartKept'
<1>1. CASE UNCHANGED <<RestartRequired, timer, IssueRestartOnConnect, link, restart, addon>>
  BY <1>1 DEF RestartOK, RestartKept
<1>2. CASE HaRestarts
  <2>1. /\ UNCHANGED <<RestartRequired, timer, IssueRestartOnConnect, addon>>
        /\ restart' = FALSE /\ link' \in {"off", "dead"} /\ (link = "off" => link' = "off")
    BY <1>2 DEF HaRestarts, Reads, start, restarts
  <2> QED
    BY <2>1 DEF RestartOK, RestartKept
<1>3. CASE LinkBreaks \/ LinkCloses
  <2>1. /\ UNCHANGED <<RestartRequired, timer, IssueRestartOnConnect, addon, restart>>
        /\ link' \in {"off", "dead"} /\ link # "off"
    BY <1>3 DEF LinkBreaks, LinkCloses, start, restarts
  <2> QED
    BY <2>1 DEF RestartOK, RestartKept
<1>4. CASE Connect
  <2>1. /\ UNCHANGED <<RestartRequired, timer, addon>>
        /\ IssueRestartOnConnect' = FALSE /\ link' = "on" /\ restart' \in BOOLEAN
    BY <1>4 DEF Connect, start
  <2> QED
    BY <2>1 DEF RestartOK, RestartKept
<1>5. CASE Boot \/ ReadAgain
  <2>1. /\ UNCHANGED <<RestartRequired, timer, IssueRestartOnConnect, link, restart>>
        /\ addon' # "run"
    BY <1>5 DEF Boot, ReadAgain, restarts, home
  <2> QED
    BY <2>1 DEF RestartOK, RestartKept
<1>6. CASE WriteAssistants \/ WriteHttp
  <2>1. /\ UNCHANGED <<timer, IssueRestartOnConnect, link, restart>>
        /\ addon' # "run"
    BY <1>6 DEF WriteAssistants, WriteHttp, home
  <2>2. RestartRequired' \in BOOLEAN
    BY <1>6 DEF WriteAssistants, WriteHttp, Writes
  <2> QED
    BY <2>1, <2>2 DEF RestartOK, RestartKept
<1>7. CASE Started
  <2>1. UNCHANGED <<RestartRequired, IssueRestartOnConnect, link, restart>>
    BY <1>7 DEF Started, home
  <2>2. CASE RestartRequired
    <3>1. PICK t \in Timer : timer' = [timer EXCEPT ![t] = "sleep"]
      BY <1>7, <2>2 DEF Started, NewTimer
    <3>2. timer' \in [Timer -> TimerPc] /\ timer'[t] = "sleep"
      BY <3>1 DEF RestartOK, TimerPc
    <3> QED
      BY <2>1, <3>2 DEF RestartOK, RestartKept
  <2>3. CASE ~RestartRequired
    <3>1. timer' = timer
      BY <1>7, <2>3 DEF Started
    <3> QED
      BY <2>1, <2>3, <3>1 DEF RestartOK, RestartKept
  <2> QED
    BY <2>2, <2>3
<1>8. CASE Stop
  <2>1. /\ RestartRequired' = FALSE /\ IssueRestartOnConnect' = FALSE
        /\ timer' = [t \in Timer |-> None] /\ link' = "off" /\ restart' = restart
    BY <1>8 DEF Stop
  <2> QED
    BY <2>1 DEF RestartOK, RestartKept, TimerPc
<1>9. ASSUME NEW t \in Timer, NeedsRestart(t)
      PROVE  RestartOK' /\ RestartKept'
  <2>1. /\ UNCHANGED <<RestartRequired, IssueRestartOnConnect, link, restart>>
        /\ timer' = [timer EXCEPT ![t] = "sleep"]
    BY <1>9 DEF NeedsRestart, NewTimer, home
  <2>2. timer' \in [Timer -> TimerPc] /\ timer'[t] = "sleep"
    BY <2>1 DEF RestartOK, TimerPc
  <2> QED
    BY <2>1, <2>2 DEF RestartOK, RestartKept
<1>10. ASSUME NEW t \in Timer, Wake(t)
       PROVE  RestartOK' /\ RestartKept'
  <2>1. /\ UNCHANGED <<RestartRequired, IssueRestartOnConnect, link, restart, addon>>
        /\ timer' = [timer EXCEPT ![t] = IF RestartRequired THEN "clear" ELSE None]
    BY <1>10 DEF Wake, start, home
  <2>2. /\ timer' \in [Timer -> TimerPc]
        /\ RestartRequired => timer'[t] = "clear"
    BY <2>1 DEF RestartOK, TimerPc
  <2> QED
    BY <2>1, <2>2 DEF RestartOK, RestartKept
<1>11. ASSUME NEW t \in Timer, Clear(t)
       PROVE  RestartOK' /\ RestartKept'
  <2>1. /\ UNCHANGED <<IssueRestartOnConnect, link, restart, addon>>
        /\ RestartRequired' = FALSE
        /\ timer' = [timer EXCEPT ![t] = "restart"]
    BY <1>11 DEF Clear, start, home
  <2>2. timer' \in [Timer -> TimerPc]
    BY <2>1 DEF RestartOK, TimerPc
  <2> QED
    BY <2>1, <2>2 DEF RestartOK, RestartKept
<1>12. ASSUME NEW t \in Timer, RestartHa(t)
       PROVE  RestartOK' /\ RestartKept'
  <2>1. /\ UNCHANGED <<RestartRequired, link, addon>> /\ timer[t] \notin {"sleep", "clear"}
        /\ \E pc \in TimerPc : timer' = [timer EXCEPT ![t] = pc]
    BY <1>12 DEF RestartHa, TestLink, DeferRestart, Undefer, SendRestart, start, home, TimerPc
  <2>2. /\ timer' \in [Timer -> TimerPc]
        /\ \A s \in Timer : timer[s] \in {"sleep", "clear"} => timer'[s] = timer[s]
    BY <2>1 DEF RestartOK
  <2>3. restart' \in BOOLEAN /\ IssueRestartOnConnect' \in BOOLEAN
    BY <1>12 DEF RestartHa, TestLink, DeferRestart, Undefer, SendRestart, home, RestartOK
  <2>4. RestartOK'
    BY <2>1, <2>2, <2>3 DEF RestartOK
  <2> QED
    BY <2>1, <2>2, <2>4 DEF RestartKept
<1>13. CASE VerifyBan
  <2>1. /\ UNCHANGED <<RestartRequired, timer, IssueRestartOnConnect, link, addon>>
        /\ restart' \in BOOLEAN
    BY <1>13 DEF VerifyBan, start, restarts
  <2> QED
    BY <2>1 DEF RestartOK, RestartKept
<1>14. CASE \/ \E f \in world.files : UserEdits(f)
            \/ \E c \in [Assistant -> world.lists] : CurateLists(c)
            \/ \E ip \in world.addresses : HaBans(ip) \/ Unban(ip)
            \/ VoiceStep \/ ReadBans \/ WriteBans
  <2>1. UNCHANGED <<start, restarts, home>>
    BY <1>14 DEF UserEdits, CurateLists, HaBans, Unban, VoiceStep, LearnVersion, ReadCurated, WriteVoice,
                 ReadBans, WriteBans
  <2> QED
    BY <1>1, <2>1 DEF start, restarts, home
<1>15. CASE UNCHANGED vars
  BY <1>1, <1>15 DEF vars, start, restarts, home
<1> QED
  BY <1>2, <1>3, <1>4, <1>5, <1>6, <1>7, <1>8, <1>9, <1>10, <1>11, <1>12, <1>13, <1>14, <1>15
     DEF Next, Environment, StartStep, UnbanStep, TimerStep

(* The files of the assistants. *)
LEMMA VoiceHolds ==
  ASSUME VoiceOK, MadeFromLists, [Next]_vars
  PROVE  VoiceOK' /\ MadeFromLists'
<1>1. CASE UNCHANGED <<world, voices>>
  BY <1>1, Zenon DEF VoiceOK, MadeFromLists, voices
<1>0. CASE UNCHANGED vars
  BY <1>0, <1>1 DEF vars
<1>a. ASSUME Next
      PROVE  world' = world
  BY <1>a DEF Next
<1>2. ASSUME world' = world, NEW c \in [Assistant -> world.lists], CurateLists(c)
      PROVE  VoiceOK' /\ MadeFromLists'
  <2>1. curated' = c /\ voice' = voice /\ gen' = gen
    BY <1>2 DEF CurateLists
  <2> QED
    BY <1>2, <2>1 DEF VoiceOK, MadeFromLists
<1>3. CASE world' = world /\ Started
  <2>1. /\ curated' = curated /\ voice' = voice
        /\ gen' = [pc |-> "version", of |-> "alexa", draft |-> Absent]
    BY <1>3 DEF Started, NoGen
  <2> QED
    BY <1>3, <2>1 DEF VoiceOK, MadeFromLists, Assistant
<1>4. CASE world' = world /\ Stop
  <2>1. /\ curated' = curated /\ voice' = voice
        /\ gen' = [pc |-> None, of |-> "alexa", draft |-> Absent]
    BY <1>4 DEF Stop, NoGen
  <2> QED
    BY <1>4, <2>1 DEF VoiceOK, MadeFromLists, Assistant, None
<1>5. CASE world' = world /\ LearnVersion
  <2>1. /\ curated' = curated /\ voice' = voice
        /\ gen' = [gen EXCEPT !.pc = "read"]
    BY <1>5 DEF LearnVersion
  <2>2. gen' = [pc |-> "read", of |-> gen.of, draft |-> gen.draft]
    BY <2>1 DEF VoiceOK
  <2> QED
    BY <1>5, <2>1, <2>2 DEF VoiceOK, MadeFromLists, Assistant
<1>6. CASE world' = world /\ ReadCurated
  <2> DEFINE made == IF gen.of = "alexa" THEN GeneraAlexa(curated["alexa"])
                     ELSE GeneraGoogle(curated["google"])
  <2>1. /\ curated' = curated /\ voice' = voice
        /\ gen' = [gen EXCEPT !.pc = "write", !.draft = made]
    BY <1>6 DEF ReadCurated
  <2>2. \E c \in world.lists : made = Genera(gen.of, c)
    BY DEF VoiceOK, Assistant, Genera
  <2> HIDE DEF made
  <2>3. gen' = [pc |-> "write", of |-> gen.of, draft |-> made]
    BY <2>1 DEF VoiceOK
  <2>4. gen'.of = gen.of /\ gen'.draft = made /\ gen'.pc = "write"
    BY <2>3
  <2>5. VoiceOK'
    BY <1>6, <2>1, <2>3, <2>4 DEF VoiceOK
  <2> QED
    BY <1>6, <2>1, <2>2, <2>4, <2>5 DEF MadeFromLists
<1>7. CASE world' = world /\ WriteVoice
  <2>1. /\ curated' = curated /\ gen.pc = "write"
        /\ voice' = [voice EXCEPT ![gen.of] = gen.draft] \/ voice' = voice
        /\ gen' = IF gen.of = "alexa" THEN [gen EXCEPT !.pc = "read", !.of = "google", !.draft = Absent] ELSE NoGen
    BY <1>7 DEF WriteVoice
  <2>2. PICK c \in world.lists : gen.draft = Genera(gen.of, c)
    BY <2>1 DEF MadeFromLists
  <2>3. \A a \in Assistant : voice'[a] = voice[a] \/ (a = gen.of /\ voice'[a] = gen.draft)
    BY <2>1 DEF VoiceOK
  <2>4. /\ \/ gen' = [pc |-> "read", of |-> "google", draft |-> Absent]
           \/ gen' = [pc |-> None, of |-> "alexa", draft |-> Absent]
    BY <2>1 DEF VoiceOK, NoGen
  <2>5. /\ gen' = [pc |-> gen'.pc, of |-> gen'.of, draft |-> gen'.draft]
        /\ gen'.pc \in {None, "read"} /\ gen'.of \in Assistant
    BY <2>4 DEF Assistant
  <2>6. DOMAIN voice' = Assistant /\ voice' = [a \in Assistant |-> voice'[a]]
    BY <2>1 DEF VoiceOK
  <2>7. VoiceOK'
    BY <1>7, <2>1, <2>5, <2>6 DEF VoiceOK
  <2>8. ASSUME NEW a \in Assistant
        PROVE  voice'[a] = Absent \/ \E d \in world.lists : voice'[a] = Genera(a, d)
    BY <2>2, <2>3 DEF MadeFromLists
  <2> QED
    BY <1>7, <2>5, <2>7, <2>8 DEF MadeFromLists, None
<1>8. ASSUME Next, \/ HaRestarts \/ LinkBreaks \/ LinkCloses \/ Boot \/ Connect
                   \/ (\E f \in world.files : UserEdits(f))
                   \/ (\E ip \in world.addresses : HaBans(ip) \/ Unban(ip))
                   \/ WriteAssistants \/ ReadAgain \/ WriteHttp \/ UnbanStep
      PROVE  UNCHANGED voices
  BY <1>8, Zenon DEF HaRestarts, LinkBreaks, LinkCloses, Boot, Connect, UserEdits, HaBans, Unban, WriteAssistants,
              ReadAgain, WriteHttp, UnbanStep, ReadBans, WriteBans, VerifyBan
<1>9. ASSUME NEW t \in Timer, TimerStep(t) \/ NeedsRestart(t)
      PROVE  UNCHANGED voices
  BY <1>9 DEF TimerStep, Wake, Clear, RestartHa, TestLink, DeferRestart, Undefer, SendRestart, NeedsRestart
<1> QED
  BY <1>0, <1>a, <1>1, <1>2, <1>3, <1>4, <1>5, <1>6, <1>7, <1>8, <1>9 DEF Next, Environment, StartStep, VoiceStep

(* The bans. *)
LEMMA BansHold ==
  ASSUME BansOK, CopyWhole, [Next]_vars
  PROVE  BansOK' /\ CopyWhole'
<1>0. CASE UNCHANGED vars
  BY <1>0, Zenon DEF vars, bans, BansOK, CopyWhole
<1>1. CASE UNCHANGED <<world, bans>>
  BY <1>1, Zenon DEF bans, BansOK, CopyWhole
<1>a. ASSUME Next
      PROVE  world' = world
  BY <1>a DEF Next
<1>b. Range(banFile) \subseteq world.addresses /\ \A B : << >> \in Seq(B)
  <2>1. \A i \in DOMAIN banFile : banFile[i] \in world.addresses
    BY DEF BansOK
  <2> QED
    BY <2>1 DEF Range
<1>2. CASE world' = world /\ HaRestarts
  <2>1. banned' = Range(banFile) /\ banFile' = banFile /\ unban' = unban
    BY <1>2 DEF HaRestarts, Reads
  <2> QED
    BY <1>2, <1>b, <2>1 DEF BansOK, CopyWhole
<1>3. ASSUME world' = world, NEW ip \in world.addresses, HaBans(ip)
      PROVE  BansOK' /\ CopyWhole'
  <2>1. banned' = banned \union {ip} /\ banFile' = Append(banFile, ip) /\ unban' = unban
    BY <1>3 DEF HaBans
  <2>2. banFile' \in Seq(world.addresses)
    BY <2>1, RangeAppend DEF BansOK
  <2> QED
    BY <1>3, <2>1, <2>2 DEF BansOK, CopyWhole
<1>4. ASSUME world' = world, NEW ip \in world.addresses, Unban(ip)
      PROVE  BansOK' /\ CopyWhole'
  <2>1. /\ unban' = [pc |-> "read", ip |-> ip, seen |-> {}, lines |-> << >>]
        /\ banned' = banned /\ banFile' = banFile
    BY <1>4 DEF Unban, NoCommand
  <2> QED
    BY <1>4, <1>b, <2>1 DEF BansOK, CopyWhole
<1>5. CASE world' = world /\ ReadBans
  <2>1. /\ unban' = [unban EXCEPT !.pc = "write", !.seen = Range(banFile), !.lines = Kept(banFile, unban.ip)]
        /\ banned' = banned /\ banFile' = banFile
    BY <1>5 DEF ReadBans
  <2> DEFINE lines == Kept(banFile, unban.ip)
  <2>2. lines \in Seq(world.addresses) /\ Range(lines) = Range(banFile) \ {unban.ip}
    BY KeptAll DEF BansOK
  <2> HIDE DEF lines
  <2>3. unban' = [pc |-> "write", ip |-> unban.ip, seen |-> Range(banFile), lines |-> lines]
    BY <2>1 DEF BansOK, lines
  <2>4. /\ unban'.pc = "write" /\ unban'.ip = unban.ip /\ unban'.seen = Range(banFile)
        /\ unban'.lines = lines
    BY <2>3
  <2>5. BansOK'
    BY <1>5, <1>b, <2>1, <2>2, <2>3 DEF BansOK
  <2> QED
    BY <2>2, <2>4, <2>5 DEF CopyWhole
<1>6. CASE world' = world /\ WriteBans
  <2>1. /\ unban' = [unban EXCEPT !.pc = "verify"]
        /\ banned' = banned /\ banFile' = unban.lines
    BY <1>6 DEF WriteBans
  <2>2. unban'.pc = "verify"
    BY <2>1 DEF BansOK
  <2>3. BansOK'
    BY <1>6, <2>1 DEF BansOK
  <2> QED
    BY <2>2, <2>3 DEF CopyWhole
<1>7. CASE world' = world /\ VerifyBan
  <2>1. /\ unban' = [pc |-> None, ip |-> None, seen |-> {}, lines |-> << >>]
        /\ banned' = banned /\ banFile' = banFile
    BY <1>7 DEF VerifyBan, NoCommand
  <2> QED
    BY <1>7, <1>b, <2>1 DEF BansOK, CopyWhole, None
<1>8. CASE world' = world /\ Stop
  <2>1. /\ unban' = [pc |-> None, ip |-> None, seen |-> {}, lines |-> << >>]
        /\ banned' = banned
    BY <1>8 DEF Stop, NoCommand
  <2>2. banFile' = banFile \/ banFile' = << >>
    BY <1>8 DEF Stop
  <2> QED
    BY <1>8, <1>b, <2>1, <2>2 DEF BansOK, CopyWhole, None
<1>9. ASSUME \/ LinkBreaks \/ LinkCloses \/ Boot \/ Connect
             \/ (\E f \in world.files : UserEdits(f))
             \/ (\E c \in [Assistant -> world.lists] : CurateLists(c))
             \/ StartStep \/ VoiceStep
      PROVE  UNCHANGED bans
  BY <1>9, Zenon DEF LinkBreaks, LinkCloses, Boot, Connect, UserEdits, CurateLists, StartStep, WriteAssistants,
              ReadAgain, WriteHttp, Started, VoiceStep, LearnVersion, ReadCurated, WriteVoice
<1>10. ASSUME NEW t \in Timer, TimerStep(t) \/ NeedsRestart(t)
       PROVE  UNCHANGED bans
  BY <1>10 DEF TimerStep, Wake, Clear, RestartHa, TestLink, DeferRestart, Undefer, SendRestart, NeedsRestart
<1> QED
  BY <1>0, <1>a, <1>1, <1>2, <1>3, <1>4, <1>5, <1>6, <1>7, <1>8, <1>9, <1>10 DEF Next, Environment, UnbanStep

LEMMA Holds == Spec => []IInv
<1>1. IInv /\ [Next]_vars => IInv'
  BY StartHolds, RestartHolds, VoiceHolds, BansHold DEF IInv, TypeOK
<1> QED
  BY InitHolds, <1>1, PTL DEF Spec

(***************************************************************************)
(* The theorems                                                            *)
(***************************************************************************)

(* Every variable but the lines of configuration.yaml keeps its type.            *)
THEOREM TypeCorrect == Spec => []TypeOK
<1>1. IInv => TypeOK
  BY DEF IInv
<1> QED
  BY <1>1, Holds, PTL

(* What is made from a list exposes nothing that is not on it: an empty list closes
   the house, and Google's file exposes by its entity_config.                    *)
LEMMA MadeExposes ==
  ASSUME NEW a \in Assistant, NEW c
  PROVE  Exposes(a, Genera(a, c)) \subseteq IF c = Absent THEN {} ELSE c.list
<1>1. Voci(c).list = IF c = Absent THEN {} ELSE c.list
  BY DEF Voci
<1>2. CASE a = "google"
  BY <1>1, <1>2 DEF Exposes, Genera, GeneraGoogle
<1>3. CASE a = "alexa"
  BY <1>1, <1>3 DEF Exposes, Genera, GeneraAlexa
<1> QED
  BY <1>2, <1>3 DEF Assistant

(* No file ever exposes an entity that no curated list named, whatever the lists are,
   missing, unreadable or empty, and whatever they become while the files are made
   (assistentivocali.py, AggiornaSeServe).                                       *)
THEOREM OnlyNamedCorrect == Spec => []OnlyNamedExposed
<1>1. ASSUME IInv, NEW a \in Assistant
      PROVE  Exposes(a, voice[a]) \subseteq Named
  <2>1. CASE voice[a] = Absent
    BY <2>1 DEF Exposes
  <2>2. CASE voice[a] # Absent
    <3>1. PICK c \in world.lists : voice[a] = Genera(a, c)
      BY <1>1, <2>2 DEF IInv, MadeFromLists
    <3>2. Exposes(a, voice[a]) \subseteq IF c = Absent THEN {} ELSE c.list
      BY <3>1, MadeExposes
    <3> QED
      BY <3>2 DEF Named
  <2> QED
    BY <2>1, <2>2
<1>2. IInv => OnlyNamedExposed
  BY <1>1 DEF OnlyNamedExposed
<1> QED
  BY <1>2, Holds, PTL

(* A ban leaves the file only because its own address was let in, or because it came
   while the command held its copy, unless the add-on is stopped: for any number of
   addresses (cloud_worker.py, _on_unban).                                       *)
THEOREM OnlyOwnBanCorrect == Spec => OnlyOwnBanLifted
<1>1. ASSUME IInv, [Next]_vars, addon' # "off", NEW ip \in Range(banFile) \ Range(banFile')
      PROVE  ip = unban.ip \/ ip \notin unban.seen
  <2>1. CASE WriteBans
    <3>1. banFile' = unban.lines /\ unban.pc = "write"
      BY <2>1 DEF WriteBans
    <3> QED
      BY <1>1, <3>1 DEF IInv, CopyWhole
  <2>2. ASSUME NEW new \in world.addresses, HaBans(new)
        PROVE  FALSE
    <3>1. banFile' = Append(banFile, new) /\ banFile \in Seq(world.addresses)
      BY <1>1, <2>2 DEF HaBans, IInv, TypeOK, BansOK
    <3>2. Range(banFile') = Range(banFile) \union {new}
      BY <3>1, RangeAppend
    <3> QED
      BY <1>1, <3>2
  <2>3. CASE Stop
    BY <1>1, <2>3 DEF Stop
  <2>4. CASE \/ HaRestarts \/ LinkBreaks \/ LinkCloses \/ Boot \/ Connect
             \/ (\E f \in world.files : UserEdits(f))
             \/ (\E c \in [Assistant -> world.lists] : CurateLists(c))
             \/ (\E i \in world.addresses : Unban(i))
             \/ StartStep \/ VoiceStep \/ ReadBans \/ VerifyBan
    <3>1. banFile' = banFile
      BY <2>4 DEF HaRestarts, LinkBreaks, LinkCloses, Boot, Connect, UserEdits, CurateLists, Unban, StartStep,
                  WriteAssistants, ReadAgain, WriteHttp, Started, VoiceStep, LearnVersion, ReadCurated, WriteVoice,
                  ReadBans, VerifyBan, bans
    <3> QED
      BY <1>1, <3>1
  <2>5. CASE \E t \in Timer : TimerStep(t) \/ NeedsRestart(t)
    <3>1. banFile' = banFile
      BY <2>5 DEF TimerStep, Wake, Clear, RestartHa, TestLink, DeferRestart, Undefer, SendRestart, NeedsRestart, bans
    <3> QED
      BY <1>1, <3>1
  <2>6. CASE UNCHANGED vars
    BY <1>1, <2>6 DEF vars, bans
  <2> QED
    BY <1>1, <2>1, <2>2, <2>3, <2>4, <2>5, <2>6 DEF Next, Environment, UnbanStep
<1>2. IInv /\ [Next]_vars =>
        [addon' # "off" =>
           \A ip \in Range(banFile) \ Range(banFile') : ip = unban.ip \/ ip \notin unban.seen]_vars
  BY <1>1
<1> QED
  BY <1>2, Holds, PTL DEF Spec, OnlyOwnBanLifted

(* The safety that ChangeLoaded rests on: while the add-on runs, a restart that is due has
   a thread that will see to it, however many there are and whichever crosses it off
   first (configmanager.py, _RestartHomeAssistant_Thread).                      *)
THEOREM DueHasThread ==
  Spec => [](addon = "run" /\ RestartRequired => \E t \in Timer : timer[t] \in {"sleep", "clear"})
<1>1. IInv => (addon = "run" /\ RestartRequired => \E t \in Timer : timer[t] \in {"sleep", "clear"})
  BY DEF IInv, RestartKept
<1> QED
  BY <1>1, Holds, PTL

(* A restart in hand is not dropped half way: from RestartRequired to the thread, from the
   thread to the flag, from the flag or the thread to Home Assistant, whatever the other
   threads and the connection do meanwhile (configmanager.py:434-446; connection.py,
   RestartHa and _OnConnected).                                                 *)
THEOREM RestartHandedOnHolds == Spec => RestartHandedOn
<1>1. ASSUME IInv, [Next]_vars, RestartPending
      PROVE  RestartPending' \/ restart' \/ addon' = "off" \/ link # "on"
  <2>a. timer \in [Timer -> TimerPc]
    BY <1>1 DEF IInv, TypeOK, RestartOK
  <2>1. CASE UNCHANGED restarts
    BY <1>1, <2>1 DEF restarts, RestartPending, InHand
  <2>2. CASE \/ Environment \/ Boot \/ ReadAgain \/ VoiceStep \/ UnbanStep
             \/ (\E ip \in world.addresses : Unban(ip)) \/ UNCHANGED vars
    <3>1. UNCHANGED restarts
      BY <2>2 DEF Environment, HaRestarts, LinkBreaks, LinkCloses, UserEdits, CurateLists, HaBans, Boot,
                  ReadAgain, VoiceStep, LearnVersion, ReadCurated, WriteVoice, UnbanStep, ReadBans,
                  WriteBans, VerifyBan, Unban, restarts, vars
    <3> QED
      BY <2>1, <3>1
  <2>3. CASE WriteAssistants \/ WriteHttp
    <3>1. (RestartRequired => RestartRequired') /\ UNCHANGED <<timer, IssueRestartOnConnect>>
      BY <2>3 DEF WriteAssistants, WriteHttp, Writes
    <3> QED
      BY <1>1, <3>1 DEF RestartPending, InHand
  <2>4. ASSUME NEW t \in Timer, NewTimer(t), UNCHANGED <<RestartRequired, IssueRestartOnConnect>>
        PROVE  RestartPending'
    <3>1. \A s \in Timer : InHand(s) => InHand(s)'
      BY <2>a, <2>4 DEF NewTimer, InHand, None
    <3> QED
      BY <1>1, <2>4, <3>1 DEF RestartPending
  <2>5. CASE Started \/ \E t \in Timer : NeedsRestart(t)
    BY <2>1, <2>4, <2>5 DEF Started, NeedsRestart, restarts
  <2>6. CASE Stop
    BY <2>6 DEF Stop
  <2>7. CASE Connect
    <3>1. \/ restart'
          \/ ~IssueRestartOnConnect /\ UNCHANGED <<RestartRequired, timer>>
      BY <2>7 DEF Connect
    <3> QED
      BY <1>1, <3>1 DEF RestartPending, InHand
  <2>8. ASSUME NEW t \in Timer, TimerStep(t)
        PROVE  RestartPending' \/ restart' \/ link # "on"
    <3>1. CASE Wake(t)
      <4>1. \A s \in Timer : InHand(s) => InHand(s)'
        BY <2>a, <3>1 DEF Wake, InHand
      <4> QED
        BY <1>1, <3>1, <4>1 DEF Wake, RestartPending
    <3>2. CASE Clear(t) \/ TestLink(t) \/ Undefer(t)
      <4>1. InHand(t)'
        BY <2>a, <3>2 DEF Clear, TestLink, Undefer, InHand
      <4> QED
        BY <4>1 DEF RestartPending
    <3>3. CASE DeferRestart(t)
      BY <3>3 DEF DeferRestart, RestartPending
    <3>4. CASE SendRestart(t)
      BY <3>4 DEF SendRestart
    <3> QED
      BY <2>8, <3>1, <3>2, <3>3, <3>4 DEF TimerStep, RestartHa
  <2> QED
    BY <1>1, <2>2, <2>3, <2>5, <2>6, <2>7, <2>8 DEF Next, StartStep
<1>2. IInv /\ [Next]_vars =>
        [RestartPending /\ ~RestartPending' => restart' \/ addon' = "off" \/ link # "on"]_vars
  BY <1>1
<1> QED
  BY <1>2, Holds, PTL DEF Spec, RestartHandedOn

==============================================================================
