------------------------- MODULE HubIdentity_proof -------------------------
(***************************************************************************)
(* Theorems of HubIdentity, for any number of hubs, addresses and random   *)
(* values.                                                                 *)
(***************************************************************************)
EXTENDS HubIdentity, TLAPS

-----------------------------------------------------------------------------
(* The secrets store keeps its types.                                        *)

LEMMA LoadedTyped ==
    ASSUME TypeOK, NEW h \in Hub
    PROVE  Loaded(h) \in Record
BY DEF TypeOK, Loaded

LEMMA GetTyped ==
    ASSUME TypeOK, NEW h \in Hub, Get(h)
    PROVE  disk' \in [Hub -> Record] /\ mem' \in [Hub -> Record \union {None}]
BY LoadedTyped DEF TypeOK, Get

LEMMA SaveTyped ==
    ASSUME TypeOK, NEW h \in Hub, NEW r \in Record, NEW ok, Save(h, r, ok)
    PROVE  disk' \in [Hub -> Record] /\ mem' \in [Hub -> Record \union {None}]
BY DEF TypeOK, Save

LEMMA SettersTyped ==
    ASSUME TypeOK, NEW h \in Hub, NEW i \in OptId, NEW ms \in SUBSET Mac, NEW ok,
           SetPluginId(h, i, ok) \/ SetPrivateKey(h, i, ok) \/ SetBoundMacs(h, ms, ok)
    PROVE  disk' \in [Hub -> Record] /\ mem' \in [Hub -> Record \union {None}]
<1>1. Loaded(h) \in Record
  BY LoadedTyped
<1>2. /\ [Loaded(h) EXCEPT !.pid = i] \in Record
      /\ [Loaded(h) EXCEPT !.key = i] \in Record
      /\ [Loaded(h) EXCEPT !.bound = ms] \in Record
  BY <1>1 DEF Record
<1>3. CASE SetPluginId(h, i, ok)
  BY <1>2, <1>3, SaveTyped DEF SetPluginId
<1>4. CASE SetPrivateKey(h, i, ok)
  BY <1>2, <1>4, SaveTyped DEF SetPrivateKey
<1>5. CASE SetBoundMacs(h, ms, ok)
  BY <1>2, <1>5, SaveTyped DEF SetBoundMacs
<1> QED
  BY <1>3, <1>4, <1>5

LEMMA HardwareTyped ==
    ASSUME NEW h \in Hub, NEW ms \in HardwareMacs(h)
    PROVE  ms \in SUBSET Mac /\ ms \subseteq MacsOf[h]
BY HardwareAssumption DEF HardwareMacs

LEMMA FreshTyped ==
    ASSUME NEW h \in Hub
    PROVE  /\ \A i \in FreshPid(h) \union FreshKey(h) : i \in Id /\ i[1] = h
BY DEF FreshPid, FreshKey, Unused, Id

-----------------------------------------------------------------------------
(* Type correctness.                                                         *)

LEMMA ProcessTyped ==
    ASSUME TypeOK, NEW h \in Hub, StartProcess(h) \/ Stop(h)
    PROVE  TypeOK'
<1>1. CASE StartProcess(h)
  BY <1>1, ParameterAssumption DEF TypeOK, StartProcess, ResetProcess, MainPc, RepPc,
     WipePc, Pair, NoPair, OptId
<1>2. CASE Stop(h)
  BY <1>2, ParameterAssumption DEF TypeOK, Stop, ResetProcess, MainPc, RepPc,
     WipePc, Pair, NoPair, OptId
<1> QED
  BY <1>1, <1>2

(* The boot. *)
LEMMA MainTyped ==
    ASSUME TypeOK, NEW h \in Hub, Main(h)
    PROVE  TypeOK'
<1> USE DEF MainPc
<1>1. CASE BondSkipped(h)
  BY <1>1 DEF TypeOK, BondSkipped, BondCheck, MainStep, storeVars, repVars, wipeVars
<1>2. CASE BondFirst(h)
  <2> PICK ms \in HardwareMacs(h) \ {{}}, ok \in Outcomes :
           SetBoundMacs(h, ms, ok) /\ BondCheck(h, ms, "setupPid")
    BY <1>2 DEF BondFirst
  <2> ms \in SUBSET Mac
    BY HardwareTyped
  <2> disk' \in [Hub -> Record] /\ mem' \in [Hub -> Record \union {None}]
    BY SettersTyped DEF OptId
  <2> QED
    BY DEF TypeOK, BondCheck, MainStep, repVars, wipeVars
<1>3. CASE BondWidened(h)
  <2> PICK ms \in HardwareMacs(h), ok \in Outcomes :
           /\ IF ms \subseteq Loaded(h).bound
              THEN Get(h)
              ELSE SetBoundMacs(h, Loaded(h).bound \union ms, ok)
           /\ BondCheck(h, ms, "setupPid")
    BY <1>3 DEF BondWidened
  <2> ms \in SUBSET Mac
    BY HardwareTyped
  <2> Loaded(h).bound \in SUBSET Mac
    BY LoadedTyped DEF Record
  <2> Loaded(h).bound \union ms \in SUBSET Mac
    OBVIOUS
  <2> disk' \in [Hub -> Record] /\ mem' \in [Hub -> Record \union {None}]
    BY SettersTyped, GetTyped DEF OptId
  <2> QED
    BY DEF TypeOK, BondCheck, MainStep, repVars, wipeVars
<1>4. CASE BondForeign(h)
  <2> PICK ms \in HardwareMacs(h) \ {{}}, ok \in Outcomes :
           /\ SetPluginId(h, None, ok)
           /\ BondCheck(h, ms, IF ok THEN "clearKey" ELSE "setupPid")
    BY <1>4 DEF BondForeign
  <2> ms \in SUBSET Mac
    BY HardwareTyped
  <2> disk' \in [Hub -> Record] /\ mem' \in [Hub -> Record \union {None}]
    BY SettersTyped DEF OptId
  <2> QED
    BY DEF TypeOK, BondCheck, MainStep, repVars, wipeVars
<1>5. CASE ForeignClearKey(h)
  <2> PICK ok \in Outcomes :
           /\ SetPrivateKey(h, None, ok)
           /\ SecretsStep(h, "clearKey", IF ok THEN "rebind" ELSE "setupPid")
    BY <1>5 DEF ForeignClearKey
  <2> disk' \in [Hub -> Record] /\ mem' \in [Hub -> Record \union {None}]
    BY SettersTyped DEF OptId
  <2> QED
    BY DEF TypeOK, SecretsStep, MainStep, repVars, wipeVars
<1>6. CASE ForeignRebind(h)
  <2> PICK ok \in Outcomes :
           SetBoundMacs(h, seen[h], ok) /\ SecretsStep(h, "rebind", "setupPid")
    BY <1>6 DEF ForeignRebind
  <2> seen[h] \in SUBSET Mac
    BY DEF TypeOK
  <2> disk' \in [Hub -> Record] /\ mem' \in [Hub -> Record \union {None}]
    BY SettersTyped DEF OptId
  <2> QED
    BY DEF TypeOK, SecretsStep, MainStep, repVars, wipeVars
<1>7. CASE SetupPid(h)
  <2>1. CASE Get(h) /\ SecretsStep(h, "setupPid", "setupKey")
    BY <2>1, GetTyped DEF TypeOK, SecretsStep, MainStep, repVars, wipeVars
  <2>2. CASE \E i \in FreshPid(h) :
                SetPluginId(h, i, TRUE) /\ SecretsStep(h, "setupPid", "setupKey")
    <3> PICK i \in FreshPid(h) : SetPluginId(h, i, TRUE)
      BY <2>2
    <3> i \in OptId
      BY FreshTyped DEF OptId
    <3> disk' \in [Hub -> Record] /\ mem' \in [Hub -> Record \union {None}]
      BY SettersTyped
    <3> QED
      BY <2>2 DEF TypeOK, SecretsStep, MainStep, repVars, wipeVars
  <2>3. CASE Stop(h)
    BY <2>3, ProcessTyped
  <2> QED
    BY <1>7, <2>1, <2>2, <2>3 DEF SetupPid
<1>8. CASE SetupKey(h)
  <2>1. CASE Get(h) /\ SecretsStep(h, "setupKey", "load")
    BY <2>1, GetTyped DEF TypeOK, SecretsStep, MainStep, repVars, wipeVars
  <2>2. CASE \E k \in FreshKey(h) :
                SetPrivateKey(h, k, TRUE) /\ SecretsStep(h, "setupKey", "load")
    <3> PICK k \in FreshKey(h) : SetPrivateKey(h, k, TRUE)
      BY <2>2
    <3> k \in OptId
      BY FreshTyped DEF OptId
    <3> disk' \in [Hub -> Record] /\ mem' \in [Hub -> Record \union {None}]
      BY SettersTyped
    <3> QED
      BY <2>2 DEF TypeOK, SecretsStep, MainStep, repVars, wipeVars
  <2>3. CASE Stop(h)
    BY <2>3, ProcessTyped
  <2> QED
    BY <1>8, <2>1, <2>2, <2>3 DEF SetupKey
<1>9. CASE LoadIdentity(h)
  <2> IdentityOf(Loaded(h)) \in Pair
    BY LoadedTyped DEF IdentityOf, Record, Pair
  <2> QED
    BY <1>9, GetTyped DEF TypeOK, LoadIdentity, MainStep, repVars, wipeVars
<1>10. CASE StartReporter(h)
  BY <1>10, GetTyped DEF TypeOK, StartReporter, wipeVars, RepPc
<1>11. CASE StartTunnel(h)
  <2> Loaded(h).key \in OptId
    BY LoadedTyped DEF Record
  <2> QED
    BY <1>11, GetTyped DEF TypeOK, StartTunnel, MainStep, repVars, wipeVars
<1> QED
  BY <1>1, <1>2, <1>3, <1>4, <1>5, <1>6, <1>7, <1>8, <1>9, <1>10, <1>11 DEF Main

(* The registration thread. *)
LEMMA ReporterTyped ==
    ASSUME TypeOK, NEW h \in Hub, Reporter(h)
    PROVE  TypeOK'
<1> USE DEF RepPc
<1> DEFINE StoreTyped == disk' \in [Hub -> Record] /\ mem' \in [Hub -> Record \union {None}]
<1> Loaded(h).pid \in OptId /\ Loaded(h).key \in OptId
  BY LoadedTyped DEF Record
<1> NoPair \in Pair
  BY DEF NoPair, Pair, OptId
<1>1. CASE CheckWiped(h)
  BY <1>1 DEF TypeOK, CheckWiped, RepStep, storeVars, mainVars, wipeVars
<1>2. CASE ReadPid(h)
  <2> [pid |-> Loaded(h).pid, key |-> None] \in Pair
    BY DEF Pair, OptId
  <2> StoreTyped
    BY <1>2, GetTyped DEF ReadPid
  <2> QED
    BY <1>2 DEF TypeOK, ReadPid, RepStep, mainVars, wipeVars
<1>3. CASE ReadKey(h)
  <2> [current[h] EXCEPT !.key = Loaded(h).key] \in Pair
    BY DEF TypeOK, Pair
  <2> StoreTyped
    BY <1>3, GetTyped DEF ReadKey
  <2> QED
    BY <1>3 DEF TypeOK, ReadKey, RepStep, mainVars, wipeVars
<1>5. CASE ReplyRetry(h)
  BY <1>5 DEF TypeOK, ReplyRetry, Reply, RepStep, storeVars, mainVars, wipeVars
<1>6. CASE ReplyStop(h)
  BY <1>6 DEF TypeOK, ReplyStop, Reply, RepStep, storeVars, mainVars, wipeVars
<1>7. CASE ReplyCollision(h)
  <2> regens[h] + 1 \in 0 .. MaxRegen
    BY <1>7, ParameterAssumption DEF TypeOK, ReplyCollision
  <2> QED
    BY <1>7 DEF TypeOK, ReplyCollision, Reply, RepStep, storeVars, mainVars, wipeVars
<1>8. CASE RegenClearPid(h)
  <2> PICK ok \in Outcomes :
           RegenStep(h, "clearPid", "clearKey", ok) /\ SetPluginId(h, None, ok)
    BY <1>8 DEF RegenClearPid
  <2> StoreTyped
    BY SettersTyped DEF OptId
  <2> QED
    BY DEF TypeOK, RegenStep, RepStep, mainVars, wipeVars
<1>9. CASE RegenClearKey(h)
  <2> PICK ok \in Outcomes :
           RegenStep(h, "clearKey", "guard", ok) /\ SetPrivateKey(h, None, ok)
    BY <1>9 DEF RegenClearKey
  <2> StoreTyped
    BY SettersTyped DEF OptId
  <2> QED
    BY DEF TypeOK, RegenStep, RepStep, mainVars, wipeVars
<1>10. CASE RegenGuard(h)
  BY <1>10 DEF TypeOK, RegenGuard, RegenStep, RepStep, storeVars, mainVars, wipeVars
<1>11. CASE RegenPid(h)
  <2> PICK i \in FreshPid(h), ok \in Outcomes :
           RegenStep(h, "genPid", "genKey", ok) /\ SetPluginId(h, i, ok)
    BY <1>11 DEF RegenPid
  <2> StoreTyped
    BY FreshTyped, SettersTyped DEF OptId
  <2> QED
    BY DEF TypeOK, RegenStep, RepStep, mainVars, wipeVars
<1>12. CASE RegenKey(h)
  <2> PICK k \in FreshKey(h), ok \in Outcomes :
           RegenStep(h, "genKey", "bind", ok) /\ SetPrivateKey(h, k, ok)
    BY <1>12 DEF RegenKey
  <2> StoreTyped
    BY FreshTyped, SettersTyped DEF OptId
  <2> QED
    BY DEF TypeOK, RegenStep, RepStep, mainVars, wipeVars
<1>13. CASE RegenBind(h)
  <2> PICK ms \in HardwareMacs(h), ok \in Outcomes :
           RegenStep(h, "bind", "restart", ok) /\ SetBoundMacs(h, ms, ok)
    BY <1>13 DEF RegenBind
  <2> StoreTyped
    BY HardwareTyped, SettersTyped DEF OptId
  <2> QED
    BY DEF TypeOK, RegenStep, RepStep, mainVars, wipeVars
<1>14. CASE RegenRestart(h)
  BY <1>14 DEF TypeOK, RegenRestart, RegenStep, RepStep, storeVars, mainVars, wipeVars
<1> QED
  BY <1>1, <1>2, <1>3, <1>5, <1>6, <1>7, <1>8, <1>9, <1>10, <1>11, <1>12,
     <1>13, <1>14 DEF Reporter

(* The wipe. *)
LEMMA WipeTyped ==
    ASSUME TypeOK, NEW h \in Hub, WipeRequested(h) \/ Wipe(h)
    PROVE  TypeOK'
<1> USE DEF WipePc
<1> Empty \in Record
  BY DEF Empty, Record, OptId
<1>1. CASE WipeRequested(h)
  BY <1>1 DEF TypeOK, WipeRequested, WipeStep, storeVars, mainVars, repVars
<1>2. CASE WipeDelete(h)
  BY <1>2 DEF TypeOK, WipeDelete, WipeStep, Outcomes, mainVars, repVars
<1>3. CASE WipeForget(h)
  BY <1>3 DEF TypeOK, WipeForget, WipeStep, mainVars, repVars
<1>4. CASE WipeVerify(h)
  BY <1>4 DEF TypeOK, WipeVerify, WipeStep, storeVars, mainVars, repVars
<1>5. CASE StopAfterWipe(h)
  BY <1>5, ProcessTyped DEF TypeOK, StopAfterWipe, storeVars, mainVars, repVars
<1> QED
  BY <1>1, <1>2, <1>3, <1>4, <1>5 DEF Wipe

LEMMA TypeStep ==
    ASSUME TypeOK, [Next]_vars
    PROVE  TypeOK'
<1>1. ASSUME NEW h \in Hub, Boot(h) \/ PowerOff(h) \/ SupervisorRestart(h)
      PROVE  TypeOK'
  BY <1>1, ProcessTyped DEF Boot, PowerOff, SupervisorRestart
<1>2. ASSUME NEW g \in Hub, NEW h \in Hub, CloneCard(g, h)
      PROVE  TypeOK'
  BY <1>2 DEF TypeOK, CloneCard, mainVars, repVars, wipeVars
<1>3. CASE UNCHANGED vars
  BY <1>3 DEF TypeOK, vars, storeVars, mainVars, repVars, wipeVars
<1> QED
  BY <1>1, <1>2, <1>3, MainTyped, ReporterTyped, WipeTyped DEF Next

(* Every variable keeps its type: among others the cap on regenerations is
   never exceeded, whatever the environment does.                          *)
THEOREM TypeCorrect == Spec => []TypeOK
<1>1. Init => TypeOK
  BY ParameterAssumption DEF Init, TypeOK, Record, Pair, OptId, Empty, NoPair, MainPc, RepPc, WipePc
<1> QED
  BY <1>1, TypeStep, PTL DEF Spec

-----------------------------------------------------------------------------
(* Cloned cards, with a card that can be written and addresses that can be
   read. Cards are copied and power fails at any step; a wipe and a collision
   are not both in play (together they let the reporter write on a wiped card). *)
Reliable ==
    /\ "hidden" \notin Env /\ "fail" \notin Env
    /\ "wipe" \notin Env \/ "conflict" \notin Env

(* Whatever record r holds of an identity was made on o, to whom r is bound. *)
OwnedBy(r, o) ==
    /\ r.bound \subseteq MacsOf[o]
    /\ \A i \in {r.pid, r.key} \ {None} : MadeOn(i) = o /\ r.bound # {}

(* A card has one owner at every instant, also between two writes. *)
CardsOwned == \A h \in Hub : \E o \in Hub : OwnedBy(disk[h], o)

(* The process of hub h: what is in memory and what each point of the boot and
   of the registration thread has established about the card.              *)
Regenerating(h) ==
    rep[h] \in {"clearPid", "clearKey", "guard", "genPid", "genKey", "bind",
                "restart", "restarting"}

ProcessInv(h) ==
    /\ main[h] = "off" => mem[h] = None /\ ~wiped[h]
    /\ rep[h] # "none" => Operating(h)
    /\ Regenerating(h) => "conflict" \in Env
    /\ wiped[h] => "wipe" \in Env /\ Operating(h)
    /\ wipe[h] # "idle" => wiped[h]
    /\ ~wiped[h] => Loaded(h) = disk[h]

CardInv(h) ==
    /\ main[h] = "clearKey" => disk[h].pid = None /\ seen[h] = MacsOf[h]
    /\ main[h] = "rebind" => IdentityOf(disk[h]) = NoPair /\ seen[h] = MacsOf[h]
    /\ main[h] \in {"setupPid", "setupKey", "load", "panel", "tunnel", "idle"} /\ ~wiped[h]
           => disk[h].bound \cap MacsOf[h] # {}
    /\ main[h] \in {"setupKey", "load"} => disk[h].pid # None
    /\ main[h] = "load" => disk[h].key # None
    /\ Operating(h) => \A i \in {op[h].pid, op[h].key} : i # None /\ MadeOn(i) = h

IInv ==
    /\ TypeOK
    /\ CardsOwned
    /\ \A h \in Hub : ProcessInv(h) /\ CardInv(h)

LEMMA ReliableFacts ==
    ASSUME Reliable
    PROVE  Outcomes = {TRUE} /\ \A h \in Hub : HardwareMacs(h) = {MacsOf[h]}
BY DEF Reliable, Outcomes, HardwareMacs

(* A bond that shares an address with a hub is the bond of that hub. *)
LEMMA OwnerRecognised ==
    ASSUME NEW r \in Record, NEW h \in Hub, NEW o \in Hub,
           OwnedBy(r, o), r.bound \cap MacsOf[h] # {}
    PROVE  o = h
BY HardwareAssumption DEF OwnedBy, Record

(* A write that succeeds, on a hub whose cache agrees with its card. *)
LEMMA IdWritten ==
    ASSUME TypeOK, NEW h \in Hub, Loaded(h) = disk[h], NEW i \in OptId
    PROVE  /\ [disk[h] EXCEPT !.pid = i] \in Record
           /\ SetPluginId(h, i, TRUE) =>
                 /\ disk' = [disk EXCEPT ![h] = [disk[h] EXCEPT !.pid = i]]
                 /\ mem' = [mem EXCEPT ![h] = [disk[h] EXCEPT !.pid = i]]
           /\ [disk[h] EXCEPT !.key = i] \in Record
           /\ SetPrivateKey(h, i, TRUE) =>
                 /\ disk' = [disk EXCEPT ![h] = [disk[h] EXCEPT !.key = i]]
                 /\ mem' = [mem EXCEPT ![h] = [disk[h] EXCEPT !.key = i]]
<1>1. disk[h] \in Record
  BY DEF TypeOK
<1> QED
  BY <1>1 DEF Record, SetPluginId, SetPrivateKey, Save

LEMMA BondWritten ==
    ASSUME TypeOK, NEW h \in Hub, Loaded(h) = disk[h], NEW ms \in SUBSET Mac
    PROVE  /\ [disk[h] EXCEPT !.bound = ms] \in Record
           /\ SetBoundMacs(h, ms, TRUE) =>
                 /\ disk' = [disk EXCEPT ![h] = [disk[h] EXCEPT !.bound = ms]]
                 /\ mem' = [mem EXCEPT ![h] = [disk[h] EXCEPT !.bound = ms]]
<1>1. disk[h] \in Record
  BY DEF TypeOK
<1> QED
  BY <1>1 DEF Record, SetBoundMacs, Save

(* A step of hub h leaves what the invariant says of the other hubs alone. *)
OnlyHub(h) == \A g \in Hub \ {h} :
    /\ disk'[g] = disk[g] /\ mem'[g] = mem[g] /\ main'[g] = main[g] /\ seen'[g] = seen[g]
    /\ op'[g] = op[g] /\ rep'[g] = rep[g] /\ wipe'[g] = wipe[g] /\ wiped'[g] = wiped[g]

LocalInv(h) == ProcessInv(h) /\ CardInv(h) /\ \E o \in Hub : OwnedBy(disk[h], o)

LEMMA LocalStep ==
    ASSUME IInv, TypeOK', NEW h \in Hub, OnlyHub(h), LocalInv(h)'
    PROVE  IInv'
<1>1. ASSUME NEW g \in Hub \ {h}
      PROVE  LocalInv(g)'
  <2>1. LocalInv(g)
    BY DEF IInv, CardsOwned, LocalInv
  <2> QED
    BY <2>1 DEF OnlyHub, LocalInv, ProcessInv, CardInv, Regenerating, Operating, Loaded
<1> QED
  BY <1>1 DEF IInv, CardsOwned, LocalInv

LEMMA ProcessLocal ==
    ASSUME IInv, NEW h \in Hub, StartProcess(h) \/ Stop(h)
    PROVE  OnlyHub(h) /\ LocalInv(h)'
<1> USE DEF IInv, CardsOwned, TypeOK, ResetProcess, OnlyHub, LocalInv, ProcessInv, CardInv,
            Regenerating, Operating, Loaded
<1>1. CASE StartProcess(h)
  BY <1>1 DEF StartProcess
<1>2. CASE Stop(h)
  BY <1>2 DEF Stop
<1> QED
  BY <1>1, <1>2

(* A step before the panel opens: nothing else runs on this hub yet. *)
LEMMA BootingLocal ==
    ASSUME IInv, NEW h \in Hub, main[h] \notin {"off", "panel", "tunnel", "idle"}
    PROVE  /\ ~wiped[h] /\ wipe[h] = "idle" /\ rep[h] = "none"
           /\ Loaded(h) = disk[h] /\ disk[h] \in Record
BY DEF IInv, TypeOK, ProcessInv, Operating

(* A step of the boot that writes the whole record r and moves to pc. *)
LEMMA BootWrite ==
    ASSUME IInv, NEW h \in Hub, NEW r \in Record, NEW pc \in MainPc,
           main[h] \notin {"off", "panel", "tunnel", "idle"},
           pc \notin {"off", "panel", "tunnel", "idle"},
           disk' = [disk EXCEPT ![h] = r], mem' = [mem EXCEPT ![h] = r],
           main' = [main EXCEPT ![h] = pc],
           seen' \in [Hub -> SUBSET Mac], \A g \in Hub \ {h} : seen'[g] = seen[g],
           op' = op, UNCHANGED <<repVars, wipeVars>>,
           pc = "clearKey" => r.pid = None /\ seen'[h] = MacsOf[h],
           pc = "rebind" => IdentityOf(r) = NoPair /\ seen'[h] = MacsOf[h],
           pc \in {"setupPid", "setupKey", "load"} => r.bound \cap MacsOf[h] # {},
           pc \in {"setupKey", "load"} => r.pid # None,
           pc = "load" => r.key # None,
           \E o \in Hub : OwnedBy(r, o)
    PROVE  OnlyHub(h) /\ LocalInv(h)'
<1>1. /\ disk \in [Hub -> Record] /\ mem \in [Hub -> Record \union {None}]
      /\ main \in [Hub -> MainPc]
  BY DEF IInv, TypeOK
<1>2. /\ disk'[h] = r /\ mem'[h] = r /\ main'[h] = pc /\ r # None
  BY <1>1, NoneAssumption
<1>3. OnlyHub(h)
  BY <1>1 DEF OnlyHub, repVars, wipeVars
<1>4. ~wiped'[h] /\ wipe'[h] = "idle" /\ rep'[h] = "none"
  BY BootingLocal DEF repVars, wipeVars
<1>5. ProcessInv(h)'
  BY <1>2, <1>4 DEF ProcessInv, Regenerating, Loaded
<1>6. CardInv(h)'
  BY <1>2, <1>4 DEF CardInv, Operating
<1> QED
  BY <1>2, <1>3, <1>5, <1>6 DEF LocalInv

LEMMA MainLocal ==
    ASSUME IInv, Reliable, NEW h \in Hub, Main(h)
    PROVE  OnlyHub(h) /\ LocalInv(h)'
<1> USE DEF MainStep, MainPc
<1> TypeOK /\ ProcessInv(h) /\ CardInv(h)
  BY DEF IInv
<1> disk[h] \in Record /\ seen \in [Hub -> SUBSET Mac] /\ disk \in [Hub -> Record]
    /\ mem \in [Hub -> Record \union {None}] /\ main \in [Hub -> MainPc]
  BY DEF TypeOK
<1> PICK o \in Hub : OwnedBy(disk[h], o)
  BY DEF IInv, CardsOwned
<1> HardwareMacs(h) = {MacsOf[h]} /\ Outcomes = {TRUE}
  BY ReliableFacts
<1> MacsOf[h] \in SUBSET Mac /\ MacsOf[h] # {}
  BY HardwareAssumption
<1>1. ASSUME NEW pc, BondCheck(h, MacsOf[h], pc)
      PROVE  /\ main[h] = "enforce" /\ main' = [main EXCEPT ![h] = pc]
             /\ seen' = [seen EXCEPT ![h] = MacsOf[h]] /\ op' = op
             /\ UNCHANGED <<repVars, wipeVars>> /\ Loaded(h) = disk[h]
  BY <1>1, BootingLocal DEF BondCheck
<1>2. ASSUME NEW from \in {"clearKey", "rebind", "setupPid", "setupKey"}, NEW to,
             SecretsStep(h, from, to)
      PROVE  /\ main[h] = from /\ main' = [main EXCEPT ![h] = to]
             /\ seen' = seen /\ op' = op
             /\ UNCHANGED <<repVars, wipeVars>> /\ Loaded(h) = disk[h]
  BY <1>2, BootingLocal DEF SecretsStep
<1>3. ASSUME Get(h), Loaded(h) = disk[h]
      PROVE  disk' = [disk EXCEPT ![h] = disk[h]] /\ mem' = [mem EXCEPT ![h] = disk[h]]
  BY <1>3 DEF Get
<1>6. CASE BondSkipped(h)
  BY <1>6 DEF BondSkipped
<1>7. CASE BondFirst(h)
  <2> DEFINE r == [disk[h] EXCEPT !.bound = MacsOf[h]]
  <2>1. Loaded(h).bound = {} /\ SetBoundMacs(h, MacsOf[h], TRUE)
           /\ BondCheck(h, MacsOf[h], "setupPid")
    BY <1>7 DEF BondFirst
  <2>2. r \in Record /\ disk' = [disk EXCEPT ![h] = r] /\ mem' = [mem EXCEPT ![h] = r]
    BY <2>1, <1>1, BondWritten
  <2>3. disk[h].pid = None /\ disk[h].key = None
    BY <2>1, <1>1 DEF OwnedBy
  <2>4. OwnedBy(r, h) /\ r.bound \cap MacsOf[h] # {}
    BY <2>3 DEF OwnedBy, Record
  <2> HIDE DEF r
  <2> QED
    BY <2>1, <2>2, <2>4, <1>1, BootWrite
<1>8. CASE BondWidened(h)
  <2>1. /\ Loaded(h).bound \cap MacsOf[h] # {}
        /\ IF MacsOf[h] \subseteq Loaded(h).bound
           THEN Get(h)
           ELSE SetBoundMacs(h, Loaded(h).bound \union MacsOf[h], TRUE)
        /\ BondCheck(h, MacsOf[h], "setupPid")
    BY <1>8 DEF BondWidened
  <2>2. o = h
    BY <2>1, <1>1, OwnerRecognised
  <2>3. CASE Get(h)
    BY <2>1, <2>2, <2>3, <1>1, <1>3, BootWrite
  <2>4. CASE SetBoundMacs(h, Loaded(h).bound \union MacsOf[h], TRUE)
    <3> DEFINE ms == disk[h].bound \union MacsOf[h]
               r == [disk[h] EXCEPT !.bound = ms]
    <3>1. ms \in SUBSET Mac
      BY DEF Record
    <3>2. r \in Record /\ disk' = [disk EXCEPT ![h] = r] /\ mem' = [mem EXCEPT ![h] = r]
      BY <3>1, <2>1, <2>4, <1>1, BondWritten
    <3>3. OwnedBy(r, h) /\ r.bound \cap MacsOf[h] # {}
      BY <2>2 DEF OwnedBy, Record
    <3> HIDE DEF r
    <3> QED
      BY <2>1, <3>2, <3>3, <1>1, BootWrite
  <2> QED
    BY <2>1, <2>3, <2>4
<1>9. CASE BondForeign(h)
  <2> DEFINE r == [disk[h] EXCEPT !.pid = None]
  <2>1. SetPluginId(h, None, TRUE) /\ BondCheck(h, MacsOf[h], "clearKey")
    BY <1>9 DEF BondForeign
  <2>2. r \in Record /\ disk' = [disk EXCEPT ![h] = r] /\ mem' = [mem EXCEPT ![h] = r]
    <3>1. Loaded(h) = disk[h] /\ None \in OptId
      BY <2>1, <1>1 DEF OptId
    <3> QED
      BY <2>1, <3>1, IdWritten
  <2>3. OwnedBy(r, o) /\ r.pid = None
    BY DEF OwnedBy, Record
  <2> HIDE DEF r
  <2> QED
    BY <2>1, <2>2, <2>3, <1>1, BootWrite
<1>10. CASE ForeignClearKey(h)
  <2> DEFINE r == [disk[h] EXCEPT !.key = None]
  <2>1. SetPrivateKey(h, None, TRUE) /\ SecretsStep(h, "clearKey", "rebind")
    BY <1>10 DEF ForeignClearKey
  <2>2. r \in Record /\ disk' = [disk EXCEPT ![h] = r] /\ mem' = [mem EXCEPT ![h] = r]
    <3>1. None \in OptId /\ Loaded(h) = disk[h]
      BY <2>1, <1>2 DEF OptId
    <3> QED
      BY <2>1, <3>1, IdWritten
  <2>3. OwnedBy(r, o) /\ IdentityOf(r) = NoPair /\ seen[h] = MacsOf[h]
    BY <2>1, <1>2 DEF OwnedBy, Record, IdentityOf, NoPair, CardInv
  <2> HIDE DEF r
  <2> QED
    BY <2>1, <2>2, <2>3, <1>2, BootWrite
<1>11. CASE ForeignRebind(h)
  <2> DEFINE r == [disk[h] EXCEPT !.bound = MacsOf[h]]
  <2>1. SetBoundMacs(h, MacsOf[h], TRUE) /\ SecretsStep(h, "rebind", "setupPid")
    BY <1>11, <1>2 DEF ForeignRebind, CardInv
  <2>2. r \in Record /\ disk' = [disk EXCEPT ![h] = r] /\ mem' = [mem EXCEPT ![h] = r]
    BY <2>1, <1>2, BondWritten
  <2>3. OwnedBy(r, h) /\ r.bound \cap MacsOf[h] # {}
    BY <2>1, <1>2 DEF OwnedBy, Record, IdentityOf, NoPair, CardInv
  <2> HIDE DEF r
  <2> QED
    BY <2>1, <2>2, <2>3, <1>2, BootWrite
<1>12. CASE SetupPid(h)
  <2>1. CASE Loaded(h).pid # None /\ Get(h) /\ SecretsStep(h, "setupPid", "setupKey")
    <3>1. disk[h].bound \cap MacsOf[h] # {}
      BY <2>1, <1>2, BootingLocal DEF CardInv
    <3> QED
      BY <2>1, <3>1, <1>2, <1>3, BootWrite
  <2>2. CASE \E i \in FreshPid(h) : SetPluginId(h, i, TRUE) /\ SecretsStep(h, "setupPid", "setupKey")
    <3> PICK i \in FreshPid(h) : SetPluginId(h, i, TRUE)
      BY <2>2
    <3> DEFINE r == [disk[h] EXCEPT !.pid = i]
    <3>1. i \in OptId /\ i # None /\ MadeOn(i) = h
      BY FreshTyped, NoneAssumption DEF OptId, MadeOn
    <3>2. disk[h].bound \cap MacsOf[h] # {}
      BY <2>2, <1>2, BootingLocal DEF CardInv
    <3>3. o = h
      BY <3>2, OwnerRecognised
    <3>4. r \in Record /\ disk' = [disk EXCEPT ![h] = r] /\ mem' = [mem EXCEPT ![h] = r]
      <4>1. Loaded(h) = disk[h]
        BY <2>2, <1>2
      <4> QED
        BY <3>1, <4>1, IdWritten
    <3>5. OwnedBy(r, h) /\ r.bound \cap MacsOf[h] # {} /\ r.pid # None
      BY <3>1, <3>2, <3>3 DEF OwnedBy, Record
    <3> HIDE DEF r
    <3> QED
      BY <2>2, <3>4, <3>5, <1>2, BootWrite
  <2> QED
    BY <1>12, <2>1, <2>2 DEF SetupPid
<1>13. CASE SetupKey(h)
  <2>1. CASE Loaded(h).key # None /\ Get(h) /\ SecretsStep(h, "setupKey", "load")
    <3>1. disk[h].bound \cap MacsOf[h] # {} /\ disk[h].pid # None
      BY <2>1, <1>2, BootingLocal DEF CardInv
    <3> QED
      BY <2>1, <3>1, <1>2, <1>3, BootWrite
  <2>2. CASE \E k \in FreshKey(h) : SetPrivateKey(h, k, TRUE) /\ SecretsStep(h, "setupKey", "load")
    <3> PICK k \in FreshKey(h) : SetPrivateKey(h, k, TRUE)
      BY <2>2
    <3> DEFINE r == [disk[h] EXCEPT !.key = k]
    <3>1. k \in OptId /\ k # None /\ MadeOn(k) = h
      BY FreshTyped, NoneAssumption DEF OptId, MadeOn
    <3>2. disk[h].bound \cap MacsOf[h] # {} /\ disk[h].pid # None
      BY <2>2, <1>2, BootingLocal DEF CardInv
    <3>3. o = h
      BY <3>2, OwnerRecognised
    <3>4. r \in Record /\ disk' = [disk EXCEPT ![h] = r] /\ mem' = [mem EXCEPT ![h] = r]
      <4>1. Loaded(h) = disk[h]
        BY <2>2, <1>2
      <4> QED
        BY <3>1, <4>1, IdWritten
    <3>5. OwnedBy(r, h) /\ r.bound \cap MacsOf[h] # {} /\ r.pid # None /\ r.key # None
      BY <3>1, <3>2, <3>3 DEF OwnedBy, Record
    <3> HIDE DEF r
    <3> QED
      BY <2>2, <3>4, <3>5, <1>2, BootWrite
  <2> QED
    BY <1>13, <2>1, <2>2 DEF SetupKey
<1>14. CASE LoadIdentity(h)
  <2>1. main[h] = "load" /\ Loaded(h) = disk[h] /\ ~wiped[h] /\ wipe[h] = "idle" /\ rep[h] = "none"
    BY <1>14, BootingLocal DEF LoadIdentity
  <2>2. disk[h].pid # None /\ disk[h].key # None /\ disk[h].bound \cap MacsOf[h] # {}
    BY <2>1 DEF CardInv
  <2>3. o = h
    BY <2>2, OwnerRecognised
  <2>4. \A i \in {op'[h].pid, op'[h].key} : i # None /\ MadeOn(i) = h
    BY <1>14, <2>1, <2>2, <2>3 DEF LoadIdentity, IdentityOf, OwnedBy, TypeOK
  <2> QED
    BY <1>14, <2>1, <2>2, <2>4, NoneAssumption DEF LoadIdentity, OnlyHub, LocalInv, ProcessInv, CardInv,
       Regenerating, Operating, Loaded, Get, TypeOK, repVars, wipeVars
<1>15. CASE StartReporter(h)
  BY <1>15, NoneAssumption DEF StartReporter, OnlyHub, LocalInv, ProcessInv, CardInv,
     Regenerating, Operating, Loaded, Get, TypeOK, wipeVars
<1>16. CASE StartTunnel(h)
  BY <1>16, NoneAssumption DEF StartTunnel, OnlyHub, LocalInv, ProcessInv, CardInv,
     Regenerating, Operating, Loaded, Get, TypeOK, repVars, wipeVars
<1> QED
  BY <1>6, <1>7, <1>8, <1>9, <1>10, <1>11, <1>12, <1>13, <1>14, <1>15, <1>16 DEF Main

(* A regeneration rules a wipe out, and writes on the card of this hub. *)
LEMMA RegenLocal ==
    ASSUME IInv, Reliable, NEW h \in Hub, Regenerating(h)
    PROVE  /\ "conflict" \in Env /\ ~wiped[h] /\ wipe[h] = "idle" /\ Operating(h)
           /\ Loaded(h) = disk[h] /\ disk[h] \in Record
           /\ disk[h].bound \cap MacsOf[h] # {} /\ OwnedBy(disk[h], h)
<1>1. /\ "conflict" \in Env /\ ~wiped[h] /\ wipe[h] = "idle" /\ Operating(h)
      /\ Loaded(h) = disk[h] /\ disk[h] \in Record
  BY DEF IInv, TypeOK, ProcessInv, Reliable, Regenerating
<1>2. disk[h].bound \cap MacsOf[h] # {}
  BY <1>1 DEF IInv, CardInv, Operating
<1>3. PICK o \in Hub : OwnedBy(disk[h], o)
  BY DEF IInv, CardsOwned
<1>4. o = h
  BY <1>1, <1>2, <1>3, OwnerRecognised
<1> QED
  BY <1>1, <1>2, <1>3, <1>4

(* A step of the regeneration that leaves the record r on the card. *)
LEMMA RegenWrite ==
    ASSUME IInv, Reliable, NEW h \in Hub, Regenerating(h), NEW r \in Record, NEW pc \in RepPc,
           disk' = [disk EXCEPT ![h] = r], mem' = [mem EXCEPT ![h] = r],
           rep' = [rep EXCEPT ![h] = pc], UNCHANGED <<mainVars, wipeVars>>,
           r.bound \cap MacsOf[h] # {}, OwnedBy(r, h)
    PROVE  OnlyHub(h) /\ LocalInv(h)'
<1>1. /\ disk \in [Hub -> Record] /\ mem \in [Hub -> Record \union {None}]
      /\ rep \in [Hub -> RepPc]
  BY DEF IInv, TypeOK
<1>2. /\ disk'[h] = r /\ mem'[h] = r /\ r # None
  BY <1>1, NoneAssumption
<1>3. "conflict" \in Env /\ ~wiped[h] /\ wipe[h] = "idle" /\ Operating(h)
  BY RegenLocal
<1>4. OnlyHub(h)
  BY <1>1 DEF OnlyHub, mainVars, wipeVars
<1>5. ProcessInv(h)'
  BY <1>2, <1>3 DEF ProcessInv, Operating, Loaded, mainVars, wipeVars
<1>6. CardInv(h)'
  BY <1>2, <1>3 DEF IInv, CardInv, Operating, mainVars, wipeVars
<1> QED
  BY <1>2, <1>4, <1>5, <1>6 DEF LocalInv

(* A step of the reporter that does not write. *)
LEMMA RepReads ==
    ASSUME IInv, NEW h \in Hub, NEW from \in RepPc, NEW to \in RepPc, RepStep(h, from, to),
           Get(h) \/ UNCHANGED storeVars,
           from # "none", Regenerating(h)' => "conflict" \in Env
    PROVE  OnlyHub(h) /\ LocalInv(h)'
BY NoneAssumption DEF IInv, CardsOwned, TypeOK, RepStep, OnlyHub, LocalInv, ProcessInv, CardInv,
   Operating, Loaded, Get, storeVars, mainVars, wipeVars

LEMMA ReporterLocal ==
    ASSUME IInv, Reliable, NEW h \in Hub, Reporter(h)
    PROVE  OnlyHub(h) /\ LocalInv(h)'
<1> TypeOK
  BY DEF IInv
<1> Outcomes = {TRUE} /\ HardwareMacs(h) = {MacsOf[h]}
  BY ReliableFacts
<1> MacsOf[h] \in SUBSET Mac /\ MacsOf[h] # {}
  BY HardwareAssumption
<1> USE DEF RepPc
<1>1. ASSUME NEW from, NEW to, RepStep(h, from, to)
      PROVE  /\ rep[h] = from /\ rep' = [rep EXCEPT ![h] = to] /\ rep'[h] = to
             /\ UNCHANGED <<mainVars, wipeVars>>
  BY <1>1 DEF RepStep, TypeOK
<1>2. CASE CheckWiped(h)
  BY <1>2, <1>1, RepReads DEF CheckWiped, Regenerating, storeVars
<1>3. CASE ReadPid(h)
  BY <1>3, <1>1, RepReads DEF ReadPid, Regenerating
<1>4. CASE ReadKey(h)
  BY <1>4, <1>1, RepReads DEF ReadKey, Regenerating
<1>5. CASE ReplyRetry(h) \/ ReplyStop(h)
  BY <1>5, <1>1, RepReads DEF ReplyRetry, ReplyStop, Reply, Regenerating
<1>6. CASE ReplyCollision(h)
  BY <1>6, <1>1, RepReads DEF ReplyCollision, Reply
<1>7. ASSUME NEW from \in {"clearPid", "clearKey", "guard", "genPid", "genKey", "bind", "restart"},
             NEW to, RegenStep(h, from, to, TRUE)
      PROVE  /\ RepStep(h, from, to) /\ Regenerating(h) /\ rep' = [rep EXCEPT ![h] = to]
             /\ UNCHANGED <<mainVars, wipeVars>>
             /\ "conflict" \in Env /\ Loaded(h) = disk[h] /\ disk[h] \in Record
             /\ disk[h].bound \cap MacsOf[h] # {} /\ OwnedBy(disk[h], h)
  <2>1. RepStep(h, from, to) /\ Regenerating(h)
    BY <1>7 DEF RegenStep, RepStep, Regenerating
  <2> QED
    BY <2>1, <1>1, RegenLocal
<1>8. CASE RegenClearPid(h)
  <2> DEFINE r == [disk[h] EXCEPT !.pid = None]
  <2>1. RegenStep(h, "clearPid", "clearKey", TRUE) /\ SetPluginId(h, None, TRUE)
    BY <1>8 DEF RegenClearPid
  <2>2. Loaded(h) = disk[h] /\ None \in OptId
    BY <2>1, <1>7 DEF OptId
  <2>3. r \in Record /\ disk' = [disk EXCEPT ![h] = r] /\ mem' = [mem EXCEPT ![h] = r]
    BY <2>1, <2>2, IdWritten
  <2>4. OwnedBy(r, h) /\ r.bound \cap MacsOf[h] # {}
    BY <2>1, <1>7 DEF OwnedBy, Record
  <2> HIDE DEF r
  <2> QED
    BY <2>1, <2>3, <2>4, <1>7, RegenWrite
<1>9. CASE RegenClearKey(h)
  <2> DEFINE r == [disk[h] EXCEPT !.key = None]
  <2>1. RegenStep(h, "clearKey", "guard", TRUE) /\ SetPrivateKey(h, None, TRUE)
    BY <1>9 DEF RegenClearKey
  <2>2. Loaded(h) = disk[h] /\ None \in OptId
    BY <2>1, <1>7 DEF OptId
  <2>3. r \in Record /\ disk' = [disk EXCEPT ![h] = r] /\ mem' = [mem EXCEPT ![h] = r]
    BY <2>1, <2>2, IdWritten
  <2>4. OwnedBy(r, h) /\ r.bound \cap MacsOf[h] # {}
    BY <2>1, <1>7 DEF OwnedBy, Record
  <2> HIDE DEF r
  <2> QED
    BY <2>1, <2>3, <2>4, <1>7, RegenWrite
<1>10. CASE RegenGuard(h)
  BY <1>10, <1>7, RepReads DEF RegenGuard
<1>11. CASE RegenPid(h)
  <2> PICK i \in FreshPid(h) :
           RegenStep(h, "genPid", "genKey", TRUE) /\ SetPluginId(h, i, TRUE)
    BY <1>11 DEF RegenPid
  <2> DEFINE r == [disk[h] EXCEPT !.pid = i]
  <2>1. i \in OptId /\ MadeOn(i) = h
    BY FreshTyped DEF OptId, MadeOn
  <2>2. Loaded(h) = disk[h]
    BY <1>7
  <2>3. r \in Record /\ disk' = [disk EXCEPT ![h] = r] /\ mem' = [mem EXCEPT ![h] = r]
    BY <2>1, <2>2, IdWritten
  <2>4. OwnedBy(r, h) /\ r.bound \cap MacsOf[h] # {}
    BY <2>1, <1>7 DEF OwnedBy, Record
  <2> HIDE DEF r
  <2> QED
    BY <2>3, <2>4, <1>7, RegenWrite
<1>12. CASE RegenKey(h)
  <2> PICK k \in FreshKey(h) :
           RegenStep(h, "genKey", "bind", TRUE) /\ SetPrivateKey(h, k, TRUE)
    BY <1>12 DEF RegenKey
  <2> DEFINE r == [disk[h] EXCEPT !.key = k]
  <2>1. k \in OptId /\ MadeOn(k) = h
    BY FreshTyped DEF OptId, MadeOn
  <2>2. Loaded(h) = disk[h]
    BY <1>7
  <2>3. r \in Record /\ disk' = [disk EXCEPT ![h] = r] /\ mem' = [mem EXCEPT ![h] = r]
    BY <2>1, <2>2, IdWritten
  <2>4. OwnedBy(r, h) /\ r.bound \cap MacsOf[h] # {}
    BY <2>1, <1>7 DEF OwnedBy, Record
  <2> HIDE DEF r
  <2> QED
    BY <2>3, <2>4, <1>7, RegenWrite
<1>13. CASE RegenBind(h)
  <2> DEFINE r == [disk[h] EXCEPT !.bound = MacsOf[h]]
  <2>1. RegenStep(h, "bind", "restart", TRUE) /\ SetBoundMacs(h, MacsOf[h], TRUE)
    BY <1>13 DEF RegenBind
  <2>2. Loaded(h) = disk[h]
    BY <2>1, <1>7
  <2>3. r \in Record /\ disk' = [disk EXCEPT ![h] = r] /\ mem' = [mem EXCEPT ![h] = r]
    BY <2>1, <2>2, BondWritten
  <2>4. OwnedBy(r, h) /\ r.bound \cap MacsOf[h] # {}
    BY <2>1, <1>7 DEF OwnedBy, Record
  <2> HIDE DEF r
  <2> QED
    BY <2>1, <2>3, <2>4, <1>7, RegenWrite
<1>14. CASE RegenRestart(h)
  BY <1>14, <1>7, RepReads DEF RegenRestart
<1> QED
  BY <1>2, <1>3, <1>4, <1>5, <1>6, <1>8, <1>9, <1>10, <1>11, <1>12, <1>13, <1>14 DEF Reporter

LEMMA WipeLocal ==
    ASSUME IInv, Reliable, NEW h \in Hub, WipeRequested(h) \/ Wipe(h)
    PROVE  OnlyHub(h) /\ LocalInv(h)'
<1> USE DEF IInv, CardsOwned, TypeOK, OnlyHub, LocalInv, ProcessInv, CardInv, Operating,
            Regenerating, Loaded, WipeStep, storeVars, mainVars, repVars
<1>1. CASE WipeRequested(h)
  BY <1>1 DEF WipeRequested
<1>2. CASE WipeDelete(h)
  <2> OwnedBy(Empty, h)
    BY HardwareAssumption DEF OwnedBy, Empty
  <2> Outcomes = {TRUE}
    BY ReliableFacts
  <2>1. disk' = [disk EXCEPT ![h] = Empty] /\ mem' = mem /\ wiped' = wiped
    BY <1>2 DEF WipeDelete
  <2>2. disk'[h] = Empty /\ wiped[h] /\ main[h] \in {"panel", "tunnel", "idle"}
    BY <1>2, <2>1 DEF WipeDelete
  <2>3. OnlyHub(h)
    BY <1>2, <2>1 DEF WipeDelete
  <2>4. ProcessInv(h)'
    BY <1>2, <2>1, <2>2 DEF WipeDelete
  <2>5. CardInv(h)'
    BY <1>2, <2>1, <2>2 DEF WipeDelete
  <2> QED
    BY <2>2, <2>3, <2>4, <2>5
<1>3. CASE WipeForget(h)
  BY <1>3 DEF WipeForget
<1>4. CASE WipeVerify(h)
  BY <1>4 DEF WipeVerify
<1>5. CASE StopAfterWipe(h)
  BY <1>5, ProcessLocal DEF StopAfterWipe
<1> QED
  BY <1>1, <1>2, <1>3, <1>4, <1>5 DEF Wipe

LEMMA CloneStep ==
    ASSUME IInv, TypeOK', NEW g \in Hub, NEW h \in Hub, CloneCard(g, h)
    PROVE  IInv'
<1>1. OnlyHub(h)
  BY DEF CloneCard, OnlyHub, IInv, TypeOK, mainVars, repVars, wipeVars
<1>2. LocalInv(h)'
  BY DEF CloneCard, LocalInv, IInv, CardsOwned, TypeOK, ProcessInv, CardInv, Operating,
     Regenerating, Loaded, mainVars, repVars, wipeVars
<1> QED
  BY <1>1, <1>2, LocalStep

LEMMA InvStep ==
    ASSUME IInv, Reliable, [Next]_vars
    PROVE  IInv'
<1>1. TypeOK'
  BY TypeStep DEF IInv
<1>2. ASSUME NEW h \in Hub, Boot(h) \/ PowerOff(h) \/ SupervisorRestart(h)
      PROVE  IInv'
  BY <1>1, <1>2, ProcessLocal, LocalStep DEF Boot, PowerOff, SupervisorRestart
<1>3. ASSUME NEW h \in Hub, Main(h) \/ Reporter(h) \/ WipeRequested(h) \/ Wipe(h)
      PROVE  IInv'
  BY <1>1, <1>3, MainLocal, ReporterLocal, WipeLocal, LocalStep
<1>4. ASSUME NEW g \in Hub, NEW h \in Hub, CloneCard(g, h)
      PROVE  IInv'
  BY <1>1, <1>4, CloneStep
<1>5. CASE UNCHANGED vars
  BY <1>5 DEF vars, storeVars, mainVars, repVars, wipeVars, IInv, TypeOK, CardsOwned,
     ProcessInv, CardInv, Operating, Regenerating, Loaded
<1> QED
  BY <1>2, <1>3, <1>4, <1>5 DEF Next

LEMMA InvInit == Init => IInv
<1> SUFFICES ASSUME Init PROVE IInv
  OBVIOUS
<1>1. TypeOK
  BY ParameterAssumption DEF Init, TypeOK, Record, Pair, OptId, Empty, NoPair, MainPc, RepPc, WipePc
<1>2. ASSUME NEW h \in Hub
      PROVE  OwnedBy(disk[h], h)
  BY HardwareAssumption DEF Init, OwnedBy, Empty
<1>3. ASSUME NEW h \in Hub
      PROVE  ProcessInv(h) /\ CardInv(h)
  BY DEF Init, ProcessInv, CardInv, Operating, Regenerating, Loaded
<1> QED
  BY <1>1, <1>2, <1>3 DEF IInv, CardsOwned

LEMMA Invariance ==
    ASSUME Reliable
    PROVE  Spec => []IInv
<1>1. IInv /\ [Next]_vars => IInv'
  BY InvStep
<1> QED
  BY InvInit, <1>1, PTL DEF Spec

(* Two hubs never operate with a plugin id or a private key in common, however
   often their cards are copied onto one another and wherever the power fails.
   It rests on what each point of the boot has established about the card.  *)
THEOREM NoSharedIdentityHolds ==
    ASSUME Reliable
    PROVE  Spec => []NoSharedIdentity
<1>1. IInv => NoSharedIdentity
  BY DEF IInv, CardInv, NoSharedIdentity
<1> QED
  BY Invariance, <1>1, PTL

(* Whenever a card is pulled out, the bond on it is to the hub that generated
   the identity on it: the order of the writes is the reason.              *)
THEOREM IdentityBoundToMakerHolds ==
    ASSUME Reliable
    PROVE  Spec => []IdentityBoundToMaker
<1>1. IInv => IdentityBoundToMaker
  BY DEF IInv, CardsOwned, OwnedBy, IdentityBoundToMaker
<1> QED
  BY Invariance, <1>1, PTL

(* The bond check gives the stored plugin id up exactly when it was generated
   on another hub.                                                          *)
LEMMA ForeignStep ==
    ASSUME IInv, Reliable, Next, NEW h \in Hub,
           main[h] = "enforce", main'[h] \notin {"enforce", "off"}, disk[h].pid # None
    PROVE  disk'[h].pid = None <=> MadeOn(disk[h].pid) # h
<1> TypeOK /\ ProcessInv(h) /\ CardInv(h) /\ disk[h] \in Record
  BY DEF IInv, TypeOK
<1>1. PICK o \in Hub : OwnedBy(disk[h], o)
  BY DEF IInv, CardsOwned
<1>2. disk[h].bound # {} /\ disk[h].bound \subseteq MacsOf[o] /\ MadeOn(disk[h].pid) = o
  BY <1>1 DEF OwnedBy
<1>3. /\ rep[h] = "none" /\ wipe[h] = "idle" /\ ~wiped[h] /\ Loaded(h) = disk[h]
  BY BootingLocal
<1>4. HardwareMacs(h) = {MacsOf[h]} /\ Outcomes = {TRUE} /\ MacsOf[h] # {}
      /\ MacsOf[h] \in SUBSET Mac
  BY ReliableFacts, HardwareAssumption
<1>5. BondWidened(h) \/ BondForeign(h)
  <2>1. ASSUME NEW g \in Hub \ {h},
               \/ Boot(g) \/ PowerOff(g) \/ SupervisorRestart(g)
               \/ Main(g) \/ Reporter(g) \/ WipeRequested(g) \/ Wipe(g)
        PROVE  main'[h] = main[h]
    <3>1. OnlyHub(g)
      BY <2>1, ProcessLocal, MainLocal, ReporterLocal, WipeLocal
         DEF Boot, PowerOff, SupervisorRestart
    <3> QED
      BY <3>1 DEF OnlyHub
  <2>2. ASSUME NEW f \in Hub, NEW g \in Hub, CloneCard(f, g)
        PROVE  main'[h] = main[h]
    BY <2>2 DEF CloneCard, mainVars
  <2>3. ~Boot(h) /\ ~SupervisorRestart(h) /\ ~Reporter(h) /\ ~WipeRequested(h)
    BY <1>3 DEF Boot, SupervisorRestart, Reporter, CheckWiped, ReadPid, ReadKey,
       ReplyRetry, ReplyStop, ReplyCollision, Reply, RegenClearPid,
       RegenClearKey, RegenGuard, RegenPid, RegenKey, RegenBind, RegenRestart, RegenStep,
       RepStep, WipeRequested
  <2>4. ASSUME PowerOff(h) \/ Wipe(h)
        PROVE  main'[h] \in {"enforce", "off"}
    BY <1>3, <2>4 DEF PowerOff, Wipe, WipeDelete, WipeForget, WipeVerify, WipeStep,
       StopAfterWipe, Stop, mainVars, TypeOK
  <2>5. Main(h)
    BY <2>1, <2>2, <2>3, <2>4 DEF Next
  <2> QED
    BY <2>5, <1>2, <1>3, <1>4 DEF Main, BondSkipped, BondFirst, ForeignClearKey,
       ForeignRebind, SetupPid, SetupKey, LoadIdentity, StartReporter, StartTunnel,
       SecretsStep, MainStep
<1>6. CASE BondWidened(h)
  <2>1. disk[h].bound \cap MacsOf[h] # {}
    BY <1>3, <1>4, <1>6 DEF BondWidened
  <2>2. o = h
    BY <1>1, <2>1, OwnerRecognised
  <2>3. disk'[h].pid = disk[h].pid
    <3>1. Get(h) \/ SetBoundMacs(h, disk[h].bound \union MacsOf[h], TRUE)
      BY <1>3, <1>4, <1>6 DEF BondWidened
    <3>2. disk[h].bound \union MacsOf[h] \in SUBSET Mac
      BY <1>4 DEF Record
    <3>3. CASE SetBoundMacs(h, disk[h].bound \union MacsOf[h], TRUE)
      <4>1. disk' = [disk EXCEPT ![h] = [disk[h] EXCEPT !.bound = disk[h].bound \union MacsOf[h]]]
        BY <1>3, <3>2, <3>3, BondWritten
      <4> QED
        BY <4>1 DEF TypeOK, Record
    <3> QED
      BY <3>1, <3>3 DEF Get
  <2> QED
    BY <1>2, <2>2, <2>3
<1>7. CASE BondForeign(h)
  <2>1. disk[h].bound \cap MacsOf[h] = {} /\ SetPluginId(h, None, TRUE)
    BY <1>3, <1>4, <1>7 DEF BondForeign
  <2>2. o # h
    BY <1>2, <2>1
  <2>3. disk'[h].pid = None
    <3>1. None \in OptId
      BY DEF OptId
    <3>2. disk' = [disk EXCEPT ![h] = [disk[h] EXCEPT !.pid = None]]
      BY <1>3, <2>1, <3>1, IdWritten
    <3> QED
      BY <3>2 DEF TypeOK, Record
  <2> QED
    BY <1>2, <2>2, <2>3
<1> QED
  BY <1>5, <1>6, <1>7

THEOREM ForeignIdentityReplacedHolds ==
    ASSUME Reliable
    PROVE  Spec => ForeignIdentityReplaced
<1>1. IInv /\ [Next]_vars => [\A h \in Hub :
          main[h] = "enforce" /\ main'[h] \notin {"enforce", "off"} /\ disk[h].pid # None =>
              (disk'[h].pid = None <=> MadeOn(disk[h].pid) # h)]_vars
  BY ForeignStep
<1> QED
  BY Invariance, <1>1, PTL DEF Spec, ForeignIdentityReplaced

-----------------------------------------------------------------------------
(* What a hub operates with, and what it reports, against what its card holds.
   A regeneration is what makes them differ, and it is counted: that is what
   the invariant follows from the boot to the restart.                       *)
Halfway == {"clearKey", "guard", "genPid", "genKey"}

Complete(r) == r.pid # None /\ r.key # None

StoredInv(h) ==
    /\ ~Operating(h) => regens[h] = 0 /\ tunnelKey[h] = None
    /\ main[h] = "panel" => rep[h] = "none" /\ regens[h] = 0 /\ tunnelKey[h] = None
    /\ Regenerating(h) => regens[h] # 0
    /\ ~wiped[h] =>
          /\ Operating(h) /\ regens[h] = 0 =>
                op[h] = IdentityOf(disk[h]) /\ tunnelKey[h] \in {None, op[h].key}
          /\ Operating(h) /\ rep[h] \notin Halfway => Complete(disk[h])
          /\ rep[h] = "genKey" => disk[h].pid # None
          /\ rep[h] = "readKey" => current[h].pid = disk[h].pid
          /\ rep[h] = "post" => current[h] = IdentityOf(disk[h])

SInv == IInv /\ \A h \in Hub : StoredInv(h)

(* A step of hub h, for what StoredInv says of the others. *)
OnlyStored(h) == \A g \in Hub \ {h} :
    tunnelKey'[g] = tunnelKey[g] /\ regens'[g] = regens[g] /\ current'[g] = current[g]

LEMMA StoredStep ==
    ASSUME SInv, NEW h \in Hub, OnlyHub(h), OnlyStored(h), StoredInv(h)'
    PROVE  \A g \in Hub : StoredInv(g)'
<1>1. ASSUME NEW g \in Hub \ {h}
      PROVE  StoredInv(g)'
  <2>1. StoredInv(g)
    BY DEF SInv
  <2> QED
    BY <2>1 DEF OnlyHub, OnlyStored, StoredInv, Operating, Regenerating
<1> QED
  BY <1>1

LEMMA StoredProcess ==
    ASSUME TypeOK, NEW h \in Hub, StartProcess(h) \/ Stop(h)
    PROVE  OnlyStored(h) /\ StoredInv(h)'
<1> USE DEF TypeOK, ResetProcess, OnlyStored, StoredInv, Operating, Regenerating
<1>1. CASE StartProcess(h)
  BY <1>1 DEF StartProcess
<1>2. CASE Stop(h)
  BY <1>2 DEF Stop
<1> QED
  BY <1>1, <1>2

(* The boot, up to the moment the identity is loaded: nothing operates yet. *)
LEMMA BootStays ==
    ASSUME TypeOK, NEW h \in Hub, Main(h), ~Stop(h),
           main[h] \notin {"load", "panel", "tunnel"}
    PROVE  ~Operating(h)' /\ UNCHANGED <<op, tunnelKey, repVars, wipeVars>> /\ ~Operating(h)
<1> USE DEF TypeOK, Operating, BondCheck, SecretsStep, MainStep
<1>1. CASE BondSkipped(h)
  BY <1>1 DEF BondSkipped
<1>2. CASE BondFirst(h)
  BY <1>2 DEF BondFirst
<1>3. CASE BondWidened(h)
  BY <1>3 DEF BondWidened
<1>4. CASE BondForeign(h)
  BY <1>4 DEF BondForeign
<1>5. CASE ForeignClearKey(h)
  BY <1>5 DEF ForeignClearKey
<1>6. CASE ForeignRebind(h)
  BY <1>6 DEF ForeignRebind
<1>7. CASE SetupPid(h)
  BY <1>7 DEF SetupPid
<1>8. CASE SetupKey(h)
  BY <1>8 DEF SetupKey
<1> QED
  BY <1>1, <1>2, <1>3, <1>4, <1>5, <1>6, <1>7, <1>8
     DEF Main, LoadIdentity, StartReporter, StartTunnel

LEMMA StoredMain ==
    ASSUME SInv, NEW h \in Hub, Main(h)
    PROVE  OnlyStored(h) /\ StoredInv(h)'
<1> TypeOK /\ ProcessInv(h) /\ CardInv(h) /\ StoredInv(h) /\ disk[h] \in Record
  BY DEF SInv, IInv, TypeOK
<1>1. CASE Stop(h)
  BY <1>1, StoredProcess
<1>2. CASE ~Stop(h) /\ main[h] \notin {"load", "panel", "tunnel"}
  <2>1. ~Operating(h)' /\ UNCHANGED <<tunnelKey, repVars, wipeVars>> /\ ~Operating(h)
    BY <1>2, BootStays
  <2>2. rep[h] = "none"
    BY <2>1 DEF ProcessInv
  <2> QED
    BY <2>1, <2>2 DEF OnlyStored, StoredInv, Operating, Regenerating, repVars, wipeVars
<1>3. CASE LoadIdentity(h)
  <2>1. main[h] = "load" /\ main'[h] = "panel" /\ UNCHANGED <<repVars, wipeVars, disk>>
        /\ tunnelKey' = tunnelKey /\ op'[h] = IdentityOf(Loaded(h))
    BY <1>3 DEF LoadIdentity, MainStep, Get, TypeOK
  <2>2. rep[h] = "none" /\ ~wiped[h] /\ Loaded(h) = disk[h] /\ regens[h] = 0
        /\ tunnelKey[h] = None /\ Complete(disk[h])
    BY <2>1 DEF ProcessInv, CardInv, StoredInv, Operating, Complete
  <2> QED
    BY <2>1, <2>2 DEF OnlyStored, StoredInv, Operating, Regenerating, repVars, wipeVars
<1>4. CASE StartReporter(h)
  BY <1>4 DEF StartReporter, Get, OnlyStored, StoredInv, Operating, Regenerating, Halfway,
     TypeOK, wipeVars
<1>5. CASE StartTunnel(h)
  <2>1. main[h] = "tunnel" /\ main'[h] = "idle" /\ UNCHANGED <<repVars, wipeVars, disk, op>>
        /\ tunnelKey'[h] = Loaded(h).key
    BY <1>5 DEF StartTunnel, MainStep, Get, TypeOK
  <2>2. ~wiped[h] /\ regens[h] = 0 => tunnelKey'[h] = op[h].key
    BY <2>1 DEF ProcessInv, StoredInv, Operating, IdentityOf
  <2>3. OnlyStored(h)
    BY <1>5, <2>1 DEF StartTunnel, OnlyStored, TypeOK, repVars
  <2> QED
    BY <2>1, <2>2, <2>3 DEF StoredInv, Operating, Regenerating, repVars, wipeVars
<1> QED
  BY <1>1, <1>2, <1>3, <1>4, <1>5 DEF Main, BondSkipped, BondFirst, BondWidened, BondForeign,
     BondCheck, ForeignClearKey, ForeignRebind, SetupPid, SetupKey, SecretsStep, MainStep

(* The registration thread: it posts what it has just read from the card, and it
   writes on the card only after it has counted a regeneration.              *)
LEMMA StoredReporter ==
    ASSUME SInv, Reliable, NEW h \in Hub, Reporter(h)
    PROVE  OnlyStored(h) /\ StoredInv(h)'
<1> TypeOK /\ ProcessInv(h) /\ StoredInv(h) /\ disk[h] \in Record
  BY DEF SInv, IInv, TypeOK
<1> Outcomes = {TRUE}
  BY ReliableFacts
<1>1. ASSUME NEW from, NEW to, RepStep(h, from, to)
      PROVE  /\ rep[h] = from /\ rep'[h] = to /\ UNCHANGED <<main, op, tunnelKey, wiped>>
  BY <1>1 DEF RepStep, TypeOK, mainVars, wipeVars
<1>2. ASSUME rep[h] # "none"
      PROVE  Operating(h) /\ main[h] # "panel"
  BY <1>2 DEF ProcessInv, StoredInv
<1>3. CASE CheckWiped(h)
  BY <1>1, <1>2, <1>3 DEF CheckWiped, OnlyStored, StoredInv, Operating, Regenerating, Halfway, storeVars
<1>4. CASE ReadPid(h)
  <2>1. rep[h] = "check" \/ rep[h] = "readPid"
    BY <1>1, <1>4 DEF ReadPid
  <2>2. current'[h].pid = Loaded(h).pid /\ OnlyStored(h) /\ UNCHANGED <<disk, regens>>
    BY <1>1, <1>4 DEF ReadPid, OnlyStored, TypeOK, Get
  <2> QED
    BY <1>1, <1>2, <1>4, <2>2 DEF ReadPid, ProcessInv, StoredInv, Operating, Regenerating, Halfway
<1>5. CASE ReadKey(h)
  <2>1. rep[h] = "readKey" /\ rep'[h] = "post" /\ UNCHANGED <<main, op, tunnelKey, wiped>>
    BY <1>1, <1>5 DEF ReadKey
  <2>2. OnlyStored(h) /\ UNCHANGED <<disk, regens>>
    BY <1>5, <2>1 DEF ReadKey, OnlyStored, TypeOK, Get
  <2>3. current'[h] = [pid |-> current[h].pid, key |-> Loaded(h).key]
    BY <1>5 DEF ReadKey, TypeOK, Pair
  <2>4. ~wiped[h] => current'[h] = IdentityOf(disk[h])
    BY <2>1, <2>3 DEF ProcessInv, StoredInv, IdentityOf
  <2> QED
    BY <1>2, <2>1, <2>2, <2>4 DEF StoredInv, Operating, Regenerating, Halfway
<1>6. CASE ReplyRetry(h) \/ ReplyStop(h)
  <2>1. rep[h] = "post" /\ rep'[h] \in {"check", "done"}
        /\ UNCHANGED <<main, op, tunnelKey, wiped, disk, regens>>
    BY <1>1, <1>6 DEF ReplyRetry, ReplyStop, Reply, storeVars
  <2>2. OnlyStored(h)
    BY <1>6, <2>1 DEF ReplyRetry, ReplyStop, Reply, OnlyStored, TypeOK
  <2> QED
    BY <1>2, <2>1, <2>2 DEF StoredInv, Operating, Regenerating, Halfway
<1>7. CASE ReplyCollision(h)
  <2>1. rep[h] = "post" /\ rep'[h] = "clearPid"
        /\ UNCHANGED <<main, op, tunnelKey, wiped, disk>>
    BY <1>1, <1>7 DEF ReplyCollision, Reply, storeVars
  <2>2. OnlyStored(h) /\ regens'[h] = regens[h] + 1 /\ regens[h] \in Nat
    BY <1>7, <2>1, ParameterAssumption DEF ReplyCollision, Reply, OnlyStored, TypeOK
  <2> QED
    BY <1>2, <2>1, <2>2 DEF StoredInv, Operating, Regenerating, Halfway
<1>8. ASSUME NEW from \in {"clearPid", "clearKey", "guard", "genPid", "genKey", "bind", "restart"},
             NEW to, RegenStep(h, from, to, TRUE)
      PROVE  /\ rep[h] = from /\ rep'[h] = to /\ UNCHANGED <<main, op, tunnelKey, wiped, regens>>
             /\ regens[h] # 0 /\ ~wiped[h] /\ Operating(h) /\ main[h] # "panel"
             /\ Loaded(h) = disk[h] /\ OnlyStored(h)
  <2>1. RepStep(h, from, to) /\ Regenerating(h)
    BY <1>8 DEF RegenStep, RepStep, Regenerating
  <2>2. Operating(h) /\ main[h] # "panel" /\ rep[h] = from /\ rep'[h] = to
        /\ UNCHANGED <<main, op, tunnelKey, wiped>>
    BY <1>1, <1>2, <2>1
  <2>3. ~wiped[h] /\ Loaded(h) = disk[h] /\ regens[h] # 0
    BY <2>1, RegenLocal DEF SInv, StoredInv
  <2> QED
    BY <1>8, <2>2, <2>3 DEF RegenStep, OnlyStored
<1>9. CASE RegenClearPid(h)
  <2>1. RegenStep(h, "clearPid", "clearKey", TRUE)
    BY <1>9 DEF RegenClearPid
  <2>2. /\ rep'[h] = "clearKey" /\ UNCHANGED <<main, op, tunnelKey, wiped, regens>>
        /\ regens[h] # 0 /\ ~wiped[h] /\ Operating(h) /\ main[h] # "panel" /\ OnlyStored(h)
    BY <1>8, <2>1
  <2> QED
    BY <2>2 DEF StoredInv, Operating, Regenerating, Halfway
<1>10. CASE RegenClearKey(h)
  <2>1. RegenStep(h, "clearKey", "guard", TRUE)
    BY <1>10 DEF RegenClearKey
  <2>2. /\ rep'[h] = "guard" /\ UNCHANGED <<main, op, tunnelKey, wiped, regens>>
        /\ regens[h] # 0 /\ ~wiped[h] /\ Operating(h) /\ main[h] # "panel" /\ OnlyStored(h)
    BY <1>8, <2>1
  <2> QED
    BY <2>2 DEF StoredInv, Operating, Regenerating, Halfway
<1>11. CASE RegenGuard(h)
  <2>1. RegenStep(h, "guard", IF wiped[h] THEN "bind" ELSE "genPid", TRUE)
    BY <1>11 DEF RegenGuard
  <2>2. rep'[h] = "genPid"
    BY <1>8, <2>1
  <2> QED
    BY <1>8, <2>1, <2>2 DEF StoredInv, Operating, Regenerating, Halfway
<1>12. CASE RegenPid(h)
  <2> PICK i \in FreshPid(h) :
           RegenStep(h, "genPid", "genKey", TRUE) /\ SetPluginId(h, i, TRUE)
    BY <1>12 DEF RegenPid
  <2>1. i \in OptId /\ i # None
    BY FreshTyped, NoneAssumption DEF OptId
  <2>2. Loaded(h) = disk[h]
    BY <1>8
  <2>3. disk' = [disk EXCEPT ![h] = [disk[h] EXCEPT !.pid = i]]
    BY <2>1, <2>2, IdWritten
  <2>4. disk'[h].pid = i
    BY <2>3 DEF TypeOK, Record
  <2>5. /\ rep'[h] = "genKey" /\ UNCHANGED <<main, op, tunnelKey, wiped, regens>>
        /\ regens[h] # 0 /\ ~wiped[h] /\ Operating(h) /\ main[h] # "panel" /\ OnlyStored(h)
    BY <1>8
  <2> QED
    BY <2>1, <2>4, <2>5 DEF StoredInv, Operating, Regenerating, Halfway
<1>13. CASE RegenKey(h)
  <2> PICK k \in FreshKey(h) :
           RegenStep(h, "genKey", "bind", TRUE) /\ SetPrivateKey(h, k, TRUE)
    BY <1>13 DEF RegenKey
  <2>1. k \in OptId /\ k # None
    BY FreshTyped, NoneAssumption DEF OptId
  <2>2. Loaded(h) = disk[h] /\ disk[h].pid # None
    BY <1>8 DEF StoredInv
  <2>3. disk' = [disk EXCEPT ![h] = [disk[h] EXCEPT !.key = k]]
    BY <2>1, <2>2, IdWritten
  <2>4. Complete(disk'[h])
    BY <2>1, <2>2, <2>3 DEF TypeOK, Record, Complete
  <2>5. /\ rep'[h] = "bind" /\ UNCHANGED <<main, op, tunnelKey, wiped, regens>>
        /\ regens[h] # 0 /\ ~wiped[h] /\ Operating(h) /\ main[h] # "panel" /\ OnlyStored(h)
    BY <1>8
  <2> QED
    BY <2>4, <2>5 DEF StoredInv, Operating, Regenerating, Halfway
<1>14. CASE RegenBind(h)
  <2> PICK ms \in HardwareMacs(h) :
           RegenStep(h, "bind", "restart", TRUE) /\ SetBoundMacs(h, ms, TRUE)
    BY <1>14 DEF RegenBind
  <2>1. ms \in SUBSET Mac /\ Loaded(h) = disk[h] /\ Complete(disk[h])
    BY <1>8, HardwareTyped DEF StoredInv, Halfway
  <2>2. disk' = [disk EXCEPT ![h] = [disk[h] EXCEPT !.bound = ms]]
    BY <2>1, BondWritten
  <2>3. Complete(disk'[h])
    BY <2>1, <2>2 DEF TypeOK, Record, Complete
  <2>4. /\ rep'[h] = "restart" /\ UNCHANGED <<main, op, tunnelKey, wiped, regens>>
        /\ regens[h] # 0 /\ ~wiped[h] /\ Operating(h) /\ main[h] # "panel" /\ OnlyStored(h)
    BY <1>8
  <2> QED
    BY <2>3, <2>4 DEF StoredInv, Operating, Regenerating, Halfway
<1>15. CASE RegenRestart(h)
  <2>1. PICK to \in {"restarting", "check"} : RegenStep(h, "restart", to, TRUE)
    BY <1>15 DEF RegenRestart
  <2>2. UNCHANGED disk
    BY <1>15 DEF RegenRestart, storeVars
  <2> QED
    BY <1>8, <2>1, <2>2 DEF StoredInv, Operating, Regenerating, Halfway
<1> QED
  BY <1>3, <1>4, <1>5, <1>6, <1>7, <1>9, <1>10, <1>11, <1>12, <1>13, <1>14, <1>15 DEF Reporter

(* A wipe: from its first step on nothing is said of the card. *)
LEMMA StoredWipe ==
    ASSUME SInv, NEW h \in Hub, WipeRequested(h) \/ Wipe(h)
    PROVE  OnlyStored(h) /\ StoredInv(h)'
<1> TypeOK /\ ProcessInv(h) /\ StoredInv(h)
  BY DEF SInv, IInv
<1> USE DEF WipeStep, OnlyStored, StoredInv, ProcessInv, Operating, Regenerating, mainVars, repVars
<1>1. CASE WipeRequested(h)
  BY <1>1 DEF WipeRequested, TypeOK
<1>2. CASE WipeDelete(h)
  BY <1>2 DEF WipeDelete
<1>3. CASE WipeForget(h)
  BY <1>3 DEF WipeForget
<1>4. CASE WipeVerify(h)
  BY <1>4 DEF WipeVerify, storeVars
<1>5. CASE StopAfterWipe(h)
  <2>1. CASE Stop(h)
    BY <2>1, StoredProcess
  <2>2. CASE ~Stop(h)
    BY <1>5, <2>2 DEF StopAfterWipe, storeVars
  <2> QED
    BY <2>1, <2>2
<1> QED
  BY <1>1, <1>2, <1>3, <1>4, <1>5 DEF Wipe

LEMMA StoredInvStep ==
    ASSUME SInv, Reliable, [Next]_vars
    PROVE  SInv'
<1>1. IInv /\ IInv' /\ TypeOK
  BY InvStep DEF SInv, IInv
<1>2. ASSUME NEW h \in Hub, Boot(h) \/ PowerOff(h) \/ SupervisorRestart(h)
      PROVE  SInv'
  <2>1. OnlyHub(h) /\ OnlyStored(h) /\ StoredInv(h)'
    BY <1>1, <1>2, ProcessLocal, StoredProcess DEF Boot, PowerOff, SupervisorRestart
  <2> QED
    BY <1>1, <2>1, StoredStep DEF SInv
<1>3. ASSUME NEW h \in Hub, Main(h) \/ Reporter(h) \/ WipeRequested(h) \/ Wipe(h)
      PROVE  SInv'
  <2>1. OnlyHub(h)
    BY <1>1, <1>3, MainLocal, ReporterLocal, WipeLocal
  <2>2. OnlyStored(h) /\ StoredInv(h)'
    BY <1>3, StoredMain, StoredReporter, StoredWipe
  <2> QED
    BY <1>1, <2>1, <2>2, StoredStep DEF SInv
<1>4. ASSUME NEW g \in Hub, NEW h \in Hub, CloneCard(g, h)
      PROVE  SInv'
  <2>1. OnlyHub(h) /\ OnlyStored(h)
    BY <1>1, <1>4 DEF CloneCard, OnlyHub, OnlyStored, TypeOK, mainVars, repVars, wipeVars
  <2>2. rep[h] = "none" /\ main[h] = "off" /\ UNCHANGED <<main, rep, regens, tunnelKey>>
    BY <1>1, <1>4 DEF CloneCard, IInv, ProcessInv, Operating, mainVars, repVars
  <2>3. StoredInv(h)'
    BY <2>2 DEF SInv, StoredInv, Operating, Regenerating
  <2> QED
    BY <1>1, <2>1, <2>3, StoredStep DEF SInv
<1>5. CASE UNCHANGED vars
  BY <1>1, <1>5 DEF SInv, StoredInv, Operating, Regenerating, vars, storeVars, mainVars, repVars, wipeVars
<1> QED
  BY <1>2, <1>3, <1>4, <1>5 DEF Next

LEMMA StoredInvariance ==
    ASSUME Reliable
    PROVE  Spec => []SInv
<1>1. Init => SInv
  BY InvInit DEF Init, SInv, StoredInv, Operating, Regenerating
<1>2. SInv /\ [Next]_vars => SInv'
  BY StoredInvStep
<1> QED
  BY <1>1, <1>2, PTL DEF Spec

(* A hub that has regenerated nothing since its boot operates with the identity on
   its card, its tunnel too, although every component keeps a copy of its own and
   the tunnel reads the key while the registration thread already runs.       *)
THEOREM OperatesAsStoredHolds ==
    ASSUME Reliable
    PROVE  Spec => []OperatesAsStored
<1>1. SInv => OperatesAsStored
  BY DEF SInv, StoredInv, OperatesAsStored
<1> QED
  BY StoredInvariance, <1>1, PTL

(* What is posted is the complete pair on the card, however the regeneration, a
   refused restart and the two reads of the turn follow one another.          *)
THEOREM PostsStoredIdentityHolds ==
    ASSUME Reliable
    PROVE  Spec => []PostsStoredIdentity
<1>1. SInv => PostsStoredIdentity
  <2> SUFFICES ASSUME SInv, NEW h \in Hub, rep[h] = "post", ~wiped[h]
               PROVE  /\ current[h] = IdentityOf(disk[h])
                      /\ None \notin {current[h].pid, current[h].key}
    BY DEF PostsStoredIdentity
  <2>1. Operating(h) /\ StoredInv(h)
    BY DEF SInv, IInv, ProcessInv
  <2> QED
    BY <2>1 DEF StoredInv, Complete, IdentityOf, Halfway
<1> QED
  BY StoredInvariance, <1>1, PTL

-----------------------------------------------------------------------------
(* A hub that has counted no collision regenerates nothing; the registration thread
   and a wipe need the panel open. Addresses may hide and writes may fail here. *)
WipeInv ==
    /\ TypeOK
    /\ \A h \in Hub :
          /\ Regenerating(h) => regens[h] # 0
          /\ rep[h] # "none" => Operating(h)
          /\ main[h] = "off" => wipe[h] = "idle"
          /\ wipe[h] # "idle" => Operating(h)

(* A step of the boot before the panel opens. *)
LEMMA BootFrame ==
    ASSUME TypeOK, NEW h \in Hub, Main(h), ~Stop(h),
           main[h] \in {"enforce", "clearKey", "rebind", "setupPid", "setupKey"}
    PROVE  /\ UNCHANGED <<repVars, wipeVars>> /\ main'[h] # "off"
           /\ \A g \in Hub \ {h} : disk'[g] = disk[g] /\ mem'[g] = mem[g] /\ main'[g] = main[g]
<1> USE DEF TypeOK, SetPluginId, SetPrivateKey, SetBoundMacs, Save, Get, BondCheck, SecretsStep,
            MainStep, storeVars
<1>1. CASE BondSkipped(h)
  BY <1>1 DEF BondSkipped
<1>2. CASE BondFirst(h)
  BY <1>2 DEF BondFirst
<1>3. CASE BondWidened(h)
  BY <1>3 DEF BondWidened
<1>4. CASE BondForeign(h)
  BY <1>4 DEF BondForeign
<1>5. CASE ForeignClearKey(h)
  BY <1>5 DEF ForeignClearKey
<1>6. CASE ForeignRebind(h)
  BY <1>6 DEF ForeignRebind
<1>7. CASE SetupPid(h)
  BY <1>7 DEF SetupPid
<1>8. CASE SetupKey(h)
  BY <1>8 DEF SetupKey
<1> QED
  BY <1>1, <1>2, <1>3, <1>4, <1>5, <1>6, <1>7, <1>8
     DEF Main, LoadIdentity, StartReporter, StartTunnel

LEMMA WipeInvStep ==
    ASSUME WipeInv, [Next]_vars
    PROVE  WipeInv'
<1>1. TypeOK'
  BY TypeStep DEF WipeInv
<1> USE DEF WipeInv, TypeOK, Regenerating, Operating
<1>2. ASSUME NEW h \in Hub, StartProcess(h) \/ Stop(h)
      PROVE  WipeInv'
  BY <1>1, <1>2 DEF StartProcess, Stop, ResetProcess
<1>3. ASSUME NEW h \in Hub, Main(h)
      PROVE  WipeInv'
  <2>1. CASE main[h] \in {"enforce", "clearKey", "rebind", "setupPid", "setupKey"}
    <3>1. wipe[h] = "idle"
      BY <2>1
    <3>2. CASE ~Stop(h)
      <4>1. /\ UNCHANGED <<repVars, wipeVars>> /\ main'[h] # "off"
            /\ \A g \in Hub \ {h} : disk'[g] = disk[g] /\ main'[g] = main[g]
        BY <1>3, <2>1, <3>2, BootFrame
      <4>2. rep[h] = "none"
        BY <2>1
      <4> QED
        BY <1>1, <3>1, <4>1, <4>2 DEF repVars, wipeVars
    <3> QED
      BY <1>2, <3>2
  <2>2. CASE LoadIdentity(h) \/ StartReporter(h) \/ StartTunnel(h)
    BY <1>1, <2>2 DEF LoadIdentity, StartReporter, StartTunnel, MainStep, Get, repVars, wipeVars
  <2> QED
    BY <1>3, <2>1, <2>2 DEF Main, BondSkipped, BondFirst, BondWidened, BondForeign, BondCheck,
       ForeignClearKey, ForeignRebind, SetupPid, SetupKey, SecretsStep, MainStep
<1>4. ASSUME NEW h \in Hub, Reporter(h)
      PROVE  WipeInv'
  <2>1. /\ rep[h] # "none" /\ rep' = [rep EXCEPT ![h] = rep'[h]]
        /\ UNCHANGED <<mainVars, wipeVars>>
        /\ \/ regens' = regens /\ (Regenerating(h) \/ ~Regenerating(h)')
           \/ regens' = [regens EXCEPT ![h] = @ + 1]
    <3>1. CASE CheckWiped(h) \/ ReadPid(h) \/ ReadKey(h)
      BY <3>1 DEF CheckWiped, ReadPid, ReadKey, RepStep
    <3>2. CASE ReplyRetry(h) \/ ReplyStop(h) \/ ReplyCollision(h)
      BY <3>2 DEF ReplyRetry, ReplyStop, ReplyCollision, Reply, RepStep
    <3>3. CASE \/ RegenClearPid(h) \/ RegenClearKey(h) \/ RegenGuard(h) \/ RegenPid(h)
               \/ RegenKey(h) \/ RegenBind(h) \/ RegenRestart(h)
      BY <3>3 DEF RegenClearPid, RegenClearKey, RegenGuard, RegenPid, RegenKey, RegenBind,
         RegenRestart, RegenStep, RepStep
    <3> QED
      BY <1>4, <3>1, <3>2, <3>3 DEF Reporter
  <2> QED
    BY <1>1, <2>1 DEF mainVars, wipeVars
<1>5. ASSUME NEW h \in Hub, WipeRequested(h) \/ Wipe(h)
      PROVE  WipeInv'
  <2>1. CASE WipeRequested(h) \/ WipeDelete(h) \/ WipeForget(h) \/ WipeVerify(h)
    BY <1>1, <2>1 DEF WipeRequested, WipeDelete, WipeForget, WipeVerify, WipeStep, storeVars,
       mainVars, repVars
  <2>2. CASE StopAfterWipe(h)
    BY <1>1, <1>2, <2>2 DEF StopAfterWipe, storeVars, mainVars, repVars
  <2> QED
    BY <1>5, <2>1, <2>2 DEF Wipe
<1>6. ASSUME NEW g \in Hub, NEW h \in Hub, CloneCard(g, h)
      PROVE  WipeInv'
  BY <1>1, <1>6 DEF CloneCard, mainVars, repVars, wipeVars
<1>7. CASE UNCHANGED vars
  BY <1>7 DEF vars, storeVars, mainVars, repVars, wipeVars
<1>8. ASSUME NEW h \in Hub, Boot(h) \/ PowerOff(h) \/ SupervisorRestart(h)
      PROVE  WipeInv'
  BY <1>2, <1>8 DEF Boot, PowerOff, SupervisorRestart
<1> QED
  BY <1>3, <1>4, <1>5, <1>6, <1>7, <1>8 DEF Next

-----------------------------------------------------------------------------
(* What a wipe leaves of the identity the process was started with. Every other
   thread may write meanwhile, and any write may fail: nothing is assumed of Env. *)

(* The half v of an identity is the half w that this process operates with. *)
Old(v, w) == w # None /\ v = w

GoneInv ==
    /\ TypeOK
    /\ \A h \in Hub :
          /\ wipe[h] # "idle" => Operating(h)
          /\ wipe[h] = "verify" =>
                /\ Old(Loaded(h).pid, op[h].pid) => Old(disk[h].pid, op[h].pid)
                /\ Old(Loaded(h).key, op[h].key) => Old(disk[h].key, op[h].key)
          /\ wipe[h] = "clean" =>
                /\ ~Old(disk[h].pid, op[h].pid) /\ ~Old(Loaded(h).pid, op[h].pid)
                /\ ~Old(disk[h].key, op[h].key) /\ ~Old(Loaded(h).key, op[h].key)

(* What a write can do to a half: the cache keeps it, loses it, or gets one that is
   not in use; the card keeps its own or takes that of the cache.             *)
Rewritten(h) ==
    /\ disk'[h].pid \in {disk[h].pid, Loaded(h)'.pid}
    /\ disk'[h].key \in {disk[h].key, Loaded(h)'.key}
    /\ Loaded(h)'.pid = Loaded(h).pid \/ ~Old(Loaded(h)'.pid, op[h].pid)
    /\ Loaded(h)'.key = Loaded(h).key \/ ~Old(Loaded(h)'.key, op[h].key)

OnlyCard(h) ==
    /\ \A g \in Hub \ {h} : disk'[g] = disk[g] /\ mem'[g] = mem[g] /\ main'[g] = main[g]
    /\ UNCHANGED <<op, wipe>>

LEMMA GetRewrites ==
    ASSUME TypeOK, NEW h \in Hub, Get(h) \/ UNCHANGED storeVars
    PROVE  Rewritten(h) /\ \A g \in Hub \ {h} : disk'[g] = disk[g] /\ mem'[g] = mem[g]
<1>1. Loaded(h)' = Loaded(h) /\ disk' = disk
  BY LoadedTyped, NoneAssumption DEF Loaded, Get, TypeOK, storeVars
<1> QED
  BY <1>1 DEF Rewritten, Get, TypeOK, storeVars

LEMMA SetRewrites ==
    ASSUME TypeOK, NEW h \in Hub, NEW ok, NEW i \in OptId, NEW ms \in SUBSET Mac,
           \/ SetPluginId(h, i, ok) /\ ~Old(i, op[h].pid)
           \/ SetPrivateKey(h, i, ok) /\ ~Old(i, op[h].key)
           \/ SetBoundMacs(h, ms, ok)
    PROVE  Rewritten(h) /\ \A g \in Hub \ {h} : disk'[g] = disk[g] /\ mem'[g] = mem[g]
<1> DEFINE l == Loaded(h)
<1>1. l \in Record
  BY LoadedTyped
<1>2. PICK r \in Record :
         /\ Save(h, r, ok)
         /\ r.pid = l.pid \/ ~Old(r.pid, op[h].pid)
         /\ r.key = l.key \/ ~Old(r.key, op[h].key)
  <2>1. CASE SetPluginId(h, i, ok) /\ ~Old(i, op[h].pid)
    <3> DEFINE r == [l EXCEPT !.pid = i]
    <3>1. r \in Record /\ r.pid = i /\ r.key = l.key
      BY <1>1 DEF Record
    <3> QED
      BY <2>1, <3>1 DEF SetPluginId
  <2>2. CASE SetPrivateKey(h, i, ok) /\ ~Old(i, op[h].key)
    <3> DEFINE r == [l EXCEPT !.key = i]
    <3>1. r \in Record /\ r.pid = l.pid /\ r.key = i
      BY <1>1 DEF Record
    <3> QED
      BY <2>2, <3>1 DEF SetPrivateKey
  <2>3. CASE SetBoundMacs(h, ms, ok)
    <3> DEFINE r == [l EXCEPT !.bound = ms]
    <3>1. r \in Record /\ r.pid = l.pid /\ r.key = l.key
      BY <1>1 DEF Record
    <3> QED
      BY <2>3, <3>1 DEF SetBoundMacs
  <2> QED
    BY <2>1, <2>2, <2>3
<1>3. mem'[h] = r /\ r # None /\ disk'[h] \in {r, disk[h]}
  BY <1>2, NoneAssumption DEF Save, TypeOK
<1>4. Loaded(h)' = r
  BY <1>3 DEF Loaded
<1> QED
  BY <1>2, <1>3, <1>4 DEF Rewritten, Save, TypeOK

(* A fresh half is not in use: what the process operates with is one of the copies. *)
LEMMA FreshIsNew ==
    ASSUME NEW h \in Hub
    PROVE  /\ \A i \in FreshPid(h) : i \in OptId /\ ~Old(i, op[h].pid)
           /\ \A k \in FreshKey(h) : k \in OptId /\ ~Old(k, op[h].key)
<1>1. op[h] \in Copies(h)
  BY DEF Copies
<1>2. op[h].pid \in UNION {{c.pid : c \in Copies(g)} : g \in Hub}
  BY <1>1
<1>3. op[h].key \in UNION {{c.key : c \in Copies(g)} \union {tunnelKey[g]} : g \in Hub}
  BY <1>1
<1>4. \A i \in FreshPid(h) : i \in OptId /\ i # op[h].pid
  BY <1>2, FreshTyped DEF FreshPid, Unused, OptId
<1>5. \A k \in FreshKey(h) : k \in OptId /\ k # op[h].key
  BY <1>3, FreshTyped DEF FreshKey, Unused, OptId
<1> QED
  BY <1>4, <1>5 DEF Old

LEMMA ReporterRewrites ==
    ASSUME TypeOK, NEW h \in Hub, Reporter(h)
    PROVE  Rewritten(h) /\ OnlyCard(h) /\ main'[h] = main[h]
<1> None \in OptId /\ \A w : ~Old(None, w)
  BY DEF OptId, Old
<1>1. UNCHANGED <<op, main, wipe>>
  BY DEF Reporter, CheckWiped, ReadPid, ReadKey, ReplyRetry, ReplyStop,
     ReplyCollision, Reply, RegenClearPid, RegenClearKey, RegenGuard, RegenPid, RegenKey,
     RegenBind, RegenRestart, RegenStep, RepStep, mainVars, wipeVars
<1>2. Rewritten(h) /\ \A g \in Hub \ {h} : disk'[g] = disk[g] /\ mem'[g] = mem[g]
  <2>1. CASE Get(h) \/ UNCHANGED storeVars
    BY <2>1, GetRewrites
  <2>2. CASE \E i \in FreshPid(h) \union {None}, ok \in Outcomes : SetPluginId(h, i, ok)
    BY <2>2, FreshIsNew, SetRewrites
  <2>3. CASE \E k \in FreshKey(h) \union {None}, ok \in Outcomes : SetPrivateKey(h, k, ok)
    BY <2>3, FreshIsNew, SetRewrites
  <2>4. CASE \E ms \in HardwareMacs(h), ok \in Outcomes : SetBoundMacs(h, ms, ok)
    BY <2>4, HardwareTyped, SetRewrites
  <2> QED
    BY <2>1, <2>2, <2>3, <2>4 DEF Reporter, CheckWiped, ReadPid, ReadKey,
       ReplyRetry, ReplyStop, ReplyCollision, Reply, RegenClearPid, RegenClearKey, RegenGuard,
       RegenPid, RegenKey, RegenBind, RegenRestart
<1> QED
  BY <1>1, <1>2 DEF OnlyCard

LEMMA GoneInvStep ==
    ASSUME GoneInv, [Next]_vars
    PROVE  GoneInv'
<1>1. TypeOK /\ TypeOK'
  BY TypeStep DEF GoneInv
<1> USE DEF GoneInv, Operating, Loaded
<1>2. ASSUME NEW h \in Hub, StartProcess(h) \/ Stop(h)
      PROVE  GoneInv'
  BY <1>1, <1>2 DEF TypeOK, StartProcess, Stop, ResetProcess
<1>3. ASSUME NEW h \in Hub, Rewritten(h), OnlyCard(h), Operating(h)' \/ wipe[h] = "idle"
      PROVE  GoneInv'
  BY <1>1, <1>3 DEF Rewritten, OnlyCard, Old
<1>4. ASSUME NEW h \in Hub, Main(h), ~Stop(h)
      PROVE  GoneInv'
  <2>1. CASE main[h] \in {"enforce", "clearKey", "rebind", "setupPid", "setupKey"}
    <3>1. wipe[h] = "idle" /\ wipe' = wipe /\ op' = op
      BY <1>1, <1>4, <2>1, BootStays DEF wipeVars
    <3>2. \A g \in Hub \ {h} : disk'[g] = disk[g] /\ mem'[g] = mem[g] /\ main'[g] = main[g]
      BY <1>1, <1>4, <2>1, BootFrame
    <3> QED
      BY <1>1, <3>1, <3>2
  <2>2. CASE LoadIdentity(h)
    BY <1>1, <2>2 DEF LoadIdentity, MainStep, Get, TypeOK, wipeVars
  <2>3. CASE StartReporter(h) \/ StartTunnel(h)
    <3>1. Get(h) /\ OnlyCard(h) /\ Operating(h)'
      BY <1>1, <2>3 DEF StartReporter, StartTunnel, MainStep, Get, OnlyCard, TypeOK, wipeVars
    <3> QED
      BY <1>1, <1>3, <3>1, GetRewrites
  <2> QED
    BY <1>4, <2>1, <2>2, <2>3 DEF Main, BondSkipped, BondFirst, BondWidened, BondForeign,
       BondCheck, ForeignClearKey, ForeignRebind, SetupPid, SetupKey, SecretsStep, MainStep
<1>5. ASSUME NEW h \in Hub, Reporter(h)
      PROVE  GoneInv'
  BY <1>1, <1>3, <1>5, ReporterRewrites
<1>6. ASSUME NEW h \in Hub, WipeRequested(h) \/ Wipe(h)
      PROVE  GoneInv'
  <2>1. CASE WipeRequested(h)
    BY <1>1, <2>1 DEF TypeOK, WipeRequested, WipeStep, storeVars, mainVars
  <2>2. CASE WipeDelete(h)
    BY <1>1, <2>2 DEF TypeOK, WipeDelete, WipeStep, mainVars
  <2>3. CASE WipeForget(h)
    BY <1>1, <2>3 DEF TypeOK, WipeForget, WipeStep, mainVars
  <2>4. CASE WipeVerify(h)
    <3>1. wipe'[h] = "clean" => disk[h] = Empty
      BY <1>1, <2>4 DEF TypeOK, WipeVerify, WipeStep
    <3>2. disk[h] = Empty => ~Old(disk[h].pid, op[h].pid) /\ ~Old(disk[h].key, op[h].key)
      BY DEF Empty, Old
    <3> QED
      BY <1>1, <2>4, <3>1, <3>2 DEF TypeOK, WipeVerify, WipeStep, storeVars, mainVars
  <2>5. CASE StopAfterWipe(h)
    BY <1>1, <1>2, <2>5 DEF StopAfterWipe, storeVars, mainVars
  <2> QED
    BY <1>6, <2>1, <2>2, <2>3, <2>4, <2>5 DEF Wipe
<1>7. ASSUME NEW g \in Hub, NEW h \in Hub, CloneCard(g, h)
      PROVE  GoneInv'
  BY <1>1, <1>7 DEF CloneCard, TypeOK, mainVars, wipeVars
<1>8. CASE UNCHANGED vars
  BY <1>1, <1>8 DEF vars, storeVars, mainVars, wipeVars
<1> QED
  BY <1>2, <1>4, <1>5, <1>6, <1>7, <1>8 DEF Next, Boot, PowerOff, SupervisorRestart

(* Once a wipe has found the card clean, neither half of the identity the process was
   started with is ever on it again, whatever fails and whatever the backend and the
   Supervisor answer: Forget is what keeps the cache from bringing it back.    *)
THEOREM WipedIdentityGoneHolds == Spec => []WipedIdentityGone
<1>1. Init => GoneInv
  BY ParameterAssumption DEF Init, GoneInv, TypeOK, Record, Pair, OptId, Empty, NoPair, MainPc,
     RepPc, WipePc, Operating
<1>2. GoneInv /\ [Next]_vars => GoneInv'
  BY GoneInvStep
<1>3. GoneInv => WipedIdentityGone
  BY DEF GoneInv, WipedIdentityGone, Old
<1> QED
  BY <1>1, <1>2, <1>3, PTL DEF Spec

-----------------------------------------------------------------------------
(* The bond. Addresses may hide, writes may fail, a wipe and a collision may come at
   any time; only a regeneration of this process replaces the bond.         *)

(* What the cache holds of the bond while the boot may still write it: with the first
   write that succeeds it becomes the card's.                               *)
Booting == {"enforce", "clearKey", "rebind", "setupPid", "setupKey"}

BondInv(h) ==
    /\ wipe[h] # "idle" => wiped[h]
    /\ main[h] \in Booting =>
          /\ disk[h].pid # None => disk[h].bound \subseteq Loaded(h).bound
          /\ disk[h].bound # {} => Loaded(h).bound # {}
    /\ main[h] \in {"clearKey", "rebind"} =>
          disk[h].pid = None /\ Loaded(h).pid = None /\ seen[h] # {}

BInv == WipeInv /\ \A h \in Hub : BondInv(h)

(* What no step may do to the bond on a card. *)
Widens(h) ==
    main[h] # "off" /\ regens[h] = 0 /\ disk[h].pid # None /\ disk'[h].pid = disk[h].pid
        => disk[h].bound \subseteq disk'[h].bound
NeverErased(h) ==
    disk[h].bound # {} /\ main[h] # "off" /\ regens[h] = 0 /\ ~wiped[h] => disk'[h].bound # {}
BondKept(h) == Widens(h) /\ NeverErased(h)

LEMMA SameCard ==
    ASSUME NEW h, disk'[h] = disk[h]
    PROVE  BondKept(h)
BY DEF BondKept, Widens, NeverErased

(* A hub of which nothing changes that the invariant speaks of. *)
LEMMA BondSame ==
    ASSUME NEW h \in Hub, BondInv(h),
           disk'[h] = disk[h], Loaded(h)' = Loaded(h), main'[h] = main[h], seen'[h] = seen[h],
           wipe'[h] = wipe[h], wiped'[h] = wiped[h]
    PROVE  BondInv(h)'
BY DEF BondInv

(* A write of the boot, whether it succeeds or not: the new record may take nothing
   from the bond in the cache while there is an identity.                   *)
LEMMA BondWrite ==
    ASSUME TypeOK, NEW h \in Hub, BondInv(h), main[h] \in Booting,
           NEW r \in Record, NEW ok \in BOOLEAN, Save(h, r, ok),
           disk[h].pid # None => Loaded(h).bound \subseteq r.bound,
           Loaded(h).bound # {} => r.bound # {},
           wipe' = wipe, wiped' = wiped,
           main'[h] \in {"clearKey", "rebind"} =>
               disk'[h].pid = None /\ r.pid = None /\ seen'[h] # {}
    PROVE  BondInv(h)' /\ BondKept(h)
<1>1. mem'[h] = r /\ r # None
  BY NoneAssumption DEF TypeOK, Save
<1>2. Loaded(h)' = r
  BY <1>1 DEF Loaded
<1>3. disk'[h] = r \/ disk'[h] = disk[h]
  BY DEF TypeOK, Save
<1>4. /\ disk[h].pid # None => disk[h].bound \subseteq Loaded(h).bound
      /\ disk[h].bound # {} => Loaded(h).bound # {}
  BY DEF BondInv
<1>5. CASE disk'[h] = r
  BY <1>2, <1>4, <1>5 DEF BondInv, BondKept, Widens, NeverErased
<1>6. CASE disk'[h] = disk[h]
  BY <1>2, <1>4, <1>6, SameCard DEF BondInv
<1> QED
  BY <1>3, <1>5, <1>6

(* A look at the cache. *)
LEMMA BondRead ==
    ASSUME TypeOK, NEW h \in Hub, BondInv(h), Get(h) \/ UNCHANGED storeVars,
           wipe' = wipe, wiped' = wiped, main'[h] \notin {"clearKey", "rebind"}, main[h] \in Booting
    PROVE  BondInv(h)' /\ BondKept(h)
<1>1. Loaded(h)' = Loaded(h) /\ disk' = disk
  BY LoadedTyped, NoneAssumption DEF Loaded, Get, TypeOK, storeVars
<1> QED
  BY <1>1, SameCard DEF BondInv

LEMMA BondMain ==
    ASSUME BInv, NEW h \in Hub, Main(h), ~Stop(h), main[h] \in Booting
    PROVE  BondInv(h)' /\ BondKept(h)
<1> TypeOK /\ BondInv(h) /\ main \in [Hub -> MainPc] /\ seen \in [Hub -> SUBSET Mac] /\ disk \in [Hub -> Record]
  BY DEF BInv, WipeInv, TypeOK
<1> DEFINE l == Loaded(h)
<1>0. l \in Record
  BY LoadedTyped
<1>a. wipe' = wipe /\ wiped' = wiped
  <2>1. UNCHANGED wipeVars
    BY BootFrame DEF Booting
  <2> QED
    BY <2>1 DEF wipeVars
<1>b. /\ \A i \in OptId : /\ [l EXCEPT !.pid = i] \in Record /\ [l EXCEPT !.pid = i].bound = l.bound
                          /\ [l EXCEPT !.pid = i].pid = i
                          /\ [l EXCEPT !.key = i] \in Record /\ [l EXCEPT !.key = i].bound = l.bound
      /\ \A ms \in SUBSET Mac : [l EXCEPT !.bound = ms] \in Record /\ [l EXCEPT !.bound = ms].bound = ms
  BY <1>0 DEF Record
<1>c. None \in OptId /\ Outcomes \subseteq BOOLEAN /\ TRUE \in BOOLEAN
  BY DEF OptId, Outcomes
<1> HIDE DEF l
<1>1. CASE BondSkipped(h)
  <2>1. UNCHANGED storeVars /\ main'[h] = "setupPid"
    BY <1>1 DEF BondSkipped, BondCheck, MainStep
  <2> QED
    BY <1>a, <2>1, BondRead
<1>2. CASE BondFirst(h)
  <2>1. PICK ms \in HardwareMacs(h) \ {{}}, ok \in Outcomes :
           SetBoundMacs(h, ms, ok) /\ BondCheck(h, ms, "setupPid")
    BY <1>2 DEF BondFirst
  <2>2. l.bound = {} /\ ms \in SUBSET Mac /\ ms # {} /\ ok \in BOOLEAN
    BY <1>2, <1>c, HardwareTyped DEF BondFirst, l
  <2>3. Save(h, [l EXCEPT !.bound = ms], ok) /\ main'[h] = "setupPid"
    BY <2>1 DEF SetBoundMacs, BondCheck, MainStep, l
  <2> DEFINE r == [l EXCEPT !.bound = ms]
  <2>4. r \in Record /\ r.bound = ms
    BY <1>b, <2>2
  <2> HIDE DEF r
  <2>5. Save(h, r, ok)
    BY <2>3 DEF r
  <2> QED
    BY <1>a, <2>2, <2>3, <2>4, <2>5, BondWrite DEF l
<1>3. CASE BondWidened(h)
  <2>1. PICK ms \in HardwareMacs(h), ok \in Outcomes :
           /\ l.bound \cap ms # {}
           /\ IF ms \subseteq l.bound THEN Get(h) ELSE SetBoundMacs(h, l.bound \union ms, ok)
           /\ BondCheck(h, ms, "setupPid")
    BY <1>3 DEF BondWidened, l
  <2>2. main'[h] = "setupPid" /\ ok \in BOOLEAN
    BY <1>c, <2>1 DEF BondCheck, MainStep
  <2>3. CASE Get(h)
    BY <1>a, <2>2, <2>3, BondRead
  <2>4. CASE SetBoundMacs(h, l.bound \union ms, ok)
    <3> DEFINE r == [l EXCEPT !.bound = l.bound \union ms]
    <3>1. l.bound \union ms \in SUBSET Mac
      BY <1>0, HardwareTyped DEF Record
    <3>2. r \in Record /\ r.bound = l.bound \union ms
      BY <1>b, <3>1
    <3>3. Save(h, r, ok)
      BY <2>4 DEF SetBoundMacs, l
    <3> HIDE DEF r
    <3> QED
      BY <1>a, <2>2, <3>2, <3>3, BondWrite DEF l
  <2> QED
    BY <2>1, <2>3, <2>4
<1>4. CASE BondForeign(h)
  <2>1. PICK ms \in HardwareMacs(h) \ {{}}, ok \in Outcomes :
           /\ SetPluginId(h, None, ok)
           /\ BondCheck(h, ms, IF ok THEN "clearKey" ELSE "setupPid")
    BY <1>4 DEF BondForeign
  <2> DEFINE r == [l EXCEPT !.pid = None]
  <2>2. r \in Record /\ r.bound = l.bound /\ r.pid = None /\ ok \in BOOLEAN
    BY <1>b, <1>c
  <2>3. Save(h, r, ok)
    BY <2>1 DEF SetPluginId, l
  <2>4. main'[h] = (IF ok THEN "clearKey" ELSE "setupPid") /\ seen'[h] = ms /\ ms # {}
    BY <2>1 DEF BondCheck, MainStep
  <2>5. ok => disk'[h] = r
    BY <2>3 DEF Save
  <2> HIDE DEF r
  <2> QED
    BY <1>a, <2>2, <2>3, <2>4, <2>5, BondWrite DEF l
<1>5. CASE ForeignClearKey(h)
  <2>1. PICK ok \in Outcomes :
           SetPrivateKey(h, None, ok) /\ SecretsStep(h, "clearKey", IF ok THEN "rebind" ELSE "setupPid")
    BY <1>5 DEF ForeignClearKey
  <2> DEFINE r == [l EXCEPT !.key = None]
  <2>2. r \in Record /\ r.bound = l.bound /\ r.pid = l.pid /\ ok \in BOOLEAN
    BY <1>0, <1>b, <1>c DEF Record
  <2>3. Save(h, r, ok)
    BY <2>1 DEF SetPrivateKey, l
  <2>4. main[h] = "clearKey" /\ seen'[h] = seen[h] /\ main'[h] \in {"rebind", "setupPid"}
    BY <2>1 DEF SecretsStep, MainStep
  <2>5. disk[h].pid = None /\ seen[h] # {}
    BY <2>4 DEF BondInv
  <2>6. main'[h] = "rebind" => disk'[h] = r
    BY <2>1, <2>3 DEF SecretsStep, MainStep, Save
  <2>7. r.pid = None
    BY <2>2, <2>4 DEF BondInv, l
  <2> HIDE DEF r
  <2> QED
    BY <1>a, <2>2, <2>3, <2>4, <2>5, <2>6, <2>7, BondWrite DEF l
<1>6. CASE ForeignRebind(h)
  <2>1. PICK ok \in Outcomes : SetBoundMacs(h, seen[h], ok) /\ SecretsStep(h, "rebind", "setupPid")
    BY <1>6 DEF ForeignRebind
  <2>2. main[h] = "rebind" /\ main'[h] = "setupPid" /\ seen[h] \in SUBSET Mac /\ ok \in BOOLEAN
    BY <1>c, <2>1 DEF SecretsStep, MainStep
  <2>3. disk[h].pid = None /\ seen[h] # {}
    BY <2>2 DEF BondInv
  <2> DEFINE r == [l EXCEPT !.bound = seen[h]]
  <2>4. r \in Record /\ r.bound = seen[h]
    BY <1>b, <2>2
  <2>5. Save(h, r, ok)
    BY <2>1 DEF SetBoundMacs, l
  <2> HIDE DEF r
  <2> QED
    BY <1>a, <2>2, <2>3, <2>4, <2>5, BondWrite DEF l
<1>7. CASE SetupPid(h)
  <2>1. CASE Get(h) /\ SecretsStep(h, "setupPid", "setupKey")
    <3>1. main'[h] = "setupKey"
      BY <2>1 DEF SecretsStep, MainStep
    <3> QED
      BY <1>a, <2>1, <3>1, BondRead
  <2>2. CASE (\E i \in FreshPid(h) : SetPluginId(h, i, TRUE)) /\ SecretsStep(h, "setupPid", "setupKey")
    <3>1. PICK i \in OptId : SetPluginId(h, i, TRUE)
      BY <2>2, FreshTyped DEF OptId
    <3>2. main'[h] = "setupKey"
      BY <2>2 DEF SecretsStep, MainStep
    <3> DEFINE r == [l EXCEPT !.pid = i]
    <3>3. r \in Record /\ r.bound = l.bound
      BY <1>b
    <3>4. Save(h, r, TRUE)
      BY <3>1 DEF SetPluginId, l
    <3> HIDE DEF r
    <3> QED
      BY <1>a, <1>c, <3>2, <3>3, <3>4, BondWrite DEF l
  <2> QED
    BY <1>7, <2>1, <2>2 DEF SetupPid
<1>8. CASE SetupKey(h)
  <2>1. CASE Get(h) /\ SecretsStep(h, "setupKey", "load")
    <3>1. main'[h] = "load"
      BY <2>1 DEF SecretsStep, MainStep
    <3> QED
      BY <1>a, <2>1, <3>1, BondRead
  <2>2. CASE (\E i \in FreshKey(h) : SetPrivateKey(h, i, TRUE)) /\ SecretsStep(h, "setupKey", "load")
    <3>1. PICK i \in OptId : SetPrivateKey(h, i, TRUE)
      BY <2>2, FreshTyped DEF OptId
    <3>2. main'[h] = "load"
      BY <2>2 DEF SecretsStep, MainStep
    <3> DEFINE r == [l EXCEPT !.key = i]
    <3>3. r \in Record /\ r.bound = l.bound
      BY <1>b
    <3>4. Save(h, r, TRUE)
      BY <3>1 DEF SetPrivateKey, l
    <3> HIDE DEF r
    <3> QED
      BY <1>a, <1>c, <3>2, <3>3, <3>4, BondWrite DEF l
  <2> QED
    BY <1>8, <2>1, <2>2 DEF SetupKey
<1> QED
  BY <1>1, <1>2, <1>3, <1>4, <1>5, <1>6, <1>7, <1>8
     DEF Main, Booting, LoadIdentity, StartReporter, StartTunnel, MainStep

(* A step that writes nothing on a card but, on a hub that is wiped, deletes it. *)
Still(h) ==
    /\ main'[h] = "enforce" => disk'[h] = disk[h] /\ Loaded(h)' = disk[h]
    /\ main'[h] \notin Booting \ {"enforce"}
    /\ wipe'[h] # "idle" => wiped'[h]
    /\ main[h] # "off" => disk'[h] = disk[h] \/ (disk'[h] = Empty /\ wiped[h])

LEMMA StillKeeps ==
    ASSUME NEW h \in Hub, Still(h)
    PROVE  BondInv(h)' /\ BondKept(h)
<1>1. BondInv(h)'
  BY DEF Still, BondInv, Booting
<1>2. BondKept(h)
  BY DEF Still, BondKept, Widens, NeverErased, Empty
<1> QED
  BY <1>1, <1>2

LEMMA BondStep ==
    ASSUME BInv, [Next]_vars
    PROVE  \A h \in Hub : BondInv(h)' /\ BondKept(h)
<1> USE DEF TypeOK
<1> TypeOK /\ WipeInv /\ \A h \in Hub : BondInv(h)
  BY DEF BInv, WipeInv
<1>1. ASSUME NEW h \in Hub,
             \A g \in Hub \ {h} : /\ disk'[g] = disk[g] /\ mem'[g] = mem[g] /\ main'[g] = main[g]
                                  /\ seen'[g] = seen[g] /\ wipe'[g] = wipe[g] /\ wiped'[g] = wiped[g],
             BondInv(h)' /\ BondKept(h)
      PROVE  \A g \in Hub : BondInv(g)' /\ BondKept(g)
  <2>1. ASSUME NEW g \in Hub \ {h}
        PROVE  BondInv(g)' /\ BondKept(g)
    <3>1. Loaded(g)' = Loaded(g)
      BY <1>1 DEF Loaded
    <3> QED
      BY <1>1, <3>1, BondSame, SameCard
  <2> QED
    BY <1>1, <2>1
<1>2. ASSUME NEW h \in Hub, StartProcess(h) \/ Stop(h)
      PROVE  \A g \in Hub : BondInv(g)' /\ BondKept(g)
  <2>1. /\ disk' = disk /\ wipe' = [wipe EXCEPT ![h] = "idle"] /\ wiped' = [wiped EXCEPT ![h] = FALSE]
        /\ seen' = [seen EXCEPT ![h] = {}]
        /\ \/ main' = [main EXCEPT ![h] = "enforce"] /\ mem' = [mem EXCEPT ![h] = disk[h]]
           \/ main' = [main EXCEPT ![h] = "off"] /\ mem' = [mem EXCEPT ![h] = None]
    BY <1>2 DEF StartProcess, Stop, ResetProcess
  <2>2. Still(h)
    BY <2>1, NoneAssumption DEF Still, Loaded, Booting
  <2> QED
    BY <1>1, <2>1, <2>2, StillKeeps
<1>3. ASSUME NEW h \in Hub, Main(h), ~Stop(h)
      PROVE  \A g \in Hub : BondInv(g)' /\ BondKept(g)
  <2>1. CASE main[h] \in Booting
    <3>1. /\ UNCHANGED <<repVars, wipeVars>>
          /\ \A g \in Hub \ {h} : disk'[g] = disk[g] /\ mem'[g] = mem[g] /\ main'[g] = main[g]
      BY <1>3, <2>1, BootFrame DEF Booting
    <3>2. seen' = seen \/ \E ms : seen' = [seen EXCEPT ![h] = ms]
      BY <1>3 DEF Main, BondSkipped, BondFirst, BondWidened, BondForeign, BondCheck, ForeignClearKey, ForeignRebind,
                  SetupPid, SetupKey, SecretsStep, LoadIdentity, StartReporter, StartTunnel
    <3>3. BondInv(h)' /\ BondKept(h)
      BY <1>3, <2>1, BondMain
    <3> HIDE DEF BondInv, BondKept
    <3> QED
      BY <1>1, <3>1, <3>2, <3>3 DEF wipeVars
  <2>2. CASE LoadIdentity(h) \/ StartReporter(h) \/ StartTunnel(h)
    <3>1. /\ Get(h) /\ UNCHANGED <<wipeVars, seen>>
          /\ main' = [main EXCEPT ![h] = main'[h]]
          /\ main'[h] \in {"panel", "tunnel", "idle"}
      BY <2>2 DEF LoadIdentity, StartReporter, StartTunnel, MainStep
    <3>2. Still(h)
      BY <3>1 DEF Still, Booting, Get, wipeVars, BondInv
    <3> QED
      BY <1>1, <3>1, <3>2, StillKeeps DEF Get, wipeVars
  <2> QED
    BY <1>3, <2>1, <2>2 DEF Main, BondSkipped, BondFirst, BondWidened, BondForeign, BondCheck,
       ForeignClearKey, ForeignRebind, SetupPid, SetupKey, SecretsStep, MainStep, Booting
<1>4. ASSUME NEW h \in Hub, Reporter(h)
      PROVE  \A g \in Hub : BondInv(g)' /\ BondKept(g)
  <2>1. CASE Regenerating(h)
    <3>1. /\ UNCHANGED <<mainVars, wipeVars>> /\ main[h] \notin Booting /\ regens[h] # 0
          /\ \A g \in Hub \ {h} : disk'[g] = disk[g] /\ mem'[g] = mem[g]
      <4>1. /\ UNCHANGED <<mainVars, wipeVars>>
            /\ \A g \in Hub \ {h} : disk'[g] = disk[g] /\ mem'[g] = mem[g]
        BY <1>4, <2>1 DEF Reporter, CheckWiped, ReadPid, ReadKey, ReplyRetry,
           ReplyStop, ReplyCollision, Reply, RegenClearPid, RegenClearKey, RegenGuard, RegenPid,
           RegenKey, RegenBind, RegenRestart, RegenStep, RepStep, SetPluginId, SetPrivateKey,
           SetBoundMacs, Save, Get, storeVars
      <4> QED
        BY <2>1, <4>1 DEF WipeInv, Regenerating, Operating, Booting
    <3>2. BondInv(h)' /\ BondKept(h)
      BY <3>1 DEF BondInv, BondKept, Widens, NeverErased, Booting, mainVars, wipeVars
    <3> HIDE DEF BondInv, BondKept
    <3> QED
      BY <1>1, <3>1, <3>2 DEF mainVars, wipeVars
  <2>2. CASE ~Regenerating(h)
    <3>1. \/ CheckWiped(h) \/ ReadPid(h) \/ ReadKey(h)
          \/ ReplyRetry(h) \/ ReplyStop(h) \/ ReplyCollision(h)
      BY <1>4, <2>2 DEF Reporter, RegenClearPid, RegenClearKey, RegenGuard, RegenPid,
         RegenKey, RegenBind, RegenRestart, RegenStep, RepStep, Regenerating
    <3>2. (Get(h) \/ UNCHANGED storeVars) /\ UNCHANGED <<mainVars, wipeVars>>
      BY <3>1 DEF CheckWiped, ReadPid, ReadKey, ReplyRetry, ReplyStop,
         ReplyCollision, Reply, RepStep
    <3>3. disk' = disk /\ \A g \in Hub : Loaded(g)' = Loaded(g)
      BY <3>2, LoadedTyped, NoneAssumption DEF Loaded, Get, storeVars
    <3> QED
      BY <3>2, <3>3, BondSame, SameCard DEF mainVars, wipeVars
  <2> QED
    BY <2>1, <2>2
<1>5. ASSUME NEW h \in Hub, WipeRequested(h) \/ WipeDelete(h) \/ WipeForget(h) \/ WipeVerify(h)
      PROVE  \A g \in Hub : BondInv(g)' /\ BondKept(g)
  <2>1. /\ UNCHANGED mainVars /\ main[h] \in {"panel", "tunnel", "idle"}
        /\ wipe' = [wipe EXCEPT ![h] = wipe'[h]]
        /\ \A g \in Hub \ {h} : disk'[g] = disk[g] /\ mem'[g] = mem[g] /\ wiped'[g] = wiped[g]
        /\ disk'[h] = disk[h] \/ (disk'[h] = Empty /\ wipe[h] # "idle")
        /\ wiped'[h] = TRUE \/ (wiped' = wiped /\ (wipe[h] # "idle" \/ wipe'[h] = wipe[h]))
    <3>1. CASE WipeRequested(h)
      BY <3>1 DEF WipeRequested, WipeStep, storeVars
    <3>2. CASE WipeDelete(h) \/ WipeForget(h) \/ WipeVerify(h)
      BY <3>2 DEF WipeDelete, WipeForget, WipeVerify, WipeStep, storeVars, WipeInv, Operating
    <3> QED
      BY <1>5, <3>1, <3>2
  <2>2. Still(h)
    BY <2>1 DEF Still, mainVars, Booting, BondInv
  <2> QED
    BY <1>1, <2>1, <2>2, StillKeeps DEF mainVars
<1>6. ASSUME NEW f \in Hub, NEW h \in Hub, CloneCard(f, h)
      PROVE  \A g \in Hub : BondInv(g)' /\ BondKept(g)
  <2>1. /\ main[h] = "off" /\ disk' = [disk EXCEPT ![h] = disk[f]]
        /\ UNCHANGED <<mem, mainVars, wipeVars>>
    BY <1>6 DEF CloneCard
  <2>2. Still(h)
    BY <2>1 DEF Still, Booting, mainVars, wipeVars, BondInv
  <2> QED
    BY <1>1, <2>1, <2>2, StillKeeps DEF mainVars, wipeVars
<1>7. CASE UNCHANGED <<storeVars, mainVars, wipe, wiped>>
  <2>1. UNCHANGED <<storeVars, mainVars, wipe, wiped>>
    BY <1>7
  <2>2. \A g \in Hub : Loaded(g)' = Loaded(g)
    BY <2>1 DEF storeVars, Loaded
  <2> QED
    BY <2>1, <2>2, BondSame, SameCard DEF storeVars, mainVars
<1>8. CASE UNCHANGED vars
  BY <1>7, <1>8 DEF vars, wipeVars
<1>9. ASSUME NEW h \in Hub, StopAfterWipe(h)
       PROVE  \A g \in Hub : BondInv(g)' /\ BondKept(g)
  BY <1>2, <1>7, <1>9 DEF StopAfterWipe
<1>10. ASSUME NEW h \in Hub, Boot(h) \/ PowerOff(h) \/ SupervisorRestart(h)
      PROVE  \A g \in Hub : BondInv(g)' /\ BondKept(g)
  BY <1>2, <1>10 DEF Boot, PowerOff, SupervisorRestart
<1> HIDE DEF TypeOK
<1> QED
  BY <1>2, <1>3, <1>4, <1>5, <1>6, <1>8, <1>9, <1>10 DEF Next, Wipe

LEMMA BondInvariance == Spec => []BInv
<1>1. Init => BInv
  <2> SUFFICES ASSUME Init
               PROVE  BInv
    OBVIOUS
  <2>1. WipeInv
    BY ParameterAssumption DEF Init, WipeInv, TypeOK, Record, Pair, OptId, Empty, NoPair, MainPc,
       RepPc, WipePc, Regenerating, Operating
  <2>2. \A h \in Hub : BondInv(h)
    BY DEF Init, BondInv, Booting
  <2> QED
    BY <2>1, <2>2 DEF BInv
<1>2. BInv /\ [Next]_vars => BInv'
  BY WipeInvStep, BondStep DEF BInv
<1> QED
  BY <1>1, <1>2, PTL DEF Spec

(* No step of a hub that is on, and that has regenerated nothing since its boot, takes
   an address from the bond of the identity it keeps: not a boot that sees little of the
   hardware, nor a write that fails, whatever was saved in the cache by then. *)
THEOREM BondOnlyWidensHolds == Spec => BondOnlyWidens
<1>1. BInv /\ [Next]_vars =>
        [\A h \in Hub :
            main[h] # "off" /\ regens[h] = 0 /\ disk[h].pid # None /\ disk'[h].pid = disk[h].pid
                => disk[h].bound \subseteq disk'[h].bound]_vars
  BY BondStep DEF BondKept, Widens
<1> QED
  BY <1>1, BondInvariance, PTL DEF Spec, BondOnlyWidens

(* A hub in use that has regenerated nothing since its boot and is not wiped never loses
   its bond: a boot that can read no address concludes nothing from it.     *)
THEOREM BondNeverErasedHolds == Spec => BondNeverErased
<1>1. BInv /\ [Next]_vars =>
        [\A h \in Hub :
            disk[h].bound # {} /\ main[h] # "off" /\ regens[h] = 0 /\ ~wiped[h]
                => disk'[h].bound # {}]_vars
  BY BondStep DEF BondKept, NeverErased
<1> QED
  BY <1>1, BondInvariance, PTL DEF Spec, BondNeverErased

=============================================================================
