----------------------------- MODULE HubIdentity -----------------------------
(***************************************************************************)
(* The identity of a hub: plugin_id and private_key on the SD card, the    *)
(* bond to the hardware that guards them against cloned images, the boot   *)
(* sequence that repairs them, the registration thread that regenerates    *)
(* them when the backend reports a collision, and the factory wipe that    *)
(* empties the card before it is duplicated.                               *)
(*                                                                         *)
(* linuxhost.py (boot, bond, reporter, wipe), secrets.py (the file and its *)
(* cache), imageprep.py (the wipe).  The operator who copies cards, the    *)
(* power supply, the backend and the Supervisor are external.              *)
(***************************************************************************)
EXTENDS Naturals

CONSTANTS
    Hub,        \* the devices
    Mac,        \* permanent addresses of network cards
    MacsOf,     \* MacsOf[h]: the addresses soldered on hub h
    Serial,     \* tells apart the random values one hub generates
    None,       \* an absent value, a cache that is not loaded
    MaxRegen,   \* MAX_RIGENERAZIONI
    Env         \* what the environment does, a subset of Events

Events == {"crash",      \* the power fails or the process dies
           "hidden",     \* an address is not readable for a while
           "fail",       \* a write or a deletion on the card fails
           "wipe",       \* the operator asks for the factory wipe
           "conflict",   \* the backend answers 409
           "denied"}     \* the Supervisor refuses to restart or to stop us

(* A random identifier, tagged with the hub that generated it: the tag is what
   lets the properties say whose identity a hub uses; the code never reads it. *)
Id == Hub \X Serial
OptId == Id \union {None}
Pair == [pid : OptId, key : OptId]
Record == [pid : OptId, key : OptId, bound : SUBSET Mac]

ASSUME HardwareAssumption ==
    /\ MacsOf \in [Hub -> (SUBSET Mac) \ {{}}]
    /\ \A g, h \in Hub : g # h => MacsOf[g] \cap MacsOf[h] = {}
ASSUME NoneAssumption == None \notin Id /\ None \notin Record
ASSUME ParameterAssumption == MaxRegen \in Nat /\ Env \subseteq Events

NoPair == [pid |-> None, key |-> None]
Empty == [pid |-> None, key |-> None, bound |-> {}]
IdentityOf(r) == [pid |-> r.pid, key |-> r.key]

VARIABLES
    disk,       \* disk[h]: sweetlink.secrets on the card of h
    mem,        \* mem[h]: Secrets.Config, the lazily loaded cache
    main,       \* main[h]: where RunBlocking is
    seen,       \* seen[h]: currentMacs of the bond check
    op,         \* op[h]: the copy every component was started with
    tunnelKey,  \* tunnelKey[h]: the key given to CloudflareManager.Start
    rep,        \* rep[h]: where the registration thread is
    current,    \* current[h]: currentPluginId, currentPrivateKey
    prev,       \* prev[h]: identitaPrecedente, chiavePrecedente
    regens,     \* regens[h]: rigenerazioni
    wipe,       \* wipe[h]: where ImagePrep.Wipe is
    wiped,      \* wiped[h]: WipedForCloning
    blocked,    \* blocked[h]: the wipe has a finding that blocks
    timer       \* timer[h]: the Timer of _StopAfterWipe is armed

storeVars == <<disk, mem>>
mainVars == <<main, seen, op, tunnelKey>>
repVars == <<rep, current, prev, regens>>
wipeVars == <<wipe, wiped, blocked, timer>>
vars == <<storeVars, mainVars, repVars, wipeVars>>

MainPc == {"off", "enforce", "clearKey", "rebind", "setupPid", "setupKey",
           "load", "panel", "tunnel", "idle"}
RepPc == {"none", "check", "readPid", "readKey", "post", "clearPid", "clearKey",
          "guard", "genPid", "genKey", "bind", "restart", "restarting", "done"}
WipePc == {"idle", "delete", "forget", "verify", "blocked", "clean"}

TypeOK ==
    /\ disk \in [Hub -> Record]
    /\ mem \in [Hub -> Record \union {None}]
    /\ main \in [Hub -> MainPc]
    /\ seen \in [Hub -> SUBSET Mac]
    /\ op \in [Hub -> Pair]
    /\ tunnelKey \in [Hub -> OptId]
    /\ rep \in [Hub -> RepPc]
    /\ current \in [Hub -> Pair]
    /\ prev \in [Hub -> Pair]
    /\ regens \in [Hub -> 0 .. MaxRegen]
    /\ wipe \in [Hub -> WipePc]
    /\ wiped \in [Hub -> BOOLEAN]
    /\ blocked \in [Hub -> BOOLEAN]
    /\ timer \in [Hub -> BOOLEAN]

-----------------------------------------------------------------------------
(* secrets.py: one lock per call, the whole cache written atomically.        *)

(* What a getter sees: the cache, loaded from the card if it is not there.   *)
Loaded(h) == IF mem[h] = None THEN disk[h] ELSE mem[h]

(* A getter's only effect is that lazy load. *)
Get(h) == mem' = [mem EXCEPT ![h] = Loaded(h)] /\ UNCHANGED disk

Outcomes == IF "fail" \in Env THEN BOOLEAN ELSE {TRUE}

(* _SetStr: the cache changes first, then the file is replaced; when the
   replacement fails the exception leaves the cache changed and the file old. *)
Save(h, r, ok) ==
    /\ mem' = [mem EXCEPT ![h] = r]
    /\ disk' = IF ok THEN [disk EXCEPT ![h] = r] ELSE disk

SetPluginId(h, i, ok) == Save(h, [Loaded(h) EXCEPT !.pid = i], ok)
SetPrivateKey(h, k, ok) == Save(h, [Loaded(h) EXCEPT !.key = k], ok)
SetBoundMacs(h, ms, ok) == Save(h, [Loaded(h) EXCEPT !.bound = ms], ok)

(* GetHardwareMacs(includeRemovable=False) *)
HardwareMacs(h) == IF "hidden" \in Env THEN SUBSET MacsOf[h] ELSE {MacsOf[h]}

(* A value no copy anywhere still holds: random values never repeat, so a
   serial number is taken again only when nothing remembers it.             *)
Copies(h) == {disk[h], Loaded(h), op[h], current[h], prev[h]}
Unused(h, used) == {<<h, s>> : s \in Serial} \ used
FreshPid(h) == Unused(h, UNION {{c.pid : c \in Copies(g)} : g \in Hub})
FreshKey(h) == Unused(h, UNION {{c.key : c \in Copies(g)} \union {tunnelKey[g]} : g \in Hub})

-----------------------------------------------------------------------------
(* Processes, cards and power.                                               *)

(* The memory of a process that has just started (or of none at all). *)
ResetProcess(h) ==
    /\ seen' = [seen EXCEPT ![h] = {}]
    /\ op' = [op EXCEPT ![h] = NoPair]
    /\ tunnelKey' = [tunnelKey EXCEPT ![h] = None]
    /\ rep' = [rep EXCEPT ![h] = "none"]
    /\ current' = [current EXCEPT ![h] = NoPair]
    /\ prev' = [prev EXCEPT ![h] = NoPair]
    /\ regens' = [regens EXCEPT ![h] = 0]
    /\ wipe' = [wipe EXCEPT ![h] = "idle"]
    /\ wiped' = [wiped EXCEPT ![h] = FALSE]
    /\ blocked' = [blocked EXCEPT ![h] = FALSE]
    /\ timer' = [timer EXCEPT ![h] = FALSE]
    /\ UNCHANGED disk

(* RunBlocking begins: Secrets(...) loads the file. *)
StartProcess(h) ==
    /\ main' = [main EXCEPT ![h] = "enforce"]
    /\ mem' = [mem EXCEPT ![h] = disk[h]]
    /\ ResetProcess(h)

Stop(h) ==
    /\ main' = [main EXCEPT ![h] = "off"]
    /\ mem' = [mem EXCEPT ![h] = None]
    /\ ResetProcess(h)

Boot(h) == main[h] = "off" /\ StartProcess(h)

PowerOff(h) == "crash" \in Env /\ main[h] # "off" /\ Stop(h)

(* The Supervisor carries out the restart it accepted. *)
SupervisorRestart(h) == rep[h] = "restarting" /\ StartProcess(h)

(* The card of a hub that is off is copied over the card of another one. *)
CloneCard(g, h) ==
    /\ g # h
    /\ main[g] = "off" /\ main[h] = "off"
    /\ disk' = [disk EXCEPT ![h] = disk[g]]
    /\ UNCHANGED <<mem, mainVars, repVars, wipeVars>>

-----------------------------------------------------------------------------
(* Boot: _EnforceHardwareBondIfNeeded.  An exception in it is swallowed and
   the boot goes on.                                                         *)

MainStep(h, from, to) ==
    /\ main[h] = from
    /\ main' = [main EXCEPT ![h] = to]
    /\ UNCHANGED <<repVars, wipeVars>>

(* A step of the boot that only touches the secrets. *)
SecretsStep(h, from, to) == MainStep(h, from, to) /\ UNCHANGED <<seen, op, tunnelKey>>

BondCheck(h, ms, to) ==
    /\ MainStep(h, "enforce", to)
    /\ seen' = [seen EXCEPT ![h] = ms]
    /\ UNCHANGED <<op, tunnelKey>>

(* Mutant: what is readable is bound before asking whether anything is. *)
BondEmptied(h) == BondCheck(h, {}, "setupPid") /\ SetBoundMacs(h, {}, TRUE)

(* No permanent address is readable: nothing is concluded. *)
BondSkipped(h) ==
    /\ {} \in HardwareMacs(h)
    /\ BondCheck(h, {}, "setupPid")
    /\ UNCHANGED storeVars

(* No bond yet: first boot, or an identity older than the bond. *)
BondFirst(h) ==
    /\ Loaded(h).bound = {}
    /\ \E ms \in HardwareMacs(h) \ {{}}, ok \in Outcomes :
          SetBoundMacs(h, ms, ok) /\ BondCheck(h, ms, "setupPid")

(* Mutant: the test of intersection is dropped. *)
BondAlwaysWidened(h) ==
    \E ms \in HardwareMacs(h), ok \in Outcomes :
        /\ Loaded(h).bound # {}
        /\ SetBoundMacs(h, Loaded(h).bound \union ms, ok)
        /\ BondCheck(h, ms, "setupPid")

(* Mutant: the bond is replaced by what is readable now. *)
BondReplaced(h) ==
    \E ms \in HardwareMacs(h), ok \in Outcomes :
        /\ Loaded(h).bound \cap ms # {}
        /\ SetBoundMacs(h, ms, ok)
        /\ BondCheck(h, ms, "setupPid")

(* This device is recognised: the bond is widened, never replaced. *)
BondWidened(h) ==
    \E ms \in HardwareMacs(h), ok \in Outcomes :
        /\ Loaded(h).bound \cap ms # {}
        /\ IF ms \subseteq Loaded(h).bound
           THEN Get(h)
           ELSE SetBoundMacs(h, Loaded(h).bound \union ms, ok)
        /\ BondCheck(h, ms, "setupPid")

(* Mutant: the new bond is written before the old identity is cleared. *)
BondForeignBindsFirst(h) ==
    /\ Loaded(h).bound # {}
    /\ \E ms \in HardwareMacs(h) \ {{}}, ok \in Outcomes :
          /\ Loaded(h).bound \cap ms = {}
          /\ SetBoundMacs(h, ms, ok)
          /\ BondCheck(h, ms, IF ok THEN "clearKey" ELSE "setupPid")

(* Nothing in common: the identity was born elsewhere. Three writes follow,
   this is the first of them.                                              *)
BondForeign(h) ==
    /\ Loaded(h).bound # {}
    /\ \E ms \in HardwareMacs(h) \ {{}}, ok \in Outcomes :
          /\ Loaded(h).bound \cap ms = {}
          /\ SetPluginId(h, None, ok)
          /\ BondCheck(h, ms, IF ok THEN "clearKey" ELSE "setupPid")

(* Mutant: only the plugin id is regenerated. *)
ForeignKeepKey(h) == Get(h) /\ SecretsStep(h, "clearKey", "rebind")

ForeignClearKey(h) == \E ok \in Outcomes :
    /\ SetPrivateKey(h, None, ok)
    /\ SecretsStep(h, "clearKey", IF ok THEN "rebind" ELSE "setupPid")

ForeignRebind(h) == \E ok \in Outcomes :
    SetBoundMacs(h, seen[h], ok) /\ SecretsStep(h, "rebind", "setupPid")

-----------------------------------------------------------------------------
(* Boot: DoFirstTimeSetupIfNeeded, then the components are started.  Its look
   at WipedForCloning cannot succeed here: the panel is not open yet.        *)

(* GeneratePluginId, GeneratePrivateKey when the stored value is not valid. An
   exception here leaves RunBlocking: the process ends.                     *)
SetupPid(h) ==
    \/ Loaded(h).pid # None /\ Get(h) /\ SecretsStep(h, "setupPid", "setupKey")
    \/ /\ Loaded(h).pid = None
       /\ \E i \in FreshPid(h) : SetPluginId(h, i, TRUE)
       /\ SecretsStep(h, "setupPid", "setupKey")
    \/ main[h] = "setupPid" /\ Loaded(h).pid = None /\ FALSE \in Outcomes /\ Stop(h)

SetupKey(h) ==
    \/ Loaded(h).key # None /\ Get(h) /\ SecretsStep(h, "setupKey", "load")
    \/ /\ Loaded(h).key = None
       /\ \E k \in FreshKey(h) : SetPrivateKey(h, k, TRUE)
       /\ SecretsStep(h, "setupKey", "load")
    \/ main[h] = "setupKey" /\ Loaded(h).key = None /\ FALSE \in Outcomes /\ Stop(h)

(* pluginId and privateKey are read once; the panel opens with this copy. *)
LoadIdentity(h) ==
    /\ op' = [op EXCEPT ![h] = IdentityOf(Loaded(h))]
    /\ Get(h)
    /\ MainStep(h, "load", "panel")
    /\ UNCHANGED <<seen, tunnelKey>>

(* CloudWorkerInstance.Start and the thread of _ReportToSweetplaceDB. *)
StartReporter(h) ==
    /\ main[h] = "panel"
    /\ main' = [main EXCEPT ![h] = "tunnel"]
    /\ rep' = [rep EXCEPT ![h] = "check"]
    /\ Get(h)
    /\ UNCHANGED <<seen, op, tunnelKey, current, prev, regens, wipeVars>>

(* CloudflareManager.Start takes the plugin id read at boot and reads the
   private key again, while the reporter already runs.                     *)
StartTunnel(h) ==
    /\ tunnelKey' = [tunnelKey EXCEPT ![h] = Loaded(h).key]
    /\ Get(h)
    /\ MainStep(h, "tunnel", "idle")
    /\ UNCHANGED <<seen, op>>

-----------------------------------------------------------------------------
(* The reporter: _ReportToSweetplaceDB.                                      *)

RepStep(h, from, to) ==
    /\ rep[h] = from
    /\ rep' = [rep EXCEPT ![h] = to]
    /\ UNCHANGED <<mainVars, wipeVars>>

(* Mutant: the flag is not looked at. *)
CheckNothing(h) ==
    RepStep(h, "check", "readPid") /\ UNCHANGED <<storeVars, current, prev, regens>>

(* The top of the loop. A turn that finds no address at all sleeps and comes
   back here: a stuttering step.                                           *)
CheckWiped(h) ==
    /\ RepStep(h, "check", IF wiped[h] THEN "done" ELSE "readPid")
    /\ UNCHANGED <<storeVars, current, prev, regens>>

(* Mutant: the plugin id of the boot is posted, not the stored one. *)
ReadPidOnce(h) ==
    /\ current' = [current EXCEPT ![h] = [pid |-> op[h].pid, key |-> None]]
    /\ Get(h)
    /\ RepStep(h, "readPid", "readKey")
    /\ UNCHANGED <<prev, regens>>

ReadPid(h) ==
    /\ current' = [current EXCEPT ![h] = [pid |-> Loaded(h).pid, key |-> None]]
    /\ Get(h)
    /\ RepStep(h, "readPid", "readKey")
    /\ UNCHANGED <<prev, regens>>

ReadKey(h) ==
    /\ current' = [current EXCEPT ![h].key = Loaded(h).key]
    /\ Get(h)
    /\ RepStep(h, "readKey", "post")
    /\ UNCHANGED <<prev, regens>>

(* The answer to the POST, after which the turn is over. *)
Reply(h, to) ==
    /\ RepStep(h, "post", to)
    /\ current' = [current EXCEPT ![h] = NoPair]
    /\ UNCHANGED storeVars

(* Confirmed or not, a server error, a timeout: another turn, after a minute or after
   hours. What a confirmation hands to other parts changes nothing here.    *)
ReplyRetry(h) == Reply(h, "check") /\ UNCHANGED <<prev, regens>>

(* 400, or 409 on a wiped hub or at the cap: the thread ends. *)
ReplyStop(h) == Reply(h, "done") /\ UNCHANGED <<prev, regens>>

(* Mutant: the regeneration is not counted. *)
CollisionUncounted(h) ==
    /\ "conflict" \in Env /\ ~wiped[h]
    /\ Reply(h, "clearPid")
    /\ prev' = [prev EXCEPT ![h] = current[h]]
    /\ UNCHANGED regens

(* 409 on a hub that may still regenerate. *)
ReplyCollision(h) ==
    /\ "conflict" \in Env
    /\ ~wiped[h] /\ regens[h] < MaxRegen
    /\ Reply(h, "clearPid")
    /\ regens' = [regens EXCEPT ![h] = @ + 1]
    /\ prev' = [prev EXCEPT ![h] = current[h]]

(* A step of the regeneration that may write: when the write throws, the
   handler around the turn logs it and the loop goes back to its top.      *)
RegenStep(h, from, to, ok) ==
    /\ RepStep(h, from, IF ok THEN to ELSE "check")
    /\ UNCHANGED <<current, prev, regens>>

RegenClearPid(h) == \E ok \in Outcomes :
    RegenStep(h, "clearPid", "clearKey", ok) /\ SetPluginId(h, None, ok)

RegenClearKey(h) == \E ok \in Outcomes :
    RegenStep(h, "clearKey", "guard", ok) /\ SetPrivateKey(h, None, ok)

(* The only look at the flag that DoFirstTimeSetupIfNeeded takes. *)
RegenGuard(h) ==
    /\ RegenStep(h, "guard", IF wiped[h] THEN "bind" ELSE "genPid", TRUE)
    /\ UNCHANGED storeVars

(* Both values have just been cleared by this thread, the only one that writes
   now, so the validity tests of DoFirstTimeSetupIfNeeded always fail here.  *)
RegenPid(h) ==
    /\ Loaded(h).pid = None
    /\ \E i \in FreshPid(h), ok \in Outcomes :
          RegenStep(h, "genPid", "genKey", ok) /\ SetPluginId(h, i, ok)

RegenKey(h) ==
    /\ Loaded(h).key = None
    /\ \E k \in FreshKey(h), ok \in Outcomes :
          RegenStep(h, "genKey", "bind", ok) /\ SetPrivateKey(h, k, ok)

(* The bond is replaced by whatever is readable now, wiped or not. *)
RegenBind(h) == \E ms \in HardwareMacs(h), ok \in Outcomes :
    RegenStep(h, "bind", "restart", ok) /\ SetBoundMacs(h, ms, ok)

(* RequestSelfRestart *)
RegenRestart(h) ==
    /\ \/ RegenStep(h, "restart", "restarting", TRUE)
       \/ "denied" \in Env /\ RegenStep(h, "restart", "check", TRUE)
    /\ UNCHANGED storeVars

-----------------------------------------------------------------------------
(* WipeForCloning and ImagePrep.Wipe, on the thread of the panel.            *)

WipeStep(h, from, to) ==
    /\ wipe[h] = from
    /\ wipe' = [wipe EXCEPT ![h] = to]
    /\ UNCHANGED <<mainVars, repVars>>

WipeRequested(h) ==
    /\ "wipe" \in Env
    /\ main[h] \in {"panel", "tunnel", "idle"}
    /\ \E from \in {"idle", "blocked", "clean"} : WipeStep(h, from, "delete")
    /\ wiped' = [wiped EXCEPT ![h] = TRUE]
    /\ blocked' = [blocked EXCEPT ![h] = FALSE]
    /\ UNCHANGED <<storeVars, timer>>

(* Everything in the data folder goes, without the lock of Secrets; what
   cannot be deleted is a finding that blocks.                             *)
WipeDelete(h) ==
    /\ WipeStep(h, "delete", "forget")
    /\ \E ok \in Outcomes :
          /\ disk' = IF ok THEN [disk EXCEPT ![h] = Empty] ELSE disk
          /\ blocked' = [blocked EXCEPT ![h] = ~ok]
    /\ UNCHANGED <<mem, wiped, timer>>

(* Mutant: the cache survives the wipe. *)
WipeKeepsCache(h) ==
    WipeStep(h, "forget", "verify") /\ UNCHANGED <<storeVars, wiped, blocked, timer>>

WipeForget(h) ==
    /\ WipeStep(h, "forget", "verify")
    /\ mem' = [mem EXCEPT ![h] = None]
    /\ UNCHANGED <<disk, wiped, blocked, timer>>

(* _SecretsFileHasIdentity reads the card again; only a wipe without blockers
   arms the timer that stops the add-on.                                   *)
WipeVerify(h) ==
    LET clean == ~blocked[h] /\ disk[h] = Empty
    IN /\ WipeStep(h, "verify", IF clean THEN "clean" ELSE "blocked")
       /\ timer' = [timer EXCEPT ![h] = @ \/ clean]
       /\ UNCHANGED <<storeVars, wiped, blocked>>

(* _StopAfterWipe: the Supervisor may refuse, and then the hub stays up. *)
StopAfterWipe(h) ==
    /\ timer[h]
    /\ \/ Stop(h)
       \/ /\ "denied" \in Env
          /\ timer' = [timer EXCEPT ![h] = FALSE]
          /\ UNCHANGED <<storeVars, mainVars, repVars, wipe, wiped, blocked>>

-----------------------------------------------------------------------------
Init ==
    /\ disk = [h \in Hub |-> Empty]
    /\ mem = [h \in Hub |-> None]
    /\ main = [h \in Hub |-> "off"]
    /\ seen = [h \in Hub |-> {}]
    /\ op = [h \in Hub |-> NoPair]
    /\ tunnelKey = [h \in Hub |-> None]
    /\ rep = [h \in Hub |-> "none"]
    /\ current = [h \in Hub |-> NoPair]
    /\ prev = [h \in Hub |-> NoPair]
    /\ regens = [h \in Hub |-> 0]
    /\ wipe = [h \in Hub |-> "idle"]
    /\ wiped = [h \in Hub |-> FALSE]
    /\ blocked = [h \in Hub |-> FALSE]
    /\ timer = [h \in Hub |-> FALSE]

Main(h) ==
    \/ BondSkipped(h) \/ BondFirst(h) \/ BondWidened(h) \/ BondForeign(h)
    \/ ForeignClearKey(h) \/ ForeignRebind(h)
    \/ SetupPid(h) \/ SetupKey(h)
    \/ LoadIdentity(h) \/ StartReporter(h) \/ StartTunnel(h)

Reporter(h) ==
    \/ CheckWiped(h) \/ ReadPid(h) \/ ReadKey(h)
    \/ ReplyRetry(h) \/ ReplyStop(h) \/ ReplyCollision(h)
    \/ RegenClearPid(h) \/ RegenClearKey(h) \/ RegenGuard(h)
    \/ RegenPid(h) \/ RegenKey(h) \/ RegenBind(h) \/ RegenRestart(h)

Wipe(h) == WipeDelete(h) \/ WipeForget(h) \/ WipeVerify(h) \/ StopAfterWipe(h)

Next ==
    \/ \E h \in Hub :
          \/ Boot(h) \/ PowerOff(h) \/ SupervisorRestart(h)
          \/ Main(h) \/ Reporter(h)
          \/ WipeRequested(h) \/ Wipe(h)
    \/ \E g, h \in Hub : CloneCard(g, h)

Spec == Init /\ [][Next]_vars

(* Each thread that can take a step takes it in the end (a request has a
   timeout, a sleep ends) and the Supervisor does what it accepted.        *)
Fairness == \A h \in Hub :
    WF_vars(Main(h)) /\ WF_vars(Reporter(h)) /\ WF_vars(Wipe(h))
        /\ WF_vars(SupervisorRestart(h))

FairSpec == Spec /\ Fairness

-----------------------------------------------------------------------------
(* Properties.                                                               *)

Operating(h) == main[h] \in {"panel", "tunnel", "idle"}

MadeOn(i) == i[1]

(* The purpose of the hardware bond (the comment above
   EnforceHardwareBondIfNeeded): two hubs that operate never share a plugin id
   or a private key, whenever cards are cloned and the power fails.         *)
NoSharedIdentity ==
    \A g, h \in Hub : g # h /\ Operating(g) /\ Operating(h) =>
        op[g].pid # op[h].pid /\ op[g].key # op[h].key

(* At every instant a card may be pulled out: if it holds any half of an
   identity it also holds a bond, and that bond is to the hub where the
   identity was made. The order of the writes at first boot, in the bond check
   and in the regeneration is what keeps it.                                *)
IdentityBoundToMaker ==
    \A h \in Hub : \A i \in {disk[h].pid, disk[h].key} \ {None} :
        disk[h].bound # {} /\ disk[h].bound \subseteq MacsOf[MadeOn(i)]

(* What the reporter posts is the complete identity the card holds, unless the
   hub is being wiped: never a half regenerated pair, nor the boot's copy.  *)
PostsStoredIdentity ==
    \A h \in Hub : rep[h] = "post" /\ ~wiped[h] =>
        /\ current[h] = IdentityOf(disk[h])
        /\ None \notin {current[h].pid, current[h].key}

(* RequestSelfRestart exists because components keep their own copy: a hub
   that operates with anything but the identity on its card has regenerated it
   since it started (and waits for its restart, or was refused it) or is wiped. *)
OperatesAsStored ==
    \A h \in Hub : Operating(h) /\ regens[h] = 0 /\ ~wiped[h] =>
        op[h] = IdentityOf(disk[h]) /\ tunnelKey[h] \in {None, op[h].key}

(* Secrets.Forget: once a wipe has found the card clean, the identity the
   process was started with never comes back to it, whatever else writes.   *)
WipedIdentityGone ==
    \A h \in Hub : wipe[h] = "clean" =>
        /\ op[h].pid # None => disk[h].pid # op[h].pid
        /\ op[h].key # None => disk[h].key # op[h].key

(* The comment on WipedForCloning in LinuxHost.__init__: from then on no part of
   the program writes an identity on the card, so what a wipe found clean goes
   into the copies without one. Collisions and the wipe have to go together for
   this to be in danger: it is the regeneration under way that still writes.  *)
CleanStaysClean == \A h \in Hub : wipe[h] = "clean" => IdentityOf(disk[h]) = NoPair

(* The bond of an identity is only ever widened, however little of the hardware
   is readable at a boot: hardware replaced bit by bit never makes a hub look
   like a foreign one (the comment above EnforceHardwareBondIfNeeded). A process
   that has regenerated the identity binds the new one to what it can read.  *)
BondOnlyWidens == [][\A h \in Hub :
    main[h] # "off" /\ regens[h] = 0 /\ disk[h].pid # None /\ disk'[h].pid = disk[h].pid
        => disk[h].bound \subseteq disk'[h].bound]_vars

(* The bond check decides right: the plugin id on the card is given up at boot
   exactly when it was made on another hub.                                 *)
ForeignIdentityReplaced == [][\A h \in Hub :
    main[h] = "enforce" /\ main'[h] \notin {"enforce", "off"} /\ disk[h].pid # None =>
        (disk'[h].pid = None <=> MadeOn(disk[h].pid) # h)]_vars

(* The prudence rule of EnforceHardwareBondIfNeeded: reading no address
   concludes nothing, so a hub in use never loses its bond, but by a regeneration
   that could read no address.                                              *)
BondNeverErased == [][\A h \in Hub :
    disk[h].bound # {} /\ main[h] # "off" /\ regens[h] = 0 /\ ~wiped[h]
        => disk'[h].bound # {}]_vars

(* "If none of them is present at boot, the identity was cloned onto another
   device and gets regenerated" (secrets.py): the identity, not half of it. *)
RegeneratedWhole ==
    \A h \in Hub : Operating(h) => MadeOn(op[h].pid) = MadeOn(op[h].key)

(* The guards on WipedForCloning: the registration thread of a wiped hub ends. *)
WipedReporterEnds == \A h \in Hub :
    wiped[h] /\ rep[h] # "none" ~> rep[h] \in {"none", "done"}

(* MAX_RIGENERAZIONI: better to stop than to generate new identities forever.
   A hub that always meets a collision regenerates finitely often.          *)
RegenerationStops == \A h \in Hub : <>[](rep[h] # "clearPid")

(* The comment on identitaPrecedente: the previous pair is the proof the backend
   asks for before it gives a device its row back. The pair a hub has just replaced is
   still there when it reports the next one.                                  *)
ReportsWithProof == [][\A h \in Hub :
    rep[h] \in {"restart", "restarting"} => prev'[h] = prev[h]]_vars

=============================================================================
