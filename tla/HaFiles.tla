------------------------------- MODULE HaFiles -------------------------------
(***************************************************************************)
(* The files that the add-on changes in Home Assistant's folder and that   *)
(* Home Assistant reads only when it starts: its configuration, the two    *)
(* files of the voice assistants and the list of banned addresses.         *)
(*                                                                         *)
(* configmanager.py, connection.py (RestartHa), assistentivocali.py and    *)
(* its thread in linuxhost.py, the bans in cloud_worker.py.  Home          *)
(* Assistant, its user's editor and the curated lists are external.        *)
(***************************************************************************)
EXTENDS ConfigFile, FiniteSets

CONSTANTS
    Absent,     \* a file that is not there, or that cannot be read
    Worlds,     \* what other hands may do in a behaviour: the files that
                \* configuration.yaml may be, the curated lists (a list and an
                \* entity_config, or Absent), the addresses that may be banned,
                \* and the bound: how often the add-on is started
    Entity,
    Timer       \* the threads of RestartHomeAssistant

None == "none"
Assistant == {"alexa", "google"}

ASSUME WorldsAssumption == /\ \A w \in Worlds : w.files \subseteq Seq([ind : Nat, key : STRING, off : BOOLEAN])
                           /\ \A w \in Worlds : w.boots \in Nat

VARIABLES
    world,              \* the one of Worlds it is
    config,             \* configuration.yaml
    fresh,              \* how many whole updates it has seen since another hand wrote it
    unloaded,           \* Home Assistant runs without the add-on's last change
    addon,              \* where the add-on's start is, or "off", "run"
    text,               \* the lines it has read
    boots,
    RestartRequired,
    timer,              \* timer[t]: where each restart thread is
    IssueRestartOnConnect,
    link,               \* the connection: "off", "on", or "dead": IsConnected, and broken
    restart,            \* Home Assistant was told to restart
    curated,            \* the curated list of each assistant
    voice,              \* the file generated for each assistant
    gen,                \* the thread that generates them: where it is, which file, its text
    banned, banFile,    \* the banned addresses: in memory, and in the file, in order
    unban               \* the command: where it is, its address, what it has read

file == <<config, fresh, unloaded>>
start == <<addon, text, boots>>
restarts == <<RestartRequired, timer, IssueRestartOnConnect>>
home == <<link, restart>>
voices == <<curated, voice, gen>>
bans == <<banned, banFile, unban>>
vars == <<world, file, start, restarts, home, voices, bans>>

NoGen == [pc |-> None, of |-> "alexa", draft |-> Absent]
NoCommand == [pc |-> None, ip |-> None, seen |-> {}, lines |-> << >>]

Init ==
    /\ world \in Worlds
    /\ config \in world.files /\ fresh = 0 /\ unloaded = FALSE
    /\ addon = "off" /\ text = << >> /\ boots = 0
    /\ RestartRequired = FALSE /\ IssueRestartOnConnect = FALSE
    /\ timer = [t \in Timer |-> None]
    /\ link = "off" /\ restart = FALSE
    /\ curated \in [Assistant -> world.lists] /\ voice = [a \in Assistant |-> Absent] /\ gen = NoGen
    /\ banned = {} /\ banFile = << >> /\ unban = NoCommand

-----------------------------------------------------------------------------
(* Home Assistant, and whoever else writes its files.                        *)

Reads == unloaded' = FALSE /\ banned' = Range(banFile) /\ restart' = FALSE

(* It restarts when told, or by itself; the connection finds out later.      *)
HaRestarts ==
    /\ Reads
    /\ link' = IF link = "off" THEN "off" ELSE "dead"
    /\ UNCHANGED <<config, fresh, start, restarts, voices, banFile, unban>>

(* The user's editor: any of the files again. *)
UserEdits(f) ==
    /\ boots < world.boots /\ f # config
    /\ config' = f /\ fresh' = 0
    /\ UNCHANGED <<unloaded, start, restarts, home, voices, bans>>

CurateLists(c) ==
    /\ boots < world.boots /\ gen.pc = None
    /\ curated' = c
    /\ UNCHANGED <<file, start, restarts, home, voice, gen, bans>>

(* Too many wrong passwords: the address is refused at once, and appended to the file. *)
HaBans(ip) ==
    /\ ip \notin banned /\ ip \notin Range(banFile)
    /\ banned' = banned \union {ip} /\ banFile' = Append(banFile, ip)
    /\ UNCHANGED <<file, start, restarts, home, voices, unban>>

LinkBreaks == link = "on" /\ link' = "dead" /\ UNCHANGED <<file, start, restarts, restart, voices, bans>>
LinkCloses == link = "dead" /\ link' = "off" /\ UNCHANGED <<file, start, restarts, restart, voices, bans>>

-----------------------------------------------------------------------------
(* ConnectionThread and _OnConnected: a deferred restart goes out first.     *)
Connect ==
    /\ link = "off" /\ addon # "off"
    /\ link' = "on"
    /\ IssueRestartOnConnect' = FALSE
    /\ restart' = (restart \/ IssueRestartOnConnect)
    /\ UNCHANGED <<file, start, RestartRequired, timer, voices, bans>>

-----------------------------------------------------------------------------
(* UpdateConfigIfNeeded, when the add-on starts.                             *)

Boot ==
    /\ addon = "off" /\ boots < world.boots
    /\ boots' = boots + 1
    /\ text' = config /\ addon' = "assistants"
    /\ UNCHANGED <<file, restarts, home, voices, bans>>

(* What the file becomes: the first writing was of the assistants, then http. *)
Writes(new) ==
    /\ config' = new
    /\ unloaded' = (unloaded \/ new # config)
    /\ RestartRequired' = (RestartRequired \/ new # config)

(* Append what is missing to what is there by now. *)
WriteAssistants ==
    /\ addon = "assistants"
    /\ Writes(config \o SubSeq(UpdateAssistants(text), Len(text) + 1, Len(UpdateAssistants(text))))
    /\ addon' = "read"
    /\ UNCHANGED <<fresh, text, boots, timer, IssueRestartOnConnect, home, voices, bans>>

ReadAgain ==
    /\ addon = "read"
    /\ text' = config /\ addon' = "http"
    /\ UNCHANGED <<file, boots, restarts, home, voices, bans>>

(* Write the lines, or append when there is no section, over what is there by now. *)
WriteHttp ==
    /\ addon = "http"
    /\ Writes(IF UpdateHttp(text) = text THEN config
              ELSE IF Header(text) = 0 THEN config \o HttpSection
              ELSE UpdateHttp(text))
    /\ fresh' = fresh + 1
    /\ text' = << >> /\ addon' = "updated"
    /\ UNCHANGED <<boots, timer, IssueRestartOnConnect, home, voices, bans>>

NewTimer(t) == timer[t] = None /\ timer' = [timer EXCEPT ![t] = "sleep"]

(* The restart is asked for if something changed, and the host goes on starting:
   the thread of the voice assistants is next.                                 *)
Started ==
    /\ addon = "updated"
    /\ addon' = "run"
    /\ IF RestartRequired THEN \E t \in Timer : NewTimer(t) ELSE UNCHANGED timer
    /\ gen' = [NoGen EXCEPT !.pc = "version"]
    /\ UNCHANGED <<file, text, boots, RestartRequired, IssueRestartOnConnect, home, curated, voice, bans>>

(* The process ends, at any point; caught in the middle of writing, the lines are gone:
   open(..., "w") has emptied the file.                                        *)
Stop ==
    /\ addon # "off" /\ boots < world.boots
    /\ addon' = "off" /\ text' = << >>
    /\ RestartRequired' = FALSE /\ IssueRestartOnConnect' = FALSE
    /\ timer' = [t \in Timer |-> None]
    /\ gen' = NoGen /\ unban' = NoCommand /\ link' = "off"
    /\ \/ UNCHANGED <<config, fresh, banFile>>
       \/ /\ addon = "http" /\ UpdateHttp(text) # text /\ Header(text) # 0
          /\ config' = << >> /\ fresh' = 0 /\ UNCHANGED banFile
       \/ /\ unban.pc = "write"
          /\ banFile' = << >> /\ UNCHANGED <<config, fresh>>
    /\ UNCHANGED <<unloaded, boots, restart, curated, voice, banned>>

-----------------------------------------------------------------------------
(* _RestartHomeAssistant_Thread, and NeedsRestart, which starts one more.    *)

NeedsRestart(t) ==
    /\ addon = "run" /\ RestartRequired
    /\ NewTimer(t)
    /\ UNCHANGED <<file, start, RestartRequired, IssueRestartOnConnect, home, voices, bans>>

(* Another thread may have done it in the meantime. *)
Wake(t) ==
    /\ timer[t] = "sleep"
    /\ timer' = [timer EXCEPT ![t] = IF RestartRequired THEN "clear" ELSE None]
    /\ UNCHANGED <<file, start, RestartRequired, IssueRestartOnConnect, home, voices, bans>>

Clear(t) ==
    /\ timer[t] = "clear"
    /\ RestartRequired' = FALSE
    /\ timer' = [timer EXCEPT ![t] = "restart"]
    /\ UNCHANGED <<file, start, IssueRestartOnConnect, home, voices, bans>>

(* RestartHa: a login may come between the test and the deferral, which nobody looks at
   any more then; the connection may break between the test and the command, and sending
   on it fails, of which nobody takes notice.                                  *)
TestLink(t) ==
    /\ timer[t] = "restart"
    /\ timer' = [timer EXCEPT ![t] = IF link = "off" THEN "defer" ELSE "undefer"]
    /\ UNCHANGED <<file, start, RestartRequired, IssueRestartOnConnect, home, voices, bans>>

(* Mutant: nothing is remembered when there is no connection. *)
ForgetRestart(t) ==
    /\ timer[t] = "defer"
    /\ timer' = [timer EXCEPT ![t] = None]
    /\ UNCHANGED <<file, start, RestartRequired, IssueRestartOnConnect, home, voices, bans>>

DeferRestart(t) ==
    /\ timer[t] = "defer"
    /\ IssueRestartOnConnect' = TRUE
    /\ timer' = [timer EXCEPT ![t] = None]
    /\ UNCHANGED <<file, start, RestartRequired, home, voices, bans>>

Undefer(t) ==
    /\ timer[t] = "undefer"
    /\ IssueRestartOnConnect' = FALSE
    /\ timer' = [timer EXCEPT ![t] = "send"]
    /\ UNCHANGED <<file, start, RestartRequired, home, voices, bans>>

SendRestart(t) ==
    /\ timer[t] = "send"
    /\ restart' = (restart \/ link = "on")
    /\ timer' = [timer EXCEPT ![t] = None]
    /\ UNCHANGED <<file, start, RestartRequired, IssueRestartOnConnect, link, voices, bans>>

RestartHa(t) == TestLink(t) \/ DeferRestart(t) \/ Undefer(t) \/ SendRestart(t)

-----------------------------------------------------------------------------
(* The files of the voice assistants: the entities a file includes, and whether it
   excludes everything. Its heading is left out: it only says whether a file that
   would not change otherwise is written again.                                 *)

(* _voci: the entities of the list, and of entity_config only those on the list. *)
Voci(c) == IF c = Absent THEN [list |-> {}, config |-> {}]
           ELSE [list |-> c.list, config |-> c.config \intersect c.list]

(* Mutant: an empty list makes a filter with nothing in it. *)
OpenFilter(c) == [include |-> Voci(c).list, config |-> Voci(c).config, exclude |-> FALSE]

GeneraAlexa(c) == [include |-> Voci(c).list, config |-> Voci(c).config, exclude |-> Voci(c).list = {}]
GeneraGoogle(c) == [include |-> {}, config |-> Voci(c).list, exclude |-> TRUE]

(* What Home Assistant makes of a file: for Alexa a filter with nothing in it is no
   filter; for Google being in entity_config is being exposed.                  *)
Exposes(a, f) == IF f = Absent THEN {}
                 ELSE IF a = "google" THEN f.config
                 ELSE IF f.exclude THEN {}
                 ELSE IF f.include = {} THEN Entity
                 ELSE f.include

(* It waits for the version of Home Assistant, and gives up in the end. *)
LearnVersion ==
    /\ gen.pc = "version"
    /\ gen' = [gen EXCEPT !.pc = "read"]
    /\ UNCHANGED <<file, start, restarts, home, curated, voice, bans>>

ReadCurated ==
    /\ gen.pc = "read"
    /\ gen' = [gen EXCEPT !.pc = "write",
                          !.draft = IF gen.of = "alexa" THEN GeneraAlexa(curated["alexa"])
                                    ELSE GeneraGoogle(curated["google"])]
    /\ UNCHANGED <<file, start, restarts, home, curated, voice, bans>>

(* ServeRiscrivere and ScriviAtomico, which may fail and then leaves what was there. *)
WriteVoice ==
    /\ gen.pc = "write"
    /\ \/ voice' = [voice EXCEPT ![gen.of] = gen.draft]
       \/ gen.draft # voice[gen.of] /\ UNCHANGED voice
    /\ gen' = IF gen.of = "alexa" THEN [gen EXCEPT !.pc = "read", !.of = "google", !.draft = Absent] ELSE NoGen
    /\ UNCHANGED <<file, start, restarts, home, curated, bans>>

-----------------------------------------------------------------------------
(* command_unban, and command_ban_status, which only reads.                  *)

Unban(ip) ==
    /\ addon = "run" /\ unban.pc = None /\ ip \in Range(banFile)
    /\ unban' = [NoCommand EXCEPT !.pc = "read", !.ip = ip]
    /\ UNCHANGED <<file, start, restarts, home, voices, banned, banFile>>

(* Mutant: the end of the entry is not noticed, and what follows goes with it. *)
KeepBefore(lines, ip) == SelectSeq(SubSeq(lines, 1, SelectInSeq(lines, LAMBDA l : l = ip)), LAMBDA l : l # ip)

(* Only the entry of this address goes, line by line. *)
Kept(lines, ip) ==
    LET kept[n \in 0 .. Len(lines)] ==
            IF n = 0 THEN << >>
            ELSE IF lines[n] = ip THEN kept[n - 1] ELSE Append(kept[n - 1], lines[n])
    IN kept[Len(lines)]

ReadBans ==
    /\ unban.pc = "read"
    /\ unban' = [unban EXCEPT !.pc = "write", !.seen = Range(banFile), !.lines = Kept(banFile, unban.ip)]
    /\ UNCHANGED <<file, start, restarts, home, voices, banned, banFile>>

WriteBans ==
    /\ unban.pc = "write"
    /\ banFile' = unban.lines
    /\ unban' = [unban EXCEPT !.pc = "verify"]
    /\ UNCHANGED <<file, start, restarts, home, voices, banned>>

(* Read again: still there, and the command fails. Otherwise Home Assistant is told to
   restart, on whatever connection there is, and the answer is yes.             *)
VerifyBan ==
    /\ unban.pc = "verify"
    /\ restart' = (restart \/ (unban.ip \notin Range(banFile) /\ link = "on"))
    /\ unban' = NoCommand
    /\ UNCHANGED <<file, start, restarts, link, voices, banned, banFile>>

-----------------------------------------------------------------------------
Environment ==
    \/ HaRestarts \/ LinkBreaks \/ LinkCloses
    \/ \E f \in world.files : UserEdits(f)
    \/ \E c \in [Assistant -> world.lists] : CurateLists(c)
    \/ \E ip \in world.addresses : HaBans(ip)

StartStep == WriteAssistants \/ ReadAgain \/ WriteHttp \/ Started
TimerStep(t) == Wake(t) \/ Clear(t) \/ RestartHa(t)
VoiceStep == LearnVersion \/ ReadCurated \/ WriteVoice
UnbanStep == ReadBans \/ WriteBans \/ VerifyBan

Next ==
    /\ UNCHANGED world
    /\ \/ Environment \/ Boot \/ Stop \/ Connect
       \/ StartStep \/ VoiceStep \/ UnbanStep
       \/ \E t \in Timer : TimerStep(t) \/ NeedsRestart(t)
       \/ \E ip \in world.addresses : Unban(ip)

Spec == Init /\ [][Next]_vars

(* The threads run, the connection is tried again for ever and a dead one is noticed;
   Home Assistant restarts when it was told to.                                 *)
FairSpec ==
    /\ Spec
    /\ WF_vars(UNCHANGED world /\ Started)
    /\ WF_vars(UNCHANGED world /\ VoiceStep)
    /\ WF_vars(UNCHANGED world /\ UnbanStep)
    /\ \A t \in Timer : WF_vars(UNCHANGED world /\ TimerStep(t))
    /\ WF_vars(UNCHANGED world /\ (Connect \/ LinkCloses))
    /\ WF_vars(UNCHANGED world /\ restart /\ HaRestarts)

-----------------------------------------------------------------------------
(* Properties.                                                               *)

(* What the add-on changed is in force in the end, however many restart threads there
   are and wherever the connection was when they woke, unless the add-on stops, the
   connection broke, or a login came between the test of RestartHa and its deferral,
   which is then left for the connection after this one (configmanager.py, RestartHa). *)
LeftDeferred == IssueRestartOnConnect /\ link = "on"
ChangeLoaded ==
    (addon \in {"updated", "run"} /\ RestartRequired)
        ~> (~unloaded \/ addon = "off" \/ link = "dead" \/ LeftDeferred)

(* A restart that was due is not given up half way, whoever has it in hand, a thread or
   the flag: until Home Assistant has been told, only the end of the process or a
   connection that broke makes it vanish (RestartRequired is cleared before the
   restart is asked for, IssueRestartOnConnect before it is sent).             *)
InHand(t) == timer[t] \in {"restart", "defer", "undefer", "send"}
RestartPending == RestartRequired \/ IssueRestartOnConnect \/ \E t \in Timer : InHand(t)
RestartHandedOn ==
    [][RestartPending /\ ~RestartPending' => restart' \/ addon' = "off" \/ link # "on"]_vars

(* No file ever exposes an entity that no curated list named: not when the list is
   missing, unreadable or empty, and not one only entity_config names (the header of
   assistentivocali.py).                                                        *)
Named == UNION {c.list : c \in world.lists \ {Absent}}
OnlyNamedExposed == \A a \in Assistant : Exposes(a, voice[a]) \subseteq Named

(* While nobody stops the add-on, a ban leaves the file only because its own address
   was let in, or because it came while the command held its copy (the comment of
   _on_unban: the rest of the file is not ours to throw away).                  *)
OnlyOwnBanLifted ==
    [][addon' # "off" =>
         \A ip \in Range(banFile) \ Range(banFile') : ip = unban.ip \/ ip \notin unban.seen]_vars

(* Once it has been updated, Home Assistant trusts the network that the add-on calls
   from: its line is in the list of trusted proxies.                            *)
InList(f, i) == \E p \in 1 .. i - 1 : /\ f[p].key = "proxies" /\ ~f[p].off
                                      /\ \A j \in p + 1 .. i : f[j].ind > f[p].ind
DockerTrusted == fresh >= 1 => \E i \in DOMAIN config : config[i].key = "docker" /\ InList(config, i)

=============================================================================
