------------------------------ MODULE OwnerPanel ------------------------------
(***************************************************************************)
(* Who the owner of the house is: what the backend says at every report    *)
(* and in an event of its own, what the hub works out from the owner's     *)
(* username and corrects on the backend, and what the panel lets each user *)
(* see and do because of it.                                               *)
(*                                                                         *)
(* webserver.py, cloud_worker.py (the owner and the link), linuxhost.py    *)
(* (the registration thread and what the panel asks).  The backend, its    *)
(* link and Home Assistant are external.                                   *)
(***************************************************************************)
EXTENDS Naturals, FiniteSets

CONSTANTS
    User,       \* users of Home Assistant; a username is that of its user
    Admin,      \* the administrators among them
    MaxOwners   \* bound: how many owners the house has in turn

None == "none"
Bad == "person"     \* the identifier of a person: no user has it

ASSUME UserAssumption == /\ Admin \subseteq User /\ MaxOwners \in Nat
                         /\ {None, Bad} \intersect User = {}

Id == User \union {None, Bad}
Resolver == {"reporter", "panel"}
Sender == Resolver \union {"loop"}

VARIABLES
    row,        \* backend: owner_auth_id and owner_username of the hub
    owners,     \* backend: how many owners there have been
    announced,  \* the owner_changed events on their way
    link,       \* the worker's socket: "down", "opening", "up"
    haUp,       \* the connection to Home Assistant
    OwnerAuthId, OwnerUsername, OwnerAuthIdRisolto,  \* the panel's fields
    claim,      \* the phase in ClaimCode, ClaimStatus: "registering", "open", "VERIFIED"
    box,        \* _proprietario_da_correggere
    pc,         \* where each thread is
    mine,       \* mine[t]: its local variables
    request     \* what the panel is being asked, by whom, and what it answers

backend == <<row, owners, announced>>
world == <<link, haUp>>
fields == <<OwnerAuthId, OwnerUsername, OwnerAuthIdRisolto, claim>>
vars == <<backend, world, fields, box, pc, mine, request>>

Route == {"page", "panel-link", "factory-reset"}
Blank == [found |-> None, out |-> None, send |-> None,
          answer |-> [auth |-> None, username |-> None]]

NoRequest == [route |-> None, user |-> None, shown |-> None]

Init ==
    /\ row = [auth |-> None, username |-> None] /\ owners = 0 /\ announced = {}
    /\ link = "down" /\ haUp = FALSE
    /\ OwnerAuthId = None /\ OwnerUsername = None /\ OwnerAuthIdRisolto = None /\ claim = "registering"
    /\ box = None
    /\ pc = [t \in Sender |-> "idle"]
    /\ mine = [t \in Sender |-> Blank]
    /\ request = NoRequest

TypeOK ==
    /\ row \in [auth : Id, username : User \union {None}] /\ announced \subseteq Id
    /\ link \in {"down", "opening", "up"} /\ haUp \in BOOLEAN
    /\ {OwnerAuthId, OwnerAuthIdRisolto, box} \subseteq Id
    /\ OwnerUsername \in User \union {None}
    /\ mine \in [Sender -> [found : Id, out : Id, send : Id,
                            answer : [auth : Id, username : User \union {None}]]]

At(t, from) == pc[t] = from
Goto(t, to) == pc' = [pc EXCEPT ![t] = to]
Set(t, field, value) == mine' = [mine EXCEPT ![t][field] = value]
Forget(t) == mine' = [mine EXCEPT ![t] = Blank]

-----------------------------------------------------------------------------
(* The environment.                                                          *)

(* A claim; the backend may still write the person instead of the user. The event
   goes out on the link, or not at all.                                        *)
Claim(u) ==
    /\ owners < MaxOwners /\ row.username # u
    /\ owners' = owners + 1
    /\ \E a \in {u, Bad} :
         /\ row' = [auth |-> a, username |-> u]
         /\ announced' = IF link = "up" THEN announced \union {a} ELSE announced
    /\ UNCHANGED <<world, fields, box, pc, mine, request>>

LinkLost == link # "down" /\ link' = "down" /\ UNCHANGED <<backend, haUp, fields, box, pc, mine, request>>
LinkUp == link = "opening" /\ link' = "up" /\ UNCHANGED <<backend, haUp, fields, box, pc, mine, request>>
HaChanges == haUp' = ~haUp /\ UNCHANGED <<backend, link, fields, box, pc, mine, request>>

-----------------------------------------------------------------------------
(* SetClaimInfo: only what has a value replaces what is there.               *)

SetOwner(auth, username) ==
    /\ OwnerAuthId' = IF auth = None THEN OwnerAuthId ELSE auth
    /\ OwnerUsername' = IF username = None THEN OwnerUsername ELSE username
    /\ UNCHANGED OwnerAuthIdRisolto

(* _on_owner_changed *)
OwnerChanged(a) ==
    /\ a \in announced
    /\ announced' = announced \ {a}
    /\ SetOwner(a, None)
    /\ UNCHANGED <<row, owners, world, claim, box, pc, mine, request>>

-----------------------------------------------------------------------------
(* ProprietarioAuthId, on the registration thread and on the panel's.        *)

ReadOwner(t) ==
    /\ At(t, "owner")
    /\ IF OwnerAuthIdRisolto # None
       THEN Set(t, "out", OwnerAuthIdRisolto) /\ Goto(t, "known")
       ELSE IF OwnerUsername # None
       THEN Set(t, "found", OwnerUsername) /\ Goto(t, "resolve")
       ELSE Set(t, "out", OwnerAuthId) /\ Goto(t, "known")
    /\ UNCHANGED <<backend, world, fields, box, request>>

(* Mutant: the value that could not be checked is kept as if it had been. *)
ResolveKeepsRaw(t) ==
    /\ At(t, "resolve")
    /\ \/ /\ haUp
          /\ Goto(t, "compare")
          /\ UNCHANGED <<fields, mine>>
       \/ /\ Set(t, "out", OwnerAuthId) /\ OwnerAuthIdRisolto' = OwnerAuthId /\ Goto(t, "known")
          /\ UNCHANGED <<OwnerAuthId, OwnerUsername, claim>>
    /\ UNCHANGED <<backend, world, box, request>>

(* CloudWorker.RisolviProprietario: the list of users, or nothing when Home
   Assistant does not answer in time; then the backend's value stands.       *)
Resolve(t) ==
    /\ At(t, "resolve")
    /\ \/ /\ haUp
          /\ Goto(t, "compare") /\ UNCHANGED mine
       \/ /\ ~haUp
          /\ Set(t, "out", OwnerAuthId) /\ Goto(t, "known")
    /\ UNCHANGED <<backend, world, fields, box, request>>

(* CorreggiProprietario, when the two differ: into the box, and try to send it. *)
Compare(t) ==
    /\ At(t, "compare")
    /\ IF mine[t].found # OwnerAuthId
       THEN box' = mine[t].found /\ Goto(t, "send")
       ELSE UNCHANGED box /\ Goto(t, "keep")
    /\ UNCHANGED <<backend, world, fields, mine, request>>

Keep(t) ==
    /\ At(t, "keep")
    /\ OwnerAuthIdRisolto' = mine[t].found
    /\ Set(t, "out", mine[t].found)
    /\ Goto(t, "known")
    /\ UNCHANGED <<backend, world, OwnerAuthId, OwnerUsername, claim, box, request>>

-----------------------------------------------------------------------------
(* _spedisci_correzione_proprietario, on whatever thread.                    *)

AfterSend(t) == IF t \in Resolver THEN "keep" ELSE "idle"

LookInBox(t) ==
    /\ At(t, "send")
    /\ IF box = None
       THEN UNCHANGED mine /\ Goto(t, AfterSend(t))
       ELSE Set(t, "send", box) /\ Goto(t, "emit")
    /\ UNCHANGED <<backend, world, fields, box, request>>

(* Mutant: the box is emptied whether or not the message left. *)
EmitOnce(t) ==
    /\ At(t, "emit")
    /\ row' = IF link = "up" THEN [row EXCEPT !.auth = mine[t].send] ELSE row
    /\ Set(t, "send", None) /\ Goto(t, "empty")
    /\ UNCHANGED <<owners, announced, world, fields, box, request>>

(* emit raises while the namespace is not connected. *)
Emit(t) ==
    /\ At(t, "emit")
    /\ Set(t, "send", None)
    /\ IF link = "up"
       THEN row' = [row EXCEPT !.auth = mine[t].send] /\ Goto(t, "empty")
       ELSE UNCHANGED row /\ Goto(t, AfterSend(t))
    /\ UNCHANGED <<owners, announced, world, fields, box, request>>

EmptyBox(t) ==
    /\ At(t, "empty")
    /\ box' = None
    /\ Goto(t, AfterSend(t))
    /\ UNCHANGED <<backend, world, fields, mine, request>>

(* _run_loop: connects if need be, then tries to send. _on_connect tries too, maybe
   before the namespace is connected: a turn of the loop at that moment.       *)
LoopTurn ==
    /\ At("loop", "idle")
    /\ link' \in IF link = "down" THEN {"down", "opening"} ELSE {link}
    /\ pc' = [pc EXCEPT !["loop"] = "send"]
    /\ UNCHANGED <<backend, haUp, fields, box, mine, request>>

-----------------------------------------------------------------------------
(* The registration thread, from a report to the next.                       *)

Report ==
    /\ At("reporter", "idle")
    /\ Set("reporter", "answer", row)
    /\ Goto("reporter", "claim")
    /\ UNCHANGED <<backend, world, fields, box, request>>

ApplyReport ==
    /\ At("reporter", "claim")
    /\ SetOwner(mine["reporter"].answer.auth, mine["reporter"].answer.username)
    /\ claim' = IF mine["reporter"].answer.username = None THEN "open" ELSE "VERIFIED"
    /\ Goto("reporter", "owner")
    /\ UNCHANGED <<backend, world, box, mine, request>>

ReportDone ==
    /\ At("reporter", "known")
    /\ Goto("reporter", "idle") /\ Forget("reporter")
    /\ UNCHANGED <<backend, world, fields, box, request>>

-----------------------------------------------------------------------------
(* The panel: one request at a time. Only the address that the Ingress gives to
   requests it has authenticated gets this far.                              *)

(* Home Assistant's answer to who is an administrator: not known, when it does
   not answer, which is not yes.                                             *)
AdminCheck(u, answer) ==
    IF haUp THEN answer = IF u \in Admin THEN "yes" ELSE "no"
    ELSE answer = "unknown"

(* Mutant: a house without an owner yet is open to whoever comes. *)
AnyoneOwns(u, owner) == owner \in {None, u}

IsOwner(u, owner) == owner # None /\ u = owner

Ask(route, u) ==
    /\ At("panel", "idle")
    /\ request' = [route |-> route, user |-> u, shown |-> None]
    /\ Goto("panel", IF route = "factory-reset" THEN "admin" ELSE "owner")
    /\ UNCHANGED <<backend, world, fields, box, mine>>

Answer(shown) ==
    /\ request' = [request EXCEPT !.shown = shown]
    /\ Goto("panel", "answer")

(* do_GET: everything for an administrator; the house for its owner, as far along
   as its claim is; for the others a page that says why there is nothing here.  *)
ShowPage ==
    /\ At("panel", "known") /\ request.route = "page"
    /\ \E admin \in {"yes", "no", "unknown"} :
         /\ AdminCheck(request.user, admin)
         /\ Answer(IF admin = "yes" THEN "tools"
                   ELSE IF IsOwner(request.user, mine["panel"].out) THEN claim
                   ELSE "closed")
    /\ UNCHANGED <<backend, world, fields, box, mine>>

(* do_POST /panel-link: the owner or an administrator; the backend may not answer. *)
PanelLink ==
    /\ At("panel", "known") /\ request.route = "panel-link"
    /\ \E admin \in {"yes", "no", "unknown"} :
         /\ AdminCheck(request.user, admin)
         /\ IF admin = "yes" \/ IsOwner(request.user, mine["panel"].out)
            THEN Answer("link") \/ Answer("unreachable")
            ELSE Answer("closed")
    /\ UNCHANGED <<backend, world, fields, box, mine>>

(* do_POST /factory-reset: an administrator who writes the word. *)
FactoryReset ==
    /\ At("panel", "admin")
    /\ \E admin \in {"yes", "no", "unknown"}, word \in BOOLEAN :
         /\ AdminCheck(request.user, admin)
         /\ IF admin # "yes" \/ ~word
            THEN Answer("closed")
            ELSE Answer("wiped")
    /\ UNCHANGED <<backend, world, fields, box, mine>>

Sent ==
    /\ At("panel", "answer")
    /\ request' = NoRequest
    /\ Goto("panel", "idle") /\ Forget("panel")
    /\ UNCHANGED <<backend, world, fields, box>>

-----------------------------------------------------------------------------
ResolveStep(t) == ReadOwner(t) \/ Resolve(t) \/ Compare(t) \/ Keep(t)
SendStep(t) == LookInBox(t) \/ Emit(t) \/ EmptyBox(t)
ReporterStep == Report \/ ApplyReport \/ ReportDone
PanelStep == ShowPage \/ PanelLink \/ FactoryReset \/ Sent
Environment ==
    \/ \E u \in User : Claim(u)
    \/ LinkLost \/ LinkUp \/ HaChanges

Next ==
    \/ Environment
    \/ \E a \in announced : OwnerChanged(a)
    \/ \E t \in Resolver : ResolveStep(t)
    \/ \E t \in Sender : SendStep(t)
    \/ LoopTurn \/ ReporterStep \/ PanelStep
    \/ \E route \in Route, u \in User : Ask(route, u)

Spec == Init /\ [][Next]_vars

(* The threads run, the report is repeated and the loop turns; nobody has to claim
   the house or to open the panel.                                             *)
FairSpec ==
    /\ Spec
    /\ \A t \in Resolver : WF_vars(ResolveStep(t))
    /\ \A t \in Sender : WF_vars(SendStep(t))
    /\ WF_vars(LoopTurn) /\ WF_vars(ReporterStep) /\ WF_vars(PanelStep)
    /\ \A a \in Id : WF_vars(OwnerChanged(a))

-----------------------------------------------------------------------------
(* Properties.                                                               *)

(* Before the claim, and while it cannot be found out who the owner is, nobody is
   taken for the owner; nor is ever somebody the backend did not name (the
   comment of OwnerAuthId in __init__).                                      *)
StrangerRefused ==
    request.shown \in {"registering", "open", "VERIFIED", "link"} =>
        request.user \in Admin \union {row.username}

(* Whom the panel takes for the owner. *)
Believed == IF OwnerAuthIdRisolto # None THEN OwnerAuthIdRisolto ELSE OwnerAuthId

Settles == <>[](link = "up" /\ haUp)

(* Once the link and Home Assistant stay up, the panel knows the owner for good,
   without a restart, whatever was resolved too early or arrived out of order
   (the comments of ProprietarioAuthId and _on_owner_changed).               *)
OwnerAdmitted == Settles => <>[](Believed = row.username)

(* The wrong identifier on the backend is put right, once and for all: what was
   found out before the link could carry it is not lost (the comments of
   ProprietarioAuthId and CorreggiProprietario).                             *)
RowCorrected == Settles => <>[](row.auth = row.username)

(* A correction replaces a wrong identifier by the right one, never a right one (the
   comment of ProprietarioAuthId: what was worked out wins, and the wrong column
   is corrected).                                                            *)
OnlyWrongCorrected ==
    [][row.auth = row.username /\ owners' = owners => row'.auth = row'.username]_vars

=============================================================================
