--------------------------------- MODULE Home ---------------------------------
(***************************************************************************)
(* How the hub keeps up with the home: the events of Home Assistant, the   *)
(* worker that fetches the registries again, the threads that wait for it, *)
(* and the queue of the changes to the registry of entities.               *)
(*                                                                         *)
(* homecontext.py, eventhandler.py and threadedqueue.py.  Home Assistant   *)
(* and the connection (module HaConnection) are external.                  *)
(***************************************************************************)
EXTENDS HomeTree, Naturals, Sequences

CONSTANTS
    Registry,   \* the registries that Home Assistant has in turn
    Listed,     \* the entities on the curated lists of Alexa and Google
    Eventful,   \* the entities that there are events of
    MaxInbox    \* bound: how many events are on their way

Kind == {"floors", "areas", "devices", "entities"}
Version == DOMAIN Registry
Failed == 0             \* no answer, or none that can be used

Unique(records) == \A r, s \in records : r.id = s.id => r = s

(* What Home Assistant sees to: an id is given once, and whatever an entity or a device
   is in is there. The floor of an area need not be.                            *)
Consistent(r) ==
    /\ Unique(r.areas) /\ Unique(r.devices) /\ Unique(r.entities)
    /\ None \notin Ids(r.areas) /\ None \notin Ids(r.devices)
    /\ \A d \in r.devices : d.area \in Ids(r.areas) \union {None}
    /\ \A e \in r.entities : e.device \in Ids(r.devices) \union {None}

ASSUME RegistryAssumption ==
    /\ Len(Registry) \in Nat \ {0} /\ Version = 1 .. Len(Registry) /\ MaxInbox \in Nat
    /\ \A v \in Version : DOMAIN Registry[v] = Kind /\ Consistent(Registry[v])

VARIABLES
    reg,        \* Home Assistant: which of the registries it has
    link,       \* the connection is up
    inbox,      \* the events on their way
    told,       \* the newest registry that the hub has been told to look at
    WorkerGoEvent,
    worker,     \* where _Worker is
    asked,      \* the registry at the time of the worker's questions
    cache,      \* the answers that the cached tree was made from, or << >>
    delayed,    \* the delayed thread: "none", "same", or "moved": the cache changed
    socket,     \* the socket's thread: where it is, and with which event
    queue,      \* EntityRegistryUpdatedThreadedQueue
    ThreadEvent,
    batch       \* its thread: where it is, and what it has taken

ha == <<reg, link, inbox, told>>
refresh == <<WorkerGoEvent, worker, asked, cache, delayed>>
added == <<queue, ThreadEvent>>
vars == <<ha, refresh, socket, added, batch>>

Event == [of : {"state", "change", "registry"}, entity : Eventful]
NoEvent == << >>

Init ==
    /\ reg = 1 /\ link = FALSE /\ inbox = << >> /\ told = 0
    /\ WorkerGoEvent = FALSE
    /\ worker = "wait" /\ asked = 0
    /\ cache = << >> /\ delayed = "none"
    /\ socket = [pc |-> "idle", event |-> NoEvent]
    /\ queue = << >> /\ ThreadEvent = FALSE
    /\ batch = [pc |-> "check", events |-> << >>]

-----------------------------------------------------------------------------
(* Home Assistant and the connection.                                        *)

Incoming(event) == inbox' = IF link /\ Len(inbox) < MaxInbox THEN Append(inbox, event) ELSE inbox

(* Something is added, renamed, removed or exposed: the registries change, and whoever
   is connected gets an event.                                                  *)
Changes(event) ==
    /\ reg < Len(Registry) /\ event.of # "state"
    /\ link => Len(inbox) < MaxInbox
    /\ reg' = reg + 1 /\ Incoming(event)
    /\ UNCHANGED <<link, told, refresh, socket, added, batch>>

(* A light goes on. *)
StateChanges(event) ==
    /\ event.of = "state" /\ link /\ Len(inbox) < MaxInbox
    /\ Incoming(event)
    /\ UNCHANGED <<reg, link, told, refresh, socket, added, batch>>

Drop ==
    /\ link /\ link' = FALSE /\ inbox' = << >>
    /\ UNCHANGED <<reg, told, refresh, socket, added, batch>>

(* _OnNewHaWsConnected: on every connection, whatever was missed meanwhile. *)
Connect ==
    /\ ~link /\ socket.pc = "idle"
    /\ link' = TRUE /\ told' = reg /\ WorkerGoEvent' = TRUE
    /\ UNCHANGED <<reg, inbox, worker, asked, cache, delayed, socket, added, batch>>

-----------------------------------------------------------------------------
(* _Worker                                                                   *)

(* The event, or the time for a refresh, or another caller's request. *)
WakeUp ==
    /\ worker \in {"wait", "failed"}
    /\ worker' = "clear"
    /\ UNCHANGED <<ha, WorkerGoEvent, asked, cache, delayed, socket, added, batch>>

(* Cleared before anything is asked, so that what happens from now on is not lost;
   then one thread for each question.                                           *)
ClearAndAsk ==
    /\ worker = "clear"
    /\ WorkerGoEvent' = FALSE
    /\ asked' = reg
    /\ worker' = "query"
    /\ UNCHANGED <<ha, cache, delayed, socket, added, batch>>

Waiting(pc) == pc = "await"

(* Each registry is answered at a moment of its own, or not at all. Bound: at most one
   of the answers is missing, or from another moment than the others.          *)
Answers ==
    UNION {{[k \in Kind |-> IF k = odd THEN v ELSE w] : odd \in Kind} :
             v \in asked .. reg \union {Failed}, w \in asked .. reg}

(* Mutant: the event is cleared when the answers are there, not before they are asked
   for.                                                                         *)
HandleAndClear ==
    /\ worker = "query" /\ (link => ~Waiting(socket.pc))
    /\ worker' = "wait" /\ asked' = 0
    /\ delayed' = IF delayed = "same" THEN "moved" ELSE delayed
    /\ cache' \in Answers
    /\ WorkerGoEvent' = FALSE
    /\ UNCHANGED <<ha, socket, added, batch>>

(* The answers come in on the socket's thread, when that is not waiting itself. From
   whatever came _HandleAllObjectsResult makes the tree; the swap is under the lock. *)
Handle ==
    /\ worker = "query" /\ (link => ~Waiting(socket.pc))
    /\ worker' = "wait" /\ asked' = 0
    /\ delayed' = IF delayed = "same" THEN "moved" ELSE delayed
    /\ cache' \in Answers
    /\ UNCHANGED <<ha, WorkerGoEvent, socket, added, batch>>

(* An answer that cannot be parsed: nothing is cached, and it sleeps for a minute. *)
HandleFails ==
    /\ worker = "query"
    /\ worker' = "failed" /\ asked' = 0
    /\ UNCHANGED <<ha, WorkerGoEvent, cache, delayed, socket, added, batch>>

(* The registries that the cached tree was made from. *)
Cached ==
    [k \in Kind |-> IF cache = << >> \/ cache[k] = Failed THEN {} ELSE Registry[cache[k]][k]]

(* _OnStateChangedCallback: one delayed thread at a time, and the worker at once. *)
Callback ==
    /\ delayed' = IF delayed = "none" THEN "same" ELSE delayed
    /\ WorkerGoEvent' = TRUE
    /\ told' = reg

(* The delayed thread, unless the cache was updated while it slept. *)
Delayed ==
    /\ delayed # "none"
    /\ WorkerGoEvent' = (WorkerGoEvent \/ delayed = "same")
    /\ delayed' = "none"
    /\ UNCHANGED <<ha, worker, asked, cache, socket, added, batch>>

-----------------------------------------------------------------------------
(* The socket's thread: _HandleStateChangedEvent and
   _HandleEntityRegistryUpdatedEvent.                                        *)

Socket(to, event) == socket' = [pc |-> to, event |-> event]

TakeEvent ==
    /\ socket.pc = "idle" /\ inbox # << >>
    /\ inbox' = Tail(inbox)
    /\ LET event == Head(inbox)
       IN IF event.of = "state"
          THEN Socket("exposed", event) /\ UNCHANGED <<WorkerGoEvent, delayed, told>>
          ELSE /\ Callback
               /\ Socket(IF event.of = "registry" THEN "add" ELSE "exposed", event)
    /\ UNCHANGED <<reg, link, worker, asked, cache, added, batch>>

(* Only an entity on a list is looked up, and only then the thread may have to wait,
   which it does for five seconds at most. What is sent in the end goes nowhere:
   _QueueSendEvent returns at once.                                             *)
IsExposed ==
    /\ socket.pc = "exposed"
    /\ \/ /\ socket.event.entity \in Ids(FullEntityMap(Cached)) \/ socket.event.entity \notin Listed
          /\ Socket("idle", NoEvent)
          /\ UNCHANGED WorkerGoEvent
       \/ /\ socket.event.entity \in Listed \ Ids(FullEntityMap(Cached))
          /\ WorkerGoEvent' = TRUE
          /\ Socket("await", socket.event)
    /\ UNCHANGED <<ha, worker, asked, cache, delayed, added, batch>>

Awaited ==
    /\ Waiting(socket.pc)
    /\ Socket("idle", NoEvent)
    /\ UNCHANGED <<ha, refresh, added, batch>>

(* ThreadedQueue.Add: into the queue under its lock, and then the event. *)
Add ==
    /\ socket.pc = "add"
    /\ queue' = Append(queue, socket.event.entity)
    /\ Socket("set", NoEvent)
    /\ UNCHANGED <<ha, refresh, ThreadEvent, batch>>

SetThreadEvent ==
    /\ socket.pc = "set"
    /\ ThreadEvent' = TRUE
    /\ Socket("idle", NoEvent)
    /\ UNCHANGED <<ha, refresh, queue, batch>>

-----------------------------------------------------------------------------
(* ThreadedQueue._WorkerThread, and _ProcessEntityRegistryUpdatedEvents.     *)

Batch(to, events) == batch' = [pc |-> to, events |-> events]

(* The queue is looked at and the event cleared under one lock. *)
Check ==
    /\ batch.pc = "check"
    /\ IF queue # << >>
       THEN Batch("collapse", << >>) /\ UNCHANGED ThreadEvent
       ELSE Batch("sleep", << >>) /\ ThreadEvent' = FALSE
    /\ UNCHANGED <<ha, refresh, socket, queue>>

Sleep ==
    /\ batch.pc = "sleep" /\ ThreadEvent
    /\ Batch("check", << >>)
    /\ UNCHANGED <<ha, refresh, socket, added>>

(* After the delays that let more events come: all of the queue. *)
Swap ==
    /\ batch.pc = "collapse"
    /\ Batch("look", queue) /\ queue' = << >>
    /\ UNCHANGED <<ha, refresh, socket, ThreadEvent>>

(* GetEntityById with a forced refresh, for the first of them. *)
Look ==
    /\ batch.pc = "look"
    /\ WorkerGoEvent' = TRUE
    /\ Batch("await", batch.events)
    /\ UNCHANGED <<ha, worker, asked, cache, delayed, socket, added>>

(* The cache was updated, or five seconds are over: the entities that are there and
   exposed need their states.                                                  *)
Found ==
    /\ Waiting(batch.pc)
    /\ LET known == {i \in DOMAIN batch.events :
                       batch.events[i] \in Ids(FullEntityMap(Cached)) \intersect Listed}
       IN IF known = {} THEN Batch("check", << >>) ELSE Batch("states", batch.events)
    /\ UNCHANGED <<ha, refresh, socket, added>>

(* get_states is answered or not, and the events are done with either way; an answer
   that cannot be parsed raises, and they go back in front.                      *)
States ==
    /\ batch.pc = "states"
    /\ Batch("check", << >>)
    /\ \/ UNCHANGED queue
       \/ queue' = batch.events \o queue
    /\ UNCHANGED <<ha, refresh, socket, ThreadEvent>>

-----------------------------------------------------------------------------
SocketStep == TakeEvent \/ IsExposed \/ Awaited \/ Add \/ SetThreadEvent
BatchStep == Check \/ Sleep \/ Swap \/ Look \/ Found \/ States
WorkerStep == ClearAndAsk \/ (WorkerGoEvent /\ WakeUp)

Next ==
    \/ \E event \in Event : Changes(event) \/ StateChanges(event)
    \/ Drop \/ Connect
    \/ WakeUp \/ WorkerStep \/ Handle \/ HandleFails \/ Delayed
    \/ SocketStep \/ BatchStep

Spec == Init /\ [][Next]_vars

(* The threads run, and a question is answered or given up: the answers come in the
   order of the socket, so a storm of events only puts them off. Neither the hourly refresh
   nor anybody's request is counted upon.                                       *)
FairSpec ==
    /\ Spec
    /\ WF_vars(SocketStep) /\ WF_vars(BatchStep) /\ WF_vars(WorkerStep)
    /\ SF_vars(Handle)

-----------------------------------------------------------------------------
(* Properties.                                                               *)

(* The cached tree was made from answers none of which is older than v. *)
Shows(v) == cache # << >> /\ \A k \in Kind : cache[k] # Failed /\ cache[k] >= v

Fails == worker = "failed" \/ (cache # << >> /\ \E k \in Kind : cache[k] = Failed)

(* What an event or a new connection told the hub to look at is in the cached tree in
   the end, however the events, the refresh under way and the threads that wait for it
   fall together, unless answers fail or the connection is lost; and what was queued is
   taken (the comments of _OnStateChangedCallback and of ThreadedQueue._WorkerThread). *)
ChangesTakenUp ==
    /\ told # 0 ~> (Shows(told) \/ Fails \/ ~link)
    /\ []<>(queue = << >>)

(* A tree made from one registry, all of it answered, has every entity of it, with or
   without a device, an area and a floor, and Sage is told of those, and only those,
   that are enabled and exposed (the comments of _HandleAllObjectsResult).       *)
TreeWhole ==
    \A v \in Version :
        (cache # << >> /\ \A k \in Kind : cache[k] = v) =>
            /\ FullEntityMap(Cached) = Registry[v].entities
            /\ \A e \in Registry[v].entities :
                 e \in FilterStateList(Registry[v].entities, cache # << >>, Cached) <=>
                   /\ e.exposed /\ ~e.disabled
                   /\ \A d \in Registry[v].devices : d.id = e.device => ~d.disabled

=============================================================================
