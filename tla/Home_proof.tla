----------------------------- MODULE Home_proof -----------------------------
(***************************************************************************)
(* Proofs about Home, for every sequence of registries and every number of *)
(* events: the tree loses nothing of a registry, and no thread ever sleeps *)
(* on something that it was told.                                          *)
(*                                                                         *)
(* That what was told is taken up in the end (ChangesTakenUp) is liveness  *)
(* and is left to TLC.  What it rests on is safety and is proved here:     *)
(* no interleaving of the threads loses a wake-up (NeverForgotten).        *)
(***************************************************************************)
EXTENDS Home, TLAPS

(***************************************************************************)
(* The tree                                                                *)
(***************************************************************************)

(* Whatever an entity is in is in the tree.                                  *)
LEMMA InTree ==
  ASSUME NEW r, Consistent(r), NEW e \in r.entities
  PROVE  /\ e \in Entities(r)
         /\ \E d \in Pruned(r) : d.id = e.device /\ d.area \in Ids(PrunedAreas(r))
<1>1. PICK d \in Devices(r) : d.id = e.device
  <2>1. CASE e.device = None
    <3>1. NoneDevice \in Devices(r) /\ NoneDevice.id = None
      BY DEF Devices, NoneDevice
    <3> QED
      BY <2>1, <3>1
  <2>2. CASE e.device # None
    <3>1. PICK d \in r.devices : d.id = e.device
      BY <2>2 DEF Consistent, Ids
    <3>2. d.area \in Ids(Areas(r))
      <4>1. NoneArea.id = None /\ NoneArea \in Areas(r) /\ r.areas \subseteq Areas(r)
        BY DEF NoneArea, Areas
      <4>2. d.area \in Ids(r.areas) \union {None}
        BY <3>1 DEF Consistent
      <4> QED
        BY <4>1, <4>2 DEF Ids
    <3> QED
      BY <3>1, <3>2 DEF Devices
  <2> QED
    BY <2>1, <2>2
<1>2. e \in Entities(r)
  BY <1>1 DEF Entities, Ids
<1>3. d \in Pruned(r)
  BY <1>1, <1>2 DEF Pruned, Below
<1>4. d.area \in Ids(PrunedAreas(r))
  <2>1. CASE d.area = None
    <3>1. NoneArea \in PrunedAreas(r) /\ NoneArea.id = None
      BY <1>3, <2>1 DEF PrunedAreas, Areas, NoneArea
    <3> QED
      BY <2>1, <3>1 DEF Ids
  <2>2. CASE d.area # None
    <3>1. d \in r.devices
      BY <1>1, <2>2 DEF Devices, NoneDevice
    <3>2. PICK a \in r.areas : a.id = d.area
      BY <2>2, <3>1 DEF Consistent, Ids
    <3>3. a \in PrunedAreas(r)
      BY <2>2, <3>2 DEF PrunedAreas, Areas
    <3> QED
      BY <3>2, <3>3 DEF Ids
  <2> QED
    BY <2>1, <2>2
<1> QED
  BY <1>1, <1>2, <1>3, <1>4

LEMMA TreeHasAll ==
  ASSUME NEW r, Consistent(r)
  PROVE  FullEntityMap(r) = r.entities
BY InTree DEF FullEntityMap, Entities

(* Sage is told of an entity when it and its device are enabled and it is
   exposed.                                                                  *)
LEMMA SageIsTold ==
  ASSUME NEW r, Consistent(r), NEW e \in r.entities
  PROVE  e \in FilterStateList(r.entities, TRUE, r) <=>
           /\ e.exposed /\ ~e.disabled
           /\ \A d \in r.devices : d.id = e.device => ~d.disabled
<1>1. e \in FilterStateList(r.entities, TRUE, r) <=> e \in SageFilter(r)
  BY DEF FilterStateList, SageFilter, Ids, FullEntityMap, Entities, Consistent, Unique
<1>2. e \in FullEntityMap(r)
  BY TreeHasAll
<1>3. (\E d \in Pruned(r) : d.id = e.device /\ ~d.disabled)
        <=> \A d \in r.devices : d.id = e.device => ~d.disabled
  <2>1. PICK d \in Pruned(r) : d.id = e.device
    BY InTree
  <2>2. CASE e.device = None
    <3>1. d = NoneDevice
      BY <2>1, <2>2 DEF Pruned, Devices, Consistent, Ids
    <3>2. \A c \in r.devices : c.id # e.device
      BY <2>2 DEF Consistent, Ids
    <3> QED
      BY <2>1, <3>1, <3>2 DEF NoneDevice
  <2>3. CASE e.device # None
    <3>1. \A c \in Pruned(r) : c.id = e.device => c \in r.devices
      BY <2>3 DEF Pruned, Devices, NoneDevice
    <3>2. \A c \in r.devices : c.id = e.device => c = d
      BY <2>1, <3>1 DEF Consistent, Unique
    <3> QED
      BY <2>1, <3>1, <3>2
  <2> QED
    BY <2>2, <2>3
<1> QED
  BY <1>1, <1>2, <1>3 DEF SageFilter

(* A tree made from one registry, all of it answered, has every entity of it, with or
   without a device, an area and a floor, and Sage is told of those, and only those,
   that are enabled and exposed (homecontext.py, _HandleAllObjectsResult).       *)
THEOREM TreeCorrect == Spec => []TreeWhole
<1>1. ASSUME NEW v \in Version, cache # << >>, \A k \in Kind : cache[k] = v
      PROVE  /\ FullEntityMap(Cached) = Registry[v].entities
             /\ \A e \in Registry[v].entities :
                  e \in FilterStateList(Registry[v].entities, cache # << >>, Cached) <=>
                    /\ e.exposed /\ ~e.disabled
                    /\ \A d \in Registry[v].devices : d.id = e.device => ~d.disabled
  <2> DEFINE r == Registry[v]
  <2>1. Consistent(r) /\ v # Failed
    BY RegistryAssumption DEF Failed
  <2>2. Cached = [k \in Kind |-> r[k]]
    BY <1>1, <2>1 DEF Cached
  <2>3. /\ Cached.areas = r.areas /\ Cached.devices = r.devices /\ Cached.entities = r.entities
        /\ Cached.floors = r.floors
    BY <2>2 DEF Kind
  <2>4. Consistent(Cached)
    BY <2>1, <2>3 DEF Consistent
  <2> HIDE DEF r
  <2>5. FullEntityMap(Cached) = r.entities
    BY <2>3, <2>4, TreeHasAll
  <2>6. \A e \in r.entities : e \in FilterStateList(r.entities, TRUE, Cached) <=>
                    /\ e.exposed /\ ~e.disabled
                    /\ \A d \in r.devices : d.id = e.device => ~d.disabled
    BY <2>3, <2>4, SageIsTold
  <2> QED
    BY <1>1, <2>5, <2>6 DEF r
<1>2. TreeWhole
  BY <1>1 DEF TreeWhole
<1> QED
  BY <1>2, PTL

(***************************************************************************)
(* The inductive invariant                                                 *)
(***************************************************************************)

(* Every variable. *)
TypeOK ==
    /\ reg \in Version /\ link \in BOOLEAN /\ inbox \in Seq(Event) /\ told \in 0 .. reg
    /\ WorkerGoEvent \in BOOLEAN
    /\ worker \in {"wait", "clear", "query", "failed"} /\ asked \in 0 .. reg
    /\ cache = << >> \/ cache \in [Kind -> 0 .. reg]
    /\ delayed \in {"none", "same", "moved"}
    /\ socket \in [pc : {"idle", "exposed", "await", "add", "set"}, event : Event \union {NoEvent}]
    /\ socket.pc \in {"exposed", "await", "add"} => socket.event \in Event
    /\ queue \in Seq(Eventful) /\ ThreadEvent \in BOOLEAN
    /\ batch \in [pc : {"check", "sleep", "collapse", "look", "await", "states"}, events : Seq(Eventful)]

(* The worker is about to look, or looks already, at what was told; and the thread of
   the queue is not asleep on an event, unless it is about to be woken.          *)
NeverForgotten ==
    /\ told # 0 => \/ Shows(told) \/ Fails \/ WorkerGoEvent \/ worker = "clear"
                   \/ worker = "query" /\ asked >= told
    /\ queue # << >> => batch.pc # "sleep" \/ ThreadEvent \/ socket.pc = "set"

(* What is told while the worker asks sets the event again.                  *)
AskedAgain == worker = "query" => asked >= told \/ WorkerGoEvent

IInv == TypeOK /\ NeverForgotten /\ AskedAgain

(* Nothing but an answer takes from what the cached tree shows.              *)
LEMMA StillTold ==
  ASSUME IInv, told' = told, cache' = cache,
         WorkerGoEvent => WorkerGoEvent',
         worker' = worker /\ asked' = asked
  PROVE  told' # 0 => \/ Shows(told)' \/ Fails' \/ WorkerGoEvent' \/ worker' = "clear"
                      \/ worker' = "query" /\ asked' >= told'
BY DEF IInv, NeverForgotten, Shows, Fails

LEMMA StillAsked ==
  ASSUME IInv, told' = told, WorkerGoEvent => WorkerGoEvent', worker' = worker /\ asked' = asked
  PROVE  AskedAgain'
BY DEF IInv, AskedAgain

LEMMA QueueSame ==
  ASSUME IInv, UNCHANGED <<queue, ThreadEvent, batch>>, socket.pc = "set" => socket'.pc = "set"
  PROVE  queue' # << >> => batch'.pc # "sleep" \/ ThreadEvent' \/ socket'.pc = "set"
BY DEF IInv, NeverForgotten

LEMMA SocketType ==
  ASSUME NEW to \in {"idle", "exposed", "await", "add", "set"}, NEW event \in Event \union {NoEvent},
         Socket(to, event), to \in {"exposed", "await", "add"} => event \in Event
  PROVE  /\ socket' \in [pc : {"idle", "exposed", "await", "add", "set"}, event : Event \union {NoEvent}]
         /\ socket'.pc = to /\ socket'.event = event
         /\ socket'.pc \in {"exposed", "await", "add"} => socket'.event \in Event
BY DEF Socket

LEMMA BatchType ==
  ASSUME NEW to \in {"check", "sleep", "collapse", "look", "await", "states"}, NEW s \in Seq(Eventful),
         Batch(to, s)
  PROVE  /\ batch' \in [pc : {"check", "sleep", "collapse", "look", "await", "states"}, events : Seq(Eventful)]
         /\ batch'.pc = to
BY DEF Batch

LEMMA InitHolds == Init => IInv
<1> SUFFICES ASSUME Init PROVE IInv
  OBVIOUS
<1>1. \A S : << >> \in Seq(S)
  OBVIOUS
<1>2. 1 \in Version /\ 0 \in 0 .. reg
  BY RegistryAssumption DEF Init
<1>3. TypeOK
  BY <1>1, <1>2 DEF Init, TypeOK
<1>4. NeverForgotten /\ AskedAgain
  BY DEF Init, NeverForgotten, AskedAgain
<1> QED
  BY <1>3, <1>4 DEF IInv

(* Home Assistant, and the connection.                                       *)
LEMMA HomeHolds ==
  ASSUME IInv, Drop \/ Connect \/ \E event \in Event : Changes(event) \/ StateChanges(event)
  PROVE  IInv'
<1>0. TypeOK /\ reg \in Nat
  BY RegistryAssumption DEF IInv, TypeOK
<1>1. ASSUME NEW event \in Event, Changes(event)
      PROVE  IInv'
  <2>1. reg' \in Version /\ reg' = reg + 1
    BY <1>0, <1>1, RegistryAssumption DEF Changes
  <2>2. told' \in 0 .. reg' /\ asked' \in 0 .. reg' /\ 0 .. reg \subseteq 0 .. reg'
    BY <1>0, <1>1, <2>1 DEF TypeOK, Changes, refresh
  <2>3. cache' = << >> \/ cache' \in [Kind -> 0 .. reg']
    BY <1>0, <1>1, <2>2 DEF TypeOK, Changes, refresh
  <2>4. inbox' \in Seq(Event)
    BY <1>0, <1>1 DEF TypeOK, Changes, Incoming
  <2>5. TypeOK'
    BY <1>0, <1>1, <2>1, <2>2, <2>3, <2>4 DEF TypeOK, Changes, refresh, added
  <2> QED
    BY <1>1, <2>5, StillTold, StillAsked, QueueSame DEF IInv, NeverForgotten, Changes, refresh, added
<1>2. ASSUME NEW event \in Event, StateChanges(event)
      PROVE  IInv'
  <2>1. inbox' \in Seq(Event)
    BY <1>0, <1>2 DEF TypeOK, StateChanges, Incoming
  <2>2. TypeOK'
    BY <1>0, <1>2, <2>1 DEF TypeOK, StateChanges, refresh, added
  <2> QED
    BY <1>2, <2>2, StillTold, StillAsked, QueueSame DEF IInv, NeverForgotten, StateChanges, refresh, added
<1>3. CASE Drop
  <2>1. \A S : << >> \in Seq(S)
    OBVIOUS
  <2>2. inbox' \in Seq(Event) /\ link' \in BOOLEAN
    BY <1>3, <2>1 DEF Drop
  <2>3. TypeOK'
    BY <1>0, <1>3, <2>2 DEF TypeOK, Drop, refresh, added
  <2> QED
    BY <1>3, <2>3, StillTold, StillAsked, QueueSame DEF IInv, NeverForgotten, Drop, refresh, added
<1>4. CASE Connect
  <2>1. TypeOK'
    BY <1>0, <1>4 DEF TypeOK, Connect, added
  <2> QED
    BY <1>4, <2>1, QueueSame DEF IInv, NeverForgotten, AskedAgain, Connect, added
<1> QED
  BY <1>1, <1>2, <1>3, <1>4

(* The worker.  Only ClearAndAsk clears the event, and it asks after that.   *)
LEMMA WorkerHolds ==
  ASSUME IInv, WakeUp \/ ClearAndAsk \/ Handle \/ HandleFails \/ Delayed
  PROVE  IInv'
<1>0. TypeOK /\ reg \in Nat
  BY RegistryAssumption DEF IInv, TypeOK
<1>1. CASE WakeUp
  <2>1. TypeOK'
    BY <1>0, <1>1 DEF TypeOK, WakeUp, ha, added
  <2> QED
    BY <1>1, <2>1, QueueSame DEF IInv, NeverForgotten, AskedAgain, WakeUp, added
<1>2. CASE ClearAndAsk
  <2>1. TypeOK'
    <3>1. asked' \in 0 .. reg' /\ worker' = "query"
      BY <1>0, <1>2 DEF ClearAndAsk, ha
    <3>2. WorkerGoEvent' \in BOOLEAN
      BY <1>2 DEF ClearAndAsk
    <3> QED
      BY <1>0, <1>2, <3>1, <3>2 DEF TypeOK, ClearAndAsk, ha, added
  <2>2. worker' = "query" /\ asked' = reg /\ told' = told /\ told <= reg
    BY <1>0, <1>2 DEF TypeOK, ClearAndAsk, ha
  <2> QED
    BY <1>2, <2>1, <2>2, QueueSame DEF IInv, NeverForgotten, AskedAgain, ClearAndAsk, added
<1>3. CASE Handle
  <2>1. /\ cache' \in [Kind -> 0 .. reg] /\ cache' # << >>
        /\ \A k \in Kind : cache'[k] = Failed \/ cache'[k] >= asked
    <3>1. PICK odd \in Kind, v \in asked .. reg \union {Failed}, w \in asked .. reg :
            cache' = [k \in Kind |-> IF k = odd THEN v ELSE w]
      BY <1>3 DEF Handle, Answers
    <3>2. v \in 0 .. reg /\ w \in 0 .. reg /\ (v = Failed \/ v >= asked) /\ w >= asked
      BY <1>0, <3>1 DEF TypeOK, Failed
    <3>3. "floors" \in DOMAIN cache' /\ DOMAIN << >> = {}
      BY <3>1 DEF Kind
    <3> QED
      BY <3>1, <3>2, <3>3
  <2>2. /\ worker = "query" /\ worker' = "wait" /\ asked' = 0 /\ told' = told /\ reg' = reg
        /\ delayed' \in {"none", "same", "moved"}
    BY <1>0, <1>3 DEF TypeOK, Handle, ha
  <2>3. TypeOK'
    BY <1>0, <1>3, <2>1, <2>2 DEF TypeOK, Handle, ha, added
  <2>4. told' # 0 => \/ Shows(told)' \/ Fails' \/ WorkerGoEvent'
    <3>1. CASE \E k \in Kind : cache'[k] = Failed
      BY <2>1, <3>1 DEF Fails
    <3>2. CASE \A k \in Kind : cache'[k] # Failed
      <4>1. asked >= told \/ WorkerGoEvent'
        BY <1>3, <2>2 DEF IInv, AskedAgain, Handle
      <4>2. ASSUME asked >= told
            PROVE  Shows(told)'
        <5>1. \A k \in Kind : cache'[k] >= told'
          <6> TAKE k \in Kind
          <6>1. cache'[k] \in Nat /\ asked \in Nat /\ told \in Nat /\ cache'[k] >= asked
            BY <1>0, <2>1, <3>2 DEF TypeOK
          <6> QED
            BY <2>2, <4>2, <6>1
        <5> QED
          BY <2>1, <3>2, <5>1 DEF Shows
      <4> QED
        BY <4>1, <4>2
    <3> QED
      BY <3>1, <3>2
  <2> QED
    BY <1>3, <2>3, <2>4, QueueSame DEF IInv, NeverForgotten, AskedAgain, Handle, added
<1>4. CASE HandleFails
  <2>1. TypeOK'
    BY <1>0, <1>4 DEF TypeOK, HandleFails, ha, added
  <2>2. Fails'
    BY <1>4 DEF Fails, HandleFails
  <2> QED
    BY <1>4, <2>1, <2>2, QueueSame DEF IInv, NeverForgotten, AskedAgain, HandleFails, added
<1>5. CASE Delayed
  <2>1. TypeOK'
    BY <1>0, <1>5 DEF TypeOK, Delayed, ha, added
  <2> QED
    BY <1>5, <2>1, StillTold, StillAsked, QueueSame DEF IInv, NeverForgotten, Delayed, ha, added
<1> QED
  BY <1>1, <1>2, <1>3, <1>4, <1>5

(* The thread of the socket: what it puts into the queue it wakes for.       *)
LEMMA SocketHolds ==
  ASSUME IInv, SocketStep
  PROVE  IInv'
<1>0. TypeOK /\ reg \in Nat
  BY RegistryAssumption DEF IInv, TypeOK
<1>1. CASE TakeEvent
  <2> DEFINE event == Head(inbox)
             to == IF event.of = "registry" THEN "add" ELSE "exposed"
  <2>1. event \in Event /\ inbox' \in Seq(Event)
    BY <1>0, <1>1 DEF TypeOK, TakeEvent
  <2>2. CASE Socket("exposed", event) /\ UNCHANGED <<WorkerGoEvent, delayed, told>>
    <3>1. /\ socket' \in [pc : {"idle", "exposed", "await", "add", "set"}, event : Event \union {NoEvent}]
          /\ socket'.event \in Event /\ socket.pc = "idle"
      BY <1>1, <2>1, <2>2 DEF Socket, TakeEvent
    <3>2. TypeOK'
      BY <1>0, <1>1, <2>1, <2>2, <3>1 DEF TypeOK, TakeEvent, added
    <3> QED
      BY <1>1, <2>2, <3>1, <3>2, StillTold, StillAsked, QueueSame DEF IInv, NeverForgotten, TakeEvent, added
  <2>3. CASE Callback /\ Socket(to, event)
    <3>1. /\ socket' \in [pc : {"idle", "exposed", "await", "add", "set"}, event : Event \union {NoEvent}]
          /\ socket'.event \in Event /\ socket.pc = "idle"
      BY <1>1, <2>1, <2>3 DEF Socket, TakeEvent
    <3>2. told' \in 0 .. reg' /\ delayed' \in {"none", "same", "moved"} /\ WorkerGoEvent' = TRUE
      BY <1>0, <1>1, <2>3 DEF TypeOK, TakeEvent, Callback
    <3>3. TypeOK'
      BY <1>0, <1>1, <2>1, <3>1, <3>2 DEF TypeOK, TakeEvent, added
    <3> QED
      BY <1>1, <3>1, <3>2, <3>3, QueueSame DEF IInv, NeverForgotten, AskedAgain, TakeEvent, added
  <2> QED
    BY <1>1, <2>2, <2>3 DEF TakeEvent
<1>2. CASE IsExposed
  <2>1. /\ socket.event \in Event /\ socket.pc = "exposed"
        /\ \/ Socket("idle", NoEvent) /\ UNCHANGED WorkerGoEvent
           \/ WorkerGoEvent' = TRUE /\ Socket("await", socket.event)
    BY <1>0, <1>2 DEF TypeOK, IsExposed
  <2>2. /\ socket' \in [pc : {"idle", "exposed", "await", "add", "set"}, event : Event \union {NoEvent}]
        /\ socket'.pc \in {"exposed", "await", "add"} => socket'.event \in Event
    BY <2>1 DEF Socket
  <2>3. WorkerGoEvent' = WorkerGoEvent \/ WorkerGoEvent' = TRUE
    BY <2>1
  <2>a. WorkerGoEvent' \in BOOLEAN
    BY <1>0, <2>3 DEF TypeOK
  <2>b. WorkerGoEvent => WorkerGoEvent'
    BY <2>3
  <2>4. TypeOK'
    BY <1>0, <1>2, <2>2, <2>a DEF TypeOK, IsExposed, ha, added
  <2> QED
    BY <1>2, <2>1, <2>2, <2>b, <2>4, StillTold, StillAsked, QueueSame DEF IInv, NeverForgotten, IsExposed, ha, added
<1>3. CASE Awaited
  <2>1. /\ socket' \in [pc : {"idle", "exposed", "await", "add", "set"}, event : Event \union {NoEvent}]
        /\ socket'.pc = "idle" /\ socket.pc = "await"
    BY <1>3 DEF Socket, Awaited, Waiting
  <2>2. TypeOK'
    BY <1>0, <1>3, <2>1 DEF TypeOK, Awaited, ha, refresh, added
  <2> QED
    BY <1>3, <2>1, <2>2, StillTold, StillAsked, QueueSame
       DEF IInv, NeverForgotten, Awaited, ha, refresh, added
<1>4. CASE Add
  <2>1. /\ socket' \in [pc : {"idle", "exposed", "await", "add", "set"}, event : Event \union {NoEvent}]
        /\ socket'.pc = "set"
    BY <1>4 DEF Socket, Add
  <2>2. queue' \in Seq(Eventful)
    BY <1>0, <1>4 DEF TypeOK, Add, Event
  <2>3. TypeOK'
    BY <1>0, <1>4, <2>1, <2>2 DEF TypeOK, Add, ha, refresh
  <2> QED
    BY <1>4, <2>1, <2>3, StillTold, StillAsked DEF IInv, NeverForgotten, Add, ha, refresh
<1>5. CASE SetThreadEvent
  <2>1. /\ socket' \in [pc : {"idle", "exposed", "await", "add", "set"}, event : Event \union {NoEvent}]
        /\ socket'.pc = "idle"
    BY <1>5 DEF Socket, SetThreadEvent
  <2>2. TypeOK'
    BY <1>0, <1>5, <2>1 DEF TypeOK, SetThreadEvent, ha, refresh
  <2> QED
    BY <1>5, <2>2, StillTold, StillAsked DEF IInv, NeverForgotten, SetThreadEvent, ha, refresh
<1> QED
  BY <1>1, <1>2, <1>3, <1>4, <1>5 DEF SocketStep

(* The thread of the queue: it clears its event only when there is nothing,
   and under one lock with the look at the queue.                            *)
LEMMA BatchHolds ==
  ASSUME IInv, BatchStep
  PROVE  IInv'
<1> DEFINE Pcs == {"check", "sleep", "collapse", "look", "await", "states"}
<1>0. TypeOK /\ reg \in Nat /\ batch.events \in Seq(Eventful) /\ \A S : << >> \in Seq(S)
  BY RegistryAssumption DEF IInv, TypeOK
<1>1. ASSUME batch' \in [pc : Pcs, events : Seq(Eventful)], queue' \in Seq(Eventful), ThreadEvent' \in BOOLEAN,
             WorkerGoEvent' \in BOOLEAN, WorkerGoEvent => WorkerGoEvent',
             UNCHANGED <<ha, worker, asked, cache, delayed, socket>>,
             queue' # << >> => batch'.pc # "sleep" \/ ThreadEvent' \/ socket'.pc = "set"
      PROVE  IInv'
  <2>1. TypeOK'
    BY <1>0, <1>1 DEF TypeOK, ha
  <2> QED
    BY <1>1, <2>1, StillTold, StillAsked DEF IInv, NeverForgotten, ha
<1>2. CASE Check
  <2>1. batch' \in [pc : Pcs, events : Seq(Eventful)] /\ (queue # << >> => batch'.pc = "collapse")
    <3>1. CASE queue # << >>
      BY <1>0, <1>2, <3>1, BatchType DEF Check
    <3>2. CASE queue = << >>
      BY <1>0, <1>2, <3>2, BatchType DEF Check
    <3> QED
      BY <3>1, <3>2
  <2>2. ThreadEvent' \in BOOLEAN
    BY <1>0, <1>2 DEF TypeOK, Check
  <2> QED
    BY <1>0, <1>1, <1>2, <2>1, <2>2 DEF Check, TypeOK, refresh
<1>3. CASE Sleep
  <2>1. batch' \in [pc : Pcs, events : Seq(Eventful)] /\ batch'.pc = "check"
    BY <1>0, <1>3 DEF Sleep, Batch
  <2> QED
    BY <1>0, <1>1, <1>3, <2>1 DEF Sleep, TypeOK, refresh, added
<1>4. CASE Swap
  <2>1. batch' \in [pc : Pcs, events : Seq(Eventful)] /\ queue' = << >> /\ queue' \in Seq(Eventful)
    BY <1>0, <1>4 DEF TypeOK, Swap, Batch
  <2> QED
    BY <1>0, <1>1, <1>4, <2>1 DEF Swap, TypeOK, refresh
<1>5. CASE Look
  <2>1. batch' \in [pc : Pcs, events : Seq(Eventful)] /\ batch'.pc = "await"
    BY <1>0, <1>5 DEF Look, Batch
  <2> QED
    BY <1>0, <1>1, <1>5, <2>1 DEF Look, TypeOK, added
<1>6. CASE Found
  <2>1. Batch("check", << >>) \/ Batch("states", batch.events)
    BY <1>6 DEF Found
  <2>2. batch' \in [pc : Pcs, events : Seq(Eventful)] /\ batch'.pc # "sleep"
    <3>1. CASE Batch("check", << >>)
      BY <1>0, <3>1, BatchType
    <3>2. CASE Batch("states", batch.events)
      BY <1>0, <3>2, BatchType
    <3> QED
      BY <2>1, <3>1, <3>2
  <2> QED
    BY <1>0, <1>1, <1>6, <2>2 DEF Found, TypeOK, refresh, added
<1>7. CASE States
  <2>1. batch' \in [pc : Pcs, events : Seq(Eventful)] /\ batch'.pc = "check"
    BY <1>0, <1>7 DEF States, Batch
  <2>2. queue' \in Seq(Eventful)
    <3>1. batch.events \o queue \in Seq(Eventful)
      BY <1>0 DEF TypeOK
    <3> QED
      BY <1>0, <1>7, <3>1 DEF TypeOK, States
  <2> QED
    BY <1>0, <1>1, <1>7, <2>1, <2>2 DEF States, TypeOK, refresh
<1> QED
  BY <1>2, <1>3, <1>4, <1>5, <1>6, <1>7 DEF BatchStep

LEMMA StepHolds == IInv /\ [Next]_vars => IInv'
<1>1. ASSUME IInv, UNCHANGED vars
      PROVE  IInv'
  BY <1>1 DEF vars, ha, refresh, added, IInv, TypeOK, NeverForgotten, AskedAgain, Shows, Fails
<1> QED
  BY <1>1, HomeHolds, WorkerHolds, SocketHolds, BatchHolds DEF Next, WorkerStep

LEMMA Holds == Spec => []IInv
BY InitHolds, StepHolds, PTL DEF Spec

(* Every variable keeps its type, for any registries and any number of events.
   (homecontext.py, eventhandler.py, threadedqueue.py.)                       *)
THEOREM TypeCorrect == Spec => []TypeOK
<1>1. IInv => TypeOK
  BY DEF IInv
<1> QED
  BY <1>1, Holds, PTL

(* What an event or a new connection told the hub to look at is in the cached tree, or
   the worker will look again without anybody's help, or an answer failed; and the
   thread of the queue never sleeps on an event that nobody will wake it for
   (homecontext.py, _Worker; threadedqueue.py, _WorkerThread).                 *)
THEOREM ForgottenNever == Spec => []NeverForgotten
<1>1. IInv => NeverForgotten
  BY DEF IInv
<1> QED
  BY <1>1, Holds, PTL
=============================================================================
