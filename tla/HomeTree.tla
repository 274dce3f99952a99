------------------------------- MODULE HomeTree -------------------------------
(***************************************************************************)
(* What the hub makes of the registries of Home Assistant: the tree of     *)
(* floors, areas, devices and entities, the map of the entities in it, and *)
(* those that the local assistant, Sage, is told of                        *)
(* (homecontext.py, _HandleAllObjectsResult).                              *)
(*                                                                         *)
(* A registry is the set of its records. One that could not be had is      *)
(* empty.                                                                  *)
(***************************************************************************)
EXTENDS FiniteSets

None == "none"      \* NoneString: no floor, no area, no device

Ids(records) == {r.id : r \in records}

(* A floor that only an area names is added at the root. *)
Floors(r) == {None} \union Ids(r.floors) \union {a.floor : a \in r.areas}

NoneArea == [id |-> None, floor |-> None]
NoneDevice == [id |-> None, area |-> None, disabled |-> FALSE]

(* The areas are below their floors, whether or not these are known. *)
Areas(r) == {NoneArea} \union r.areas

(* A device of an area that is not known is put into an object of its own, which is
   in no floor: it is not in the tree.                                          *)
Devices(r) == {NoneDevice} \union {d \in r.devices : d.area \in Ids(Areas(r))}
Entities(r) == {e \in r.entities : e.device \in Ids(Devices(r))}

Below(d, r) == {e \in Entities(r) : e.device = d.id}

(* Mutant: the object for entities without a device goes whatever is in it. *)
PrunedAlways(r) == {d \in Devices(r) : d.id # None}

(* The object for entities without a device goes when nothing is in it; the area and
   the floor that are called none go the same way.                              *)
Pruned(r) == {d \in Devices(r) : d.id = None => Below(d, r) # {}}
PrunedAreas(r) == {a \in Areas(r) : a.id = None => \E d \in Pruned(r) : d.area = None}
PrunedFloors(r) == {f \in Floors(r) : f = None => \E a \in PrunedAreas(r) : a.floor = None}

(* FullEntityMap: what is in the tree after pruning. *)
FullEntityMap(r) == {e \in Entities(r) : \E d \in Pruned(r) : d.id = e.device /\ d.area \in Ids(PrunedAreas(r))}

(* SageLiveStateEntityFilter: neither it nor its device is disabled, and the user
   exposes it to conversations.                                                 *)
SageFilter(r) ==
    {e \in FullEntityMap(r) : /\ ~e.disabled /\ e.exposed
                              /\ \E d \in Pruned(r) : d.id = e.device /\ ~d.disabled}

(* _FilterStateList: of the states of all entities those that Sage is given. Before the
   first tree is made there is no filter, and every state passes.               *)
FilterStateList(states, made, r) == {s \in states : made => s.id \in Ids(SageFilter(r))}

=============================================================================
