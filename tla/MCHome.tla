-------------------------------- MODULE MCHome --------------------------------
(* Instances of Home small enough for TLC: a lamp in a room, a plug in a disabled
   device without an area, a helper without a device; then a new lock.          *)
EXTENDS Home

CONSTANTS ground, room, loft, lampDev, plugDev, lockDev, lamp, plug, helper, lock

Device(id, area, disabled) == [id |-> id, area |-> area, disabled |-> disabled]
Entity(id, device, disabled, exposed) ==
    [id |-> id, device |-> device, disabled |-> disabled, exposed |-> exposed]

First ==
    [floors |-> {[id |-> ground]},
     areas |-> {[id |-> room, floor |-> ground], [id |-> loft, floor |-> None]},
     devices |-> {Device(lampDev, room, FALSE), Device(plugDev, None, TRUE)},
     entities |-> {Entity(lamp, lampDev, FALSE, TRUE), Entity(plug, plugDev, FALSE, TRUE),
                   Entity(helper, None, FALSE, FALSE)}]
Second ==
    [First EXCEPT !.devices = @ \union {Device(lockDev, loft, FALSE)},
                  !.entities = @ \union {Entity(lock, lockDev, FALSE, TRUE)}]
Registries == <<First, Second>>
=============================================================================
