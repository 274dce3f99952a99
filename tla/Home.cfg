SPECIFICATION FairSpec
CONSTANTS
  ground = "ground"
  room = "room"
  loft = "loft"
  lampDev = "lampDev"
  plugDev = "plugDev"
  lockDev = "lockDev"
  lamp = "lamp"
  plug = "plug"
  helper = "helper"
  lock = "lock"
  Registry <- Registries
  Listed = {"lock"}
  Eventful = {"lock"}
  MaxInbox = 1
INVARIANTS TreeWhole
PROPERTIES ChangesTakenUp
CHECK_DEADLOCK FALSE
