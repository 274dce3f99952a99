SPECIFICATION FairSpec
CONSTANTS
  lamp = lamp
  lock = lock
  a1 = a1
  a2 = a2
  t1 = t1
  t2 = t2
  Absent = Absent
  Worlds <- SomeWorlds
  Entity = {lamp, lock}
  Timer = {t1, t2}
INVARIANTS OnlyNamedExposed
PROPERTIES ChangeLoaded RestartHandedOn OnlyOwnBanLifted
CHECK_DEADLOCK FALSE
