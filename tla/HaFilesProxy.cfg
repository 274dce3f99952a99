SPECIFICATION Spec
CONSTANTS
  lamp = lamp
  lock = lock
  a1 = a1
  a2 = a2
  t1 = t1
  t2 = t2
  Absent = Absent
  Worlds <- ProxyWorld
  Entity = {lamp, lock}
  Timer = {t1}
INVARIANTS DockerTrusted
CHECK_DEADLOCK FALSE
