SPECIFICATION Spec
CHECK_DEADLOCK FALSE
CONSTANTS
  c1 = c1
  c2 = c2
  Caller = {c1, c2}
  Socket = Socket
  None = None
  MaxId = 2
  MaxQueue = 1
  MaxDrop = 1
SYMMETRY CallerSymmetry
INVARIANTS AnswersMatch NoLeakedContext IdsUnique
