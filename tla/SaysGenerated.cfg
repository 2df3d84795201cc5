\* The commands end and nobody has to edit: the system may stop.
CHECK_DEADLOCK FALSE
SPECIFICATION Spec
CONSTANTS
  Sources = {s1, s2}
  Contracts = {c1}
  Readable = {s1, s2, c1}
  Odd = {}
  Valid <- ValidPairs
  EmptyCalls = {}
  Runs = {r1}
  Commands = {"conformance"}
  Cases = 3
  ClosedCases = {1, 3}
  Exclusive = TRUE
  MaxEdits = 1
  MaxCompiles = 0
  Nobody = Nobody
INVARIANT
  GeneratedExecutorIsCompared
