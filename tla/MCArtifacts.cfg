\* The commands end and nobody has to edit: the system may stop.
CHECK_DEADLOCK FALSE
SPECIFICATION Spec
CONSTANTS
  Sources = {s1, s2, empty, unreadable}
  Contracts = {c1, c2}
  Readable = {s1, s2, empty, c1, c2}
  Odd = {}
  Valid <- ValidPairs
  EmptyCalls = {empty}
  Runs = {r1, r2}
  Commands = {"execute", "conformance"}
  Cases = 3
  ClosedCases = {1, 3}
  Exclusive = TRUE
  MaxEdits = 2
  MaxCompiles = 1
  Nobody = Nobody
INVARIANTS
  TypeOK
  DeclaredFixtureOnly
  OneRunPerDirectory
PROPERTIES
  ClosedRunsKeepTheirFiles
  ImplementsSnapshot
SYMMETRY Symmetry
