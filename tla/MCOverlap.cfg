\* The commands end and nobody has to edit: the system may stop.
CHECK_DEADLOCK FALSE
SPECIFICATION Spec
CONSTANTS
  Sources = {s1, odd, unreadable}
  Contracts = {c1, c2}
  Readable = {s1, odd, c1, c2}
  Odd = {odd}
  Valid <- ValidPairs
  EmptyCalls = {}
  Runs = {r1, r2}
  Commands = {"execute", "conformance"}
  Cases = 2
  ClosedCases = {1}
  Exclusive = FALSE
  MaxEdits = 1
  MaxCompiles = 1
  Nobody = Nobody
INVARIANTS
  AcceptedIsBound
  ReportOnlyIfVerified
PROPERTY
  CommandsEnd
