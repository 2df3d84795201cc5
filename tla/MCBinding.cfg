\* Nobody has to edit or to compile: the system may stop.
CHECK_DEADLOCK FALSE
SPECIFICATION Spec
CONSTANTS
  Cases <- MCCases
  Declarations <- MCDeclarations
  Contracts <- MCContracts
  Accepts <- MCAccepts
  FixedCaseCount = 4
  MaxEdits = 2
INVARIANTS
  OneIRIsAccepted
  ConformanceIsExact
  ExecutedAsDeclared
