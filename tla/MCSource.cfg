\* Nobody has to edit: the system may stop.
CHECK_DEADLOCK FALSE
SPECIFICATION Spec
CONSTANTS
  Original <- MCOriginal
  Extras <- MCExtras
  Respellings <- MCRespellings
  DeclaredContract <- MCContract
  OtherContracts <- MCOtherContracts
  FixedCaseCount = 7
  Atoi <- MCAtoi
  MaxEdits = 2
INVARIANTS
  EnvironmentIsTotal
  OnlyRowsDefault
PROPERTIES
  RepeatsAreRefused
  NeutralEdits
  LaterLineWins
