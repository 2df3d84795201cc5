\* The text may be complete: the system may stop.
CHECK_DEADLOCK FALSE
SPECIFICATION ExprSpec
CONSTANTS
  Letters = {"a"}
  MaxLength = 10
  MaxLengthAny = 7
INVARIANTS
  RoundTrip
  ParserIsExact
  ReloadedUnlessEmptyCall
