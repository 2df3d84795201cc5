\* The jobs end and the owner need not act: the system may stop.
CHECK_DEADLOCK FALSE
SPECIFICATION Spec
CONSTANTS
  Commits <- TwoGood
  Jobs = {j1, j2}
  Quiet = FALSE
  MaxActs = 3
INVARIANT
  GreenReleaseIsOfItsCommit
