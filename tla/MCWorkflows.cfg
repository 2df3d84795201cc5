\* The jobs end and the owner need not act: the system may stop.
CHECK_DEADLOCK FALSE
SPECIFICATION Spec
CONSTANTS
  Commits <- AllCommits
  Jobs = {j1, j2}
  Quiet = TRUE
  MaxActs = 6
INVARIANTS
  GreenReleaseIsOfItsCommit
  ApprovedIsExact
PROPERTIES
  NeverReplaced
  JobsEnd
