\* The walk is over: the system stops.
CHECK_DEADLOCK FALSE
SPECIFICATION Spec
CONSTANTS
  Paths <- MCPaths
  Parent <- MCParent
  Git = ".git"
  InGit = {".git/a.go"}
  Readme = "README.md"
  GoFiles = {".git/a.go", "d/a.go"}
  GoooFiles = {"main.gooo"}
  Generated = {"d/a.go"}
  Directories = {".git", "d"}
  Texts <- MCTexts
  MaxChanges = 2
INVARIANT
  InventoryIsExact
