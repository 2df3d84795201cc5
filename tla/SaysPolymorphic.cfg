SPECIFICATION Spec
CONSTANTS
  Operations <- RepoOperations
  Stages <- MCStages
  Origins <- MCOrigins
  Capabilities <- MCCapabilities
  Exprs <- MCExprs
  CaseDecls <- RepoCases
  RuleSets <- RepoRules
  Expectations <- MCExpectations
INVARIANT
  PolymorphicStepsAreBound
