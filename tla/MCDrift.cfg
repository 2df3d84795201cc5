SPECIFICATION PipelineSpec
CONSTANTS
  Operations <- DriftedOperations
  Stages <- MCStages
  Origins <- MCOrigins
  Capabilities <- MCCapabilities
  Exprs <- MCExprs
  CaseDecls <- PipelineCases
  RuleSets <- PipelineRules
  Expectations <- MCExpectations
  Fixtures <- MCFixtures
  ExpectedOutput <- MCOutput
  Traces <- MCTraces
INVARIANTS
  FollowsThePlan
  VerifiedAsDeclared

