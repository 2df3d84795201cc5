SPECIFICATION PipelineSpec
CONSTANTS
  Operations <- MCOperations
  Stages <- MCStages
  Origins <- MCOrigins
  Capabilities <- MCCapabilities
  Exprs <- MCExprs
  CaseDecls <- MCCases
  RuleSets <- MCRuleSets
  Expectations <- MCExpectations
  Fixtures <- MCFixtures
  ExpectedOutput <- MCOutput
  Traces <- MCTraces
INVARIANTS
  TypeOK
  SoundState
  CapabilitySafety
  StageSafety
  EffectAccounting
  TypeChain
  UnknownIsActionable
  MoreCapabilities
  IssuedProofsCarryFacts
  NormalizeAfterRead
  EffectsAsTyped
  OnlyRefusedForCause
PROPERTIES
  ImplementsJudgement
  EveryCaseEnds
