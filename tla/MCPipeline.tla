----------------------------- MODULE MCPipeline -----------------------------
(***************************************************************************)
(* Instances of Pipeline for TLC, from the case to its verification: with  *)
(* the repository's declarations, and with declarations that disagree with *)
(* the executor's table.                                                   *)
(***************************************************************************)
EXTENDS Pipeline, MCTypecheck

(* The declarations ValidateSource would accept as well: identity has an   *)
(* effect, read_fixture has none, normalize reaches another postcondition. *)
DriftedOperations ==
  [MCOperations EXCEPT !.identity.effects = <<"fixture.read">>,
                       !.read_fixture.effects = <<>>,
                       !.normalize.post = "fixture_read",
                       !.generic_cap.effects = <<"fixture.read", "fixture.read">>]

(* What the proofs about the repository's declarations assume of them.     *)
ASSUME RepositoryAgrees == ConditionsAgree(MCOperations) /\ EffectsAgree(MCOperations)

PipelineCases ==
  [expression : CaseExpressions, target : {"quote", "run"},
   bound : {MCCapabilities, {"compiler.fixture"}}]

PipelineRules == {AllRules}

MCFixtures ==
  LET module == <<"module", "fixture">>
      term   == <<"term", "identity">>
  IN  {<<module, term>>, <<term, <<>>, module>>, <<<<"module", "other">>, term>>,
       <<module, term, module>>, <<module>>, <<module, <<"term", "identity", "extra">>>>,
       <<module, term, <<"import", "fixture">>>>, <<>>}

MCOutput == <<"module:", "fixture", ";term:", "identity">>

MCTraces ==
  LET entries == {<<operation, ExecutedEffect(operation)>> : operation \in ExecutorSteps}
  IN  {<<>>} \cup UNION {[1 .. n -> entries] : n \in 1 .. 3}
=============================================================================
