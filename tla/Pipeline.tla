------------------------------ MODULE Pipeline ------------------------------
(***************************************************************************)
(* From a typechecked case to its verification: the executor that walks    *)
(* the plan of a proof (ExecuteProof, internal/meta/execute.go) and the    *)
(* verifier that compares what it did with the declarations                *)
(* (VerifyExecution, internal/meta/verify.go).  The bindings of a proof to *)
(* source, contract and IR are taken as given; module Artifacts is about   *)
(* them.                                                                   *)
(***************************************************************************)
EXTENDS Typecheck, FiniteSets

CONSTANTS
  Fixtures,        \* the compiler fixtures: sequences of lines, each a sequence of fields
  ExpectedOutput,  \* the output the source declares for the fixture
  Traces           \* the effect traces a case may declare

VARIABLES
  phase,          \* "idle", "running", "executed", "failed", "verified" or "rejected"
  failure,        \* why the executor returned an error
  pc,             \* the number of plan steps done
  readSeen,       \* the flag of the loop
  postcondition,  \* the last postcondition reached
  previousDigest, \* the digest taken before the loop
  result          \* the ExecutionResult

execution == <<phase, failure, pc, readSeen, postcondition, previousDigest, result>>
typechecking == <<caseDecl, rules, stack, work, verdict, proof>>

NoOutput == <<>>
NoDigest == <<>>

(* A digest is as good as what it digests.                                 *)
DigestBytes(bytes) == <<"sha256", bytes>>

-----------------------------------------------------------------------------
(* CompileFixture.                                                         *)

Fields(raw, keyword) == {i \in DOMAIN raw : raw[i] # <<>> /\ raw[i][1] = keyword}

Compilable(raw) ==
  /\ \A i \in DOMAIN raw : raw[i] # <<>> => Len(raw[i]) = 2 /\ raw[i][1] \in {"module", "term"}
  /\ \A keyword \in {"module", "term"} : Cardinality(Fields(raw, keyword)) = 1

CompileFixture(raw) ==
  LET value(keyword) == raw[CHOOSE i \in Fields(raw, keyword) : TRUE][2]
  IN  <<"module:", value("module"), ";term:", value("term")>>

-----------------------------------------------------------------------------
(* The executor's own table of effects and postconditions: the             *)
(* declarations of the source are not consulted again.                     *)

ExecutorSteps == {"identity", "read_fixture", "normalize", "generic_cap", "replay"}

NoEffect == "none"

ExecutedEffect(operation) ==
  CASE operation = "identity" -> NoEffect
    [] operation \in {"read_fixture", "generic_cap"} -> "fixture.read"
    [] operation = "normalize" -> "artifact.normalize"
    [] operation = "replay" -> "replay.verify"

ExecutedPost(operation) ==
  CASE operation = "identity" -> "artifact_stable"
    [] operation \in {"read_fixture", "generic_cap"} -> "fixture_read"
    [] operation = "normalize" -> "fixture_normalized"

Reached(operation) ==
  IF operation = "replay" THEN postcondition ELSE ExecutedPost(operation)

(* Mutant: a step without an effect leaves no trace.                       *)
RecordEffects(operation) ==
  LET effect == ExecutedEffect(operation)
  IN  IF effect = NoEffect THEN result
      ELSE [result EXCEPT !.effects = appendUnique(@, effect),
                          !.trace   = Append(@, <<operation, effect>>)]

(* Mutant: an effect is recorded each time it happens.                     *)
RecordEachTime(operation) ==
  LET effect == ExecutedEffect(operation)
  IN  [result EXCEPT !.effects = IF effect = NoEffect THEN @ ELSE Append(@, effect),
                     !.trace   = Append(@, <<operation, effect>>)]

Record(operation) ==
  LET effect == ExecutedEffect(operation)
  IN  [result EXCEPT !.effects = IF effect = NoEffect THEN @ ELSE appendUnique(@, effect),
                     !.trace   = Append(@, <<operation, effect>>)]

-----------------------------------------------------------------------------
NoResult == [decision |-> "NONE", effects |-> <<>>, trace |-> <<>>,
             output |-> NoOutput, artifactDigest |-> NoDigest]

InitExecution ==
  /\ phase = "idle" /\ failure = "" /\ pc = 0 /\ readSeen = FALSE
  /\ postcondition = "fixture_valid" /\ previousDigest = NoDigest
  /\ result = NoResult

Fail(reason) ==
  /\ phase' = "failed" /\ failure' = reason
  /\ UNCHANGED <<pc, readSeen, postcondition, previousDigest, result>>

Issued == verdict \in Decisions

(* A proof that is not CLOSED is returned as it is.                        *)
SkipExecution ==
  /\ phase = "idle" /\ Issued /\ proof.decision # "CLOSED"
  /\ phase' = "executed"
  /\ result' = [NoResult EXCEPT !.decision = proof.decision]
  /\ UNCHANGED <<failure, pc, readSeen, postcondition, previousDigest>>

(* Mutant: the target must be later than the stage.                        *)
CarriesFactsLater ==
  /\ proof.target > proof.typed.stage
  /\ proof.typed.input # "" /\ proof.typed.output # ""
  /\ proof.typed.pre # <<>> /\ proof.typed.post # <<>>

CarriesFacts ==
  /\ proof.target >= proof.typed.stage
  /\ proof.typed.input # "" /\ proof.typed.output # ""
  /\ proof.typed.pre # <<>> /\ proof.typed.post # <<>>

StartExecution ==
  /\ phase = "idle" /\ Issued /\ proof.decision = "CLOSED"
  /\ IF ~CarriesFacts THEN Fail("facts")
     ELSE \E raw \in Fixtures :
            IF ~Compilable(raw) THEN Fail("fixture")
            ELSE /\ phase' = "running"
                 /\ result' = [NoResult EXCEPT !.decision = "CLOSED",
                                               !.output = CompileFixture(raw)]
                 /\ previousDigest' = DigestBytes(CompileFixture(raw))
                 /\ UNCHANGED <<failure, pc, readSeen, postcondition>>

Running(operation) ==
  /\ phase = "running" /\ pc < Len(Plan) /\ Plan[pc + 1].operation = operation

(* Mutant: generic_cap does not count as a read.                           *)
PerformOneReader(operation) ==
  /\ result' = Record(operation)
  /\ postcondition' = Reached(operation)
  /\ readSeen' = (readSeen \/ operation = "read_fixture")
  /\ pc' = pc + 1
  /\ UNCHANGED <<phase, failure, previousDigest>>

Perform(operation) ==
  /\ result' = Record(operation)
  /\ postcondition' = Reached(operation)
  /\ readSeen' = (readSeen \/ operation \in {"read_fixture", "generic_cap"})
  /\ pc' = pc + 1
  /\ UNCHANGED <<phase, failure, previousDigest>>

StepPlain ==
  \E operation \in {"identity", "read_fixture", "generic_cap"} :
    Running(operation) /\ Perform(operation)

(* Mutant: the precondition of normalize is taken for granted.             *)
StepNormalizeUnchecked == Running("normalize") /\ Perform("normalize")

StepNormalize ==
  /\ Running("normalize")
  /\ IF readSeen THEN Perform("normalize") ELSE Fail("precondition")

StepReplay ==
  /\ Running("replay")
  /\ IF DigestBytes(result.output) = previousDigest
     THEN Perform("replay") ELSE Fail("digest")

StepUnknown ==
  /\ phase = "running" /\ pc < Len(Plan)
  /\ Plan[pc + 1].operation \notin ExecutorSteps
  /\ Fail("step")

FinishExecution ==
  /\ phase = "running" /\ pc = Len(Plan)
  /\ IF postcondition # proof.post THEN Fail("postcondition")
     ELSE /\ phase' = "executed"
          /\ result' = [result EXCEPT !.artifactDigest = DigestBytes(result.output)]
          /\ UNCHANGED <<failure, pc, readSeen, postcondition, previousDigest>>

-----------------------------------------------------------------------------
(* Mutant: the effects of a CLOSED result are not compared.                *)
VerifiedWithoutEffects(trace) ==
  IF proof.decision # "CLOSED" THEN result.decision = proof.decision
  ELSE result.trace = trace /\ result.output = ExpectedOutput

(* VerifyExecution.  The declared trace is first read here.                *)
Verified(trace) ==
  IF proof.decision # "CLOSED"
  THEN /\ proof.decision = "UNKNOWN" => Complete(proof.unknown)
       /\ result.decision = proof.decision
  ELSE /\ result.decision = "CLOSED"
       /\ result.effects = proof.effects
       /\ result.trace = trace
       /\ result.output = ExpectedOutput
       /\ result.artifactDigest = DigestBytes(result.output)

(* Mutant: a rejected execution is finished again.                         *)
VerifyResultAgain ==
  /\ phase = "executed"
  /\ \E trace \in Traces : phase' = IF Verified(trace) THEN "verified" ELSE "running"
  /\ UNCHANGED <<failure, pc, readSeen, postcondition, previousDigest, result>>

VerifyResult ==
  /\ phase = "executed"
  /\ \E trace \in Traces : phase' = IF Verified(trace) THEN "verified" ELSE "rejected"
  /\ UNCHANGED <<failure, pc, readSeen, postcondition, previousDigest, result>>

-----------------------------------------------------------------------------
Execute ==
  /\ \/ SkipExecution \/ StartExecution \/ StepPlain \/ StepNormalize
     \/ StepReplay \/ StepUnknown \/ FinishExecution \/ VerifyResult
  /\ UNCHANGED typechecking

Over == verdict = "error" \/ phase \in {"failed", "verified", "rejected"}

PipelineVars == <<vars, execution>>

PipelineInit == Init /\ InitExecution

PipelineStep == (Typechecking /\ UNCHANGED execution) \/ Execute

PipelineNext == PipelineStep \/ (Over /\ UNCHANGED PipelineVars)

(* One process runs both, without waiting for anything.                    *)
PipelineSpec == PipelineInit /\ [][PipelineNext]_PipelineVars /\ WF_PipelineVars(PipelineStep)

-----------------------------------------------------------------------------
(* Properties.                                                             *)

(* What the typechecker closes, the executor accepts: no issued proof      *)
(* lacks the stage, type and condition facts ExecuteProof insists on.      *)
IssuedProofsCarryFacts == failure # "facts"

(* Only a CLOSED proof makes the executor do anything, and it never leaves *)
(* the plan: what was performed is a prefix of the plan.                   *)
FollowsThePlan ==
  result.trace # <<>> =>
    /\ verdict = "CLOSED" /\ Len(result.trace) = pc /\ pc <= Len(Plan)
    /\ \A i \in 1 .. pc : result.trace[i][1] = Plan[i].operation

(* The two tables agree on the conditions, which nothing in the program    *)
(* checks: the repository's declarations do, and other declarations that   *)
(* ValidateSource accepts do not.                                          *)
ConditionsAgree(operations) ==
  /\ \A id \in DOMAIN operations \cap ExecutorSteps : operations[id].post = ExecutedPost(id)
  /\ "normalize" \in DOMAIN operations => operations["normalize"].pre = "fixture_read"

(* Likewise the effects: at most one for each operation it knows.          *)
EffectsAgree(operations) ==
  \A id \in DOMAIN operations \cap ExecutorSteps :
    operations[id].effects = IF ExecutedEffect(id) = NoEffect THEN <<>> ELSE <<ExecutedEffect(id)>>

(* normalize was only ever performed after a step whose declared           *)
(* postcondition is the precondition that normalize declares.              *)
NormalizeAfterRead ==
  \A j \in DOMAIN result.trace :
    result.trace[j][1] = "normalize" =>
      \E i \in 1 .. j - 1 :
        /\ result.trace[i][1] \in DOMAIN Operations
        /\ Operations[result.trace[i][1]].post = Operations["normalize"].pre

(* A verified CLOSED case has performed every step of its plan, and what   *)
(* all the steps together have done is what is declared of them: the same  *)
(* set of effects, the postcondition of the last operation and the output. *)
(* It is the rows that agree, not the steps, for nothing compares the      *)
(* executor's table with the declarations: where these give identity the   *)
(* effect of read_fixture and read_fixture none, a composition of the two  *)
(* is verified, although neither did what is declared of it.               *)
LastOperation == CHOOSE i \in DOMAIN Plan :
                   /\ Plan[i].operation # "replay"
                   /\ \A j \in DOMAIN Plan : j > i => Plan[j].operation = "replay"

VerifiedAsDeclared ==
  phase = "verified" /\ verdict = "CLOSED" =>
    /\ Len(result.trace) = Len(Plan)
    /\ Range(result.effects) = UNION {StepEffects(step) : step \in Range(Plan)}
    /\ postcondition = Operations[Plan[LastOperation].operation].post
    /\ result.output = ExpectedOutput

(* With the repository's declarations the effects performed are exactly    *)
(* the typed row, in its order: VerifyExecution never rejects a case for   *)
(* its effects.                                                            *)
EffectsAsTyped ==
  /\ verdict = "CLOSED"
  /\ phase \in {"executed", "verified", "rejected"}
  => result.effects = proof.typed.effects

(* The other direction: a CLOSED case whose plan the executor knows, whose *)
(* fixture compiles to the declared output, and whose normalize steps      *)
(* follow a read is not refused before its trace is compared.              *)
ReadFirst ==
  \A j \in DOMAIN Plan : Plan[j].operation = "normalize" =>
    \E i \in 1 .. j - 1 : Plan[i].operation \in {"read_fixture", "generic_cap"}

OnlyRefusedForCause ==
  phase = "failed" =>
    \/ failure = "fixture"
    \/ failure = "precondition" /\ ~ReadFirst
    \/ failure = "step" /\ \E i \in DOMAIN Plan : Plan[i].operation \notin ExecutorSteps

(* Every case is rejected, fails, or is verified: nothing stays half done. *)
EveryCaseEnds == <>Over
=============================================================================
