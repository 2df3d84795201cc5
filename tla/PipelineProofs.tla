---------------------------- MODULE PipelineProofs ----------------------------
(***************************************************************************)
(* The executor against the proofs the typechecker issues, for all         *)
(* declarations, cases, fixtures and traces: what it insists on they have, *)
(* it walks their plans and nothing else, and what it verifies has been    *)
(* performed as declared.  With conditions on which the executor's table   *)
(* and the declarations agree, it refuses no plan without a cause.         *)
(***************************************************************************)
EXTENDS Pipeline, TypecheckProofs

Readers == {"read_fixture", "generic_cap"}

Entries == ExecutorSteps \X {ExecutedEffect(operation) : operation \in ExecutorSteps}

-----------------------------------------------------------------------------
(* The inductive invariant.                                                *)

(* Once there is a verdict, no call is left that could change it.          *)
Settled == verdict # "pending" => stack = <<>>

(* The executor waits for a proof, and has done nothing until it has one.  *)
Waiting ==
  /\ phase = "idle" => pc = 0 /\ failure = "" /\ readSeen = FALSE /\ result = NoResult
  /\ phase # "idle" => Issued
  /\ phase \in {"running", "executed", "verified", "rejected"} => failure = ""
  /\ phase \in {"idle", "running", "executed", "failed", "verified", "rejected"}

ResultShape ==
  /\ DOMAIN result = DOMAIN NoResult
  /\ result.trace \in Seq(Entries)

(* A proof that is not CLOSED leaves no trace.                             *)
OnlyClosedRuns ==
  /\ verdict # "CLOSED" => result.trace = <<>> /\ failure = ""
  /\ phase = "running" => verdict = "CLOSED"

(* The first pc steps of the plan have been performed, and readSeen tells  *)
(* whether a reader was among them.                                        *)
Walked ==
  verdict = "CLOSED" =>
    /\ pc \in 0 .. Len(Plan) /\ Len(result.trace) = pc
    /\ \A i \in 1 .. pc : result.trace[i][1] = Plan[i].operation
    /\ readSeen <=> \E i \in 1 .. pc : Plan[i].operation \in Readers
    /\ \A j \in 1 .. pc :
         Plan[j].operation = "normalize" =>
           \E i \in 1 .. j - 1 : Plan[i].operation \in Readers

(* The postcondition is that of the last operation performed.              *)
Reaching ==
  verdict = "CLOSED" =>
    \A i \in 1 .. pc :
      Plan[i].operation # "replay" /\ (\A k \in i + 1 .. pc : Plan[k].operation = "replay")
      => postcondition = ExecutedPost(Plan[i].operation)

(* What is executed has reached the end of its plan and the postcondition  *)
(* of its proof; what is verified, its declarations.                       *)
Completed ==
  /\ verdict = "CLOSED" /\ phase \in {"executed", "verified", "rejected"} =>
       pc = Len(Plan) /\ postcondition = proof.post
  /\ verdict = "CLOSED" /\ phase = "verified" =>
       result.effects = proof.effects /\ result.output = ExpectedOutput

(* Why the executor gave up.                                               *)
Refused ==
  /\ phase = "running" => previousDigest = DigestBytes(result.output)
  /\ phase = "failed" =>
       \/ failure = "fixture"
       \/ failure = "precondition" /\ ~ReadFirst
       \/ failure = "step" /\ \E i \in DOMAIN Plan : Plan[i].operation \notin ExecutorSteps
       \/ failure = "postcondition" /\ pc = Len(Plan) /\ postcondition # proof.post

PipelineInv ==
  /\ Inv /\ Settled /\ Waiting /\ ResultShape /\ OnlyClosedRuns /\ Walked
  /\ Reaching /\ Completed /\ Refused

-----------------------------------------------------------------------------
(* The typechecker and the executor take turns.                            *)

(* The typechecker is done when it has given its verdict.                  *)
LEMMA TypecheckingSettles ==
  ASSUME Inv, Settled, Typechecking
  PROVE  verdict = "pending" /\ Settled'
<1>1. CASE RejectCase \/ FinishCase
  BY <1>1 DEF RejectCase, FinishCase, Starting, Finishing, Settled
<1>2. CASE StartCase
  BY <1>2 DEF StartCase, Starting, Settled
<1>3. CASE Check
  <2>1. stack # <<>> /\ verdict' = verdict
    BY <1>3 DEF Check, CheckCompose, CheckInstantiate, CheckStageEscape,
       CheckOriginCapture, CheckUnbound, CheckReplay, CheckOperation, Checking
  <2>2. QED
    BY <2>1 DEF Settled
<1>4. QED
  BY <1>1, <1>2, <1>3 DEF Typechecking

(* An issued proof has a decision, and it is the verdict.                  *)
LEMMA IssuedFacts ==
  ASSUME Inv, Issued
  PROVE  /\ proof \in Proof /\ proof.decision = verdict
         /\ verdict = "CLOSED" =>
              /\ SoundTyping(proof.typed, caseDecl.bound)
              /\ proof.typed.stage <= proof.target
              /\ proof.typed.stage \in Nat /\ proof.target \in Nat
              /\ Plan \in Seq(PlanStep) /\ Len(Plan) \in Nat /\ DOMAIN Plan = 1 .. Len(Plan)
<1>1. proof \in Proof /\ proof.decision = verdict
  BY DEF Inv, SoundState, SoundProof, Issued
<1>2. ASSUME verdict = "CLOSED"
      PROVE  SoundTyping(proof.typed, caseDecl.bound) /\ proof.typed.stage <= proof.target
  BY <1>2, ClosedProof DEF Closed
<1>3. proof.typed.stage \in Nat /\ proof.target \in Nat /\ Plan \in Seq(PlanStep)
  BY <1>1 DEF Proof, Typing, Plan
<1>4. QED
  BY <1>1, <1>2, <1>3, LenProperties

(* Before the first step.                                                  *)
LEMMA NoStepYet ==
  /\ 1 .. 0 = {} /\ Len(<<>>) = 0 /\ NoResult.trace = <<>>
  /\ \A n \in Nat : 0 \in 0 .. n
<1>1. 1 .. 0 = {} /\ \A n \in Nat : 0 \in 0 .. n
  OBVIOUS
<1>2. Len(<<>>) = 0 /\ NoResult.trace = <<>>
  BY DEF NoResult
<1>3. QED
  BY <1>1, <1>2

(* CarriesFacts is never in the way.                                       *)
LEMMA ProofsCarryFacts ==
  ASSUME Inv, Issued, verdict = "CLOSED"
  PROVE  CarriesFacts
<1> DEFINE stage  == proof.typed.stage
           target == proof.target
<1>1. stage \in Nat /\ target \in Nat /\ stage <= target
  BY IssuedFacts
<1>2. target >= stage
  <2> HIDE DEF stage, target
  <2>1. QED
    BY <1>1
<1>3. QED
  BY <1>2, IssuedFacts DEF CarriesFacts, SoundTyping

-----------------------------------------------------------------------------
(* The steps of the executor leave the typechecker alone.                  *)
LEMMA Frozen ==
  ASSUME PipelineInv, UNCHANGED typechecking
  PROVE  /\ Inv' /\ Settled' /\ caseDecl' = caseDecl
         /\ verdict' = verdict /\ proof' = proof /\ Plan' = Plan
<1>1. UNCHANGED vars
  BY DEF typechecking, vars
<1>2. Inv'
  BY <1>1, NextInv DEF PipelineInv
<1>3. QED
  BY <1>2 DEF typechecking, PipelineInv, Settled, Plan

(* A failure leaves everything as it is but the reason.                    *)
LEMMA FailPreserves ==
  ASSUME PipelineInv, UNCHANGED typechecking, NEW reason, Fail(reason),
         phase \in {"idle", "running"}, Issued, verdict = "CLOSED",
         \/ reason = "fixture"
         \/ reason = "precondition" /\ ~ReadFirst
         \/ reason = "step" /\ \E i \in DOMAIN Plan : Plan[i].operation \notin ExecutorSteps
         \/ reason = "postcondition" /\ pc = Len(Plan) /\ postcondition # proof.post
  PROVE  PipelineInv'
<1>1. /\ phase' = "failed" /\ failure' = reason /\ pc' = pc /\ readSeen' = readSeen
      /\ postcondition' = postcondition /\ result' = result
  BY DEF Fail
<1>2. /\ Inv' /\ Settled' /\ verdict' = verdict /\ proof' = proof /\ Plan' = Plan
  BY Frozen
<1>3. Waiting' /\ OnlyClosedRuns' /\ Completed'
  BY <1>1, <1>2 DEF Waiting, OnlyClosedRuns, Completed, Issued, Decisions
<1>4. ResultShape' /\ Walked' /\ Reaching'
  BY <1>1, <1>2 DEF PipelineInv, ResultShape, Walked, Reaching
<1>5. Refused'
  <2>1. ReadFirst' <=> ReadFirst
    BY <1>2 DEF ReadFirst
  <2>2. QED
    BY <1>1, <1>2, <2>1 DEF Refused
<1>6. QED
  BY <1>2, <1>3, <1>4, <1>5 DEF PipelineInv

(* A proof that is not CLOSED is passed on.                                *)
LEMMA SkipPreserves ==
  ASSUME PipelineInv, UNCHANGED typechecking, SkipExecution
  PROVE  PipelineInv'
<1>1. /\ phase = "idle" /\ phase' = "executed" /\ failure' = failure
      /\ result' = [NoResult EXCEPT !.decision = proof.decision]
      /\ Issued /\ verdict # "CLOSED"
  BY IssuedFacts DEF SkipExecution, PipelineInv
<1>2. Inv' /\ Settled' /\ verdict' = verdict
  BY Frozen
<1>3. result'.trace = <<>> /\ DOMAIN result' = DOMAIN NoResult
  BY <1>1 DEF NoResult
<1>4. failure' = ""
  BY <1>1 DEF PipelineInv, Waiting
<1>5. Waiting' /\ OnlyClosedRuns'
  BY <1>1, <1>2, <1>3, <1>4 DEF Waiting, OnlyClosedRuns, Issued
<1>6. ResultShape'
  BY <1>3, EmptySeq DEF ResultShape
<1>7. Walked' /\ Reaching' /\ Completed' /\ Refused'
  BY <1>1, <1>2 DEF Walked, Reaching, Completed, Refused
<1>8. QED
  BY <1>2, <1>5, <1>6, <1>7 DEF PipelineInv

(* The fixture is compiled and the first digest taken.                     *)
LEMMA StartPreserves ==
  ASSUME PipelineInv, UNCHANGED typechecking, StartExecution
  PROVE  PipelineInv'
<1>1. phase = "idle" /\ Issued /\ verdict = "CLOSED" /\ CarriesFacts
  BY IssuedFacts, ProofsCarryFacts DEF StartExecution, PipelineInv
<1>2. CASE Fail("fixture")
  BY <1>1, <1>2, FailPreserves
<1>3. ASSUME NEW output,
             /\ phase' = "running" /\ previousDigest' = DigestBytes(output)
             /\ result' = [NoResult EXCEPT !.decision = "CLOSED", !.output = output]
             /\ UNCHANGED <<failure, pc, readSeen, postcondition>>
      PROVE  PipelineInv'
  <2>1. Inv' /\ Settled' /\ verdict' = verdict /\ Plan' = Plan
    BY Frozen
  <2>2. /\ result'.trace = <<>> /\ DOMAIN result' = DOMAIN NoResult
        /\ result'.output = output
    BY <1>3 DEF NoResult
  <2>3. pc = 0 /\ pc' = 0 /\ failure' = "" /\ readSeen' = FALSE
    BY <1>1, <1>3 DEF PipelineInv, Waiting
  <2>4. Waiting' /\ OnlyClosedRuns' /\ Completed'
    BY <1>1, <1>3, <2>1, <2>3 DEF Waiting, OnlyClosedRuns, Completed, Issued
  <2>5. ResultShape'
    BY <2>2, EmptySeq DEF ResultShape
  <2>6. Walked' /\ Reaching'
    <3>1. Len(Plan) \in Nat /\ Len(result'.trace) = 0
      BY <1>1, <2>2, IssuedFacts DEF PipelineInv
    <3>2. 0 \in 0 .. Len(Plan) /\ 1 .. pc' = {}
      BY <2>3, <3>1, NoStepYet, Zenon
    <3>3. Walked'
      BY <2>1, <2>3, <3>1, <3>2 DEF Walked
    <3>4. Reaching'
      BY <3>2 DEF Reaching
    <3>5. QED
      BY <3>3, <3>4
  <2>7. Refused'
    BY <1>3, <2>2 DEF Refused
  <2>8. QED
    BY <2>1, <2>4, <2>5, <2>6, <2>7 DEF PipelineInv
<1>4. PICK raw \in Fixtures :
        IF ~Compilable(raw) THEN Fail("fixture")
        ELSE /\ phase' = "running"
             /\ result' = [NoResult EXCEPT !.decision = "CLOSED",
                                           !.output = CompileFixture(raw)]
             /\ previousDigest' = DigestBytes(CompileFixture(raw))
             /\ UNCHANGED <<failure, pc, readSeen, postcondition>>
  BY <1>1 DEF StartExecution
<1>5. QED
  BY <1>2, <1>3, <1>4

(* One more step of the plan is performed.                                 *)
LEMMA PerformPreserves ==
  ASSUME PipelineInv, UNCHANGED typechecking, NEW operation \in ExecutorSteps,
         Running(operation), Perform(operation), operation = "normalize" => readSeen
  PROVE  PipelineInv'
<1> DEFINE effect == ExecutedEffect(operation)
           entry  == <<operation, effect>>
           n      == pc + 1
<1>1. /\ phase = "running" /\ pc < Len(Plan) /\ Plan[n].operation = operation
      /\ postcondition' = Reached(operation) /\ pc' = n
      /\ readSeen' = (readSeen \/ operation \in Readers)
      /\ phase' = phase /\ failure' = failure /\ previousDigest' = previousDigest
  BY DEF Running, Perform, Readers
<1>2. verdict = "CLOSED" /\ Issued
  BY <1>1 DEF PipelineInv, OnlyClosedRuns, Waiting
<1>3. /\ Inv' /\ Settled' /\ verdict' = verdict /\ proof' = proof /\ Plan' = Plan
  BY Frozen
<1>4. /\ DOMAIN Plan = 1 .. Len(Plan) /\ Len(Plan) \in Nat
      /\ pc \in 0 .. Len(Plan) /\ Len(result.trace) = pc /\ result.trace \in Seq(Entries)
      /\ \A i \in 1 .. pc : result.trace[i][1] = Plan[i].operation
      /\ readSeen <=> \E i \in 1 .. pc : Plan[i].operation \in Readers
      /\ \A j \in 1 .. pc :
           Plan[j].operation = "normalize" =>
             \E i \in 1 .. j - 1 : Plan[i].operation \in Readers
  BY <1>2, IssuedFacts DEF PipelineInv, Walked, ResultShape
<1>5. /\ n \in 1 .. Len(Plan) /\ n - 1 = pc /\ pc \in Nat
      /\ 1 .. n = 1 .. pc \cup {n}
  BY <1>1, <1>4
<1>6. /\ result'.trace = Append(result.trace, entry)
      /\ result'.output = result.output /\ DOMAIN result' = DOMAIN result
  BY DEF Perform, Record, PipelineInv, ResultShape, NoResult
<1>7. entry \in Entries /\ entry[1] = operation
  BY DEF Entries
<1> HIDE DEF effect, entry
<1>8. /\ result'.trace \in Seq(Entries) /\ Len(result'.trace) = n
      /\ \A i \in 1 .. pc : result'.trace[i] = result.trace[i]
      /\ result'.trace[n] = entry
  BY <1>4, <1>6, <1>7, AppendProperties
<1> HIDE DEF n
<1>9. Waiting' /\ OnlyClosedRuns' /\ Completed'
  BY <1>1, <1>2, <1>3 DEF PipelineInv, Waiting, OnlyClosedRuns, Completed, Issued
<1>10. ResultShape'
  BY <1>6, <1>8 DEF PipelineInv, ResultShape
<1>11. Walked'
  <2>1. \A i \in 1 .. n : result'.trace[i][1] = Plan[i].operation
    BY <1>1, <1>4, <1>5, <1>7, <1>8
  <2>2. readSeen' <=> \E i \in 1 .. n : Plan[i].operation \in Readers
    BY <1>1, <1>4, <1>5
  <2>3. ASSUME NEW j \in 1 .. n, Plan[j].operation = "normalize"
        PROVE  \E i \in 1 .. j - 1 : Plan[i].operation \in Readers
    BY <1>1, <1>4, <1>5, <2>3
  <2>4. n \in 0 .. Len(Plan)
    BY <1>4, <1>5
  <2>5. QED
    BY <1>1, <1>3, <1>8, <2>1, <2>2, <2>3, <2>4 DEF Walked
<1>12. Reaching'
  <2>1. SUFFICES ASSUME NEW i \in 1 .. n, Plan[i].operation # "replay",
                        \A k \in i + 1 .. n : Plan[k].operation = "replay"
                 PROVE  postcondition' = ExecutedPost(Plan[i].operation)
    BY <1>1, <1>3 DEF Reaching
  <2>2. CASE i = n
    BY <1>1, <2>1, <2>2 DEF Reached
  <2>3. CASE i # n
    <3>1. i \in 1 .. pc /\ n \in i + 1 .. n /\ i + 1 .. pc \subseteq i + 1 .. n
      BY <1>4, <1>5, <2>3
    <3>2. operation = "replay"
      BY <1>1, <2>1, <3>1
    <3>3. postcondition' = postcondition
      BY <1>1, <3>2 DEF Reached
    <3>4. QED
      BY <1>2, <2>1, <3>1, <3>3 DEF PipelineInv, Reaching
  <2>4. QED
    BY <2>2, <2>3
<1>13. Refused'
  BY <1>1, <1>6 DEF PipelineInv, Refused
<1>14. QED
  BY <1>3, <1>9, <1>10, <1>11, <1>12, <1>13 DEF PipelineInv

(* An unread fixture stops normalize; then no reader was before it.        *)
LEMMA NormalizePreserves ==
  ASSUME PipelineInv, UNCHANGED typechecking, StepNormalize
  PROVE  PipelineInv'
<1>1. phase = "running" /\ pc < Len(Plan) /\ Plan[pc + 1].operation = "normalize"
  BY DEF StepNormalize, Running
<1>2. verdict = "CLOSED" /\ Issued
  BY <1>1 DEF PipelineInv, OnlyClosedRuns, Waiting
<1>3. CASE readSeen
  <2>1. Perform("normalize")
    BY <1>3 DEF StepNormalize
  <2>2. QED
    BY <1>3, <2>1, PerformPreserves DEF StepNormalize, ExecutorSteps
<1>4. CASE ~readSeen
  <2>1. Fail("precondition")
    BY <1>4 DEF StepNormalize
  <2>2. /\ DOMAIN Plan = 1 .. Len(Plan) /\ Len(Plan) \in Nat /\ pc \in 0 .. Len(Plan)
        /\ ~ \E i \in 1 .. pc : Plan[i].operation \in Readers
    BY <1>2, <1>4, IssuedFacts DEF PipelineInv, Walked
  <2>3. pc + 1 \in DOMAIN Plan /\ pc + 1 - 1 = pc
    BY <1>1, <2>2
  <2>4. ~ReadFirst
    BY <1>1, <2>2, <2>3 DEF ReadFirst, Readers
  <2>5. QED
    BY <1>1, <1>2, <2>1, <2>4, FailPreserves
<1>5. QED
  BY <1>3, <1>4

(* No step changes the output, so that replay finds the digest it expects. *)
LEMMA ReplayPreserves ==
  ASSUME PipelineInv, UNCHANGED typechecking, StepReplay
  PROVE  PipelineInv'
<1>1. Running("replay") /\ phase = "running"
  BY DEF StepReplay, Running
<1>2. DigestBytes(result.output) = previousDigest
  BY <1>1 DEF PipelineInv, Refused
<1>3. Perform("replay")
  BY <1>2 DEF StepReplay
<1>4. QED
  BY <1>1, <1>3, PerformPreserves DEF ExecutorSteps

(* The end of the plan.                                                    *)
LEMMA FinishPreserves ==
  ASSUME PipelineInv, UNCHANGED typechecking, FinishExecution
  PROVE  PipelineInv'
<1>1. phase = "running" /\ pc = Len(Plan)
  BY DEF FinishExecution
<1>2. verdict = "CLOSED" /\ Issued
  BY <1>1 DEF PipelineInv, OnlyClosedRuns, Waiting
<1>3. CASE postcondition # proof.post
  <2>1. Fail("postcondition")
    BY <1>3 DEF FinishExecution
  <2>2. QED
    BY <1>1, <1>2, <1>3, <2>1, FailPreserves
<1>4. CASE postcondition = proof.post
  <2>1. /\ phase' = "executed" /\ failure' = failure /\ pc' = pc /\ readSeen' = readSeen
        /\ postcondition' = postcondition
        /\ result' = [result EXCEPT !.artifactDigest = DigestBytes(result.output)]
    BY <1>4 DEF FinishExecution
  <2>2. /\ Inv' /\ Settled' /\ verdict' = verdict /\ proof' = proof /\ Plan' = Plan
    BY Frozen
  <2>3. result'.trace = result.trace /\ DOMAIN result' = DOMAIN result
    BY <2>1
  <2>4. ResultShape' /\ Walked' /\ Reaching'
    BY <2>1, <2>2, <2>3 DEF PipelineInv, ResultShape, Walked, Reaching
  <2>5. Waiting' /\ OnlyClosedRuns'
    BY <1>1, <1>2, <2>1, <2>2 DEF PipelineInv, Waiting, OnlyClosedRuns, Issued
  <2>6. Completed' /\ Refused'
    BY <1>1, <1>4, <2>1, <2>2 DEF Completed, Refused
  <2>7. QED
    BY <2>2, <2>4, <2>5, <2>6 DEF PipelineInv
<1>5. QED
  BY <1>3, <1>4

(* The verifier accepts only what is as declared.                          *)
LEMMA VerifyPreserves ==
  ASSUME PipelineInv, UNCHANGED typechecking, VerifyResult
  PROVE  PipelineInv'
<1>1. PICK trace \in Traces : phase' = IF Verified(trace) THEN "verified" ELSE "rejected"
  BY DEF VerifyResult
<1>2. /\ phase = "executed" /\ failure' = failure /\ pc' = pc /\ readSeen' = readSeen
      /\ postcondition' = postcondition /\ result' = result
  BY DEF VerifyResult
<1>3. /\ Inv' /\ Settled' /\ verdict' = verdict /\ proof' = proof /\ Plan' = Plan
  BY Frozen
<1>4. ResultShape' /\ Walked' /\ Reaching'
  BY <1>2, <1>3 DEF PipelineInv, ResultShape, Walked, Reaching
<1>5. Waiting' /\ OnlyClosedRuns' /\ Refused'
  BY <1>1, <1>2, <1>3 DEF PipelineInv, Waiting, OnlyClosedRuns, Refused, Issued
<1>6. Completed'
  <2>1. verdict = "CLOSED" => pc = Len(Plan) /\ postcondition = proof.post
    BY <1>2 DEF PipelineInv, Completed
  <2>2. ASSUME verdict = "CLOSED", phase' = "verified"
        PROVE  result.effects = proof.effects /\ result.output = ExpectedOutput
    <3>1. proof.decision = "CLOSED"
      BY <1>2, <2>2, IssuedFacts DEF PipelineInv, Waiting
    <3>2. Verified(trace)
      BY <1>1, <2>2
    <3>3. QED
      BY <3>1, <3>2 DEF Verified
  <2>3. QED
    BY <1>2, <1>3, <2>1, <2>2 DEF Completed
<1>7. QED
  BY <1>3, <1>4, <1>5, <1>6 DEF PipelineInv

(* PipelineInv is inductive.                                               *)
LEMMA ExecutePreserves == PipelineInv /\ Execute => PipelineInv'
<1>1. SUFFICES ASSUME PipelineInv, Execute PROVE PipelineInv'
  OBVIOUS
<1>2. UNCHANGED typechecking
  BY <1>1 DEF Execute
<1>3. CASE StepPlain
  BY <1>1, <1>2, <1>3, PerformPreserves DEF StepPlain, ExecutorSteps
<1>4. CASE StepUnknown
  <2>1. /\ phase = "running" /\ pc < Len(Plan)
        /\ Plan[pc + 1].operation \notin ExecutorSteps /\ Fail("step")
    BY <1>4 DEF StepUnknown
  <2>2. verdict = "CLOSED" /\ Issued
    BY <1>1, <2>1 DEF PipelineInv, OnlyClosedRuns, Waiting
  <2>3. pc + 1 \in DOMAIN Plan
    BY <1>1, <2>1, <2>2, IssuedFacts DEF PipelineInv, Walked
  <2>4. QED
    BY <1>1, <1>2, <2>1, <2>2, <2>3, FailPreserves
<1>5. QED
  BY <1>1, <1>2, <1>3, <1>4, SkipPreserves, StartPreserves, NormalizePreserves,
     ReplayPreserves, FinishPreserves, VerifyPreserves DEF Execute

LEMMA TypecheckingPreserves ==
  ASSUME PipelineInv, Typechecking, UNCHANGED execution
  PROVE  PipelineInv'
<1>1. verdict = "pending" /\ Settled'
  BY TypecheckingSettles DEF PipelineInv
<1>2. Inv'
  BY NextInv DEF PipelineInv, Next
<1>3. phase = "idle"
  BY <1>1 DEF PipelineInv, Waiting, Issued, Decisions
<1>4. /\ pc = 0 /\ failure = "" /\ readSeen = FALSE /\ result = NoResult
      /\ phase' = "idle" /\ pc' = 0 /\ failure' = "" /\ readSeen' = FALSE
      /\ result' = NoResult
  BY <1>3 DEF PipelineInv, Waiting, execution
<1>5. NoResult.trace = <<>> /\ 1 .. pc' = {}
  BY <1>4, NoStepYet, Zenon
<1>6. Waiting' /\ ResultShape' /\ OnlyClosedRuns' /\ Completed' /\ Refused'
  BY <1>4, <1>5, EmptySeq DEF Waiting, ResultShape, OnlyClosedRuns, Completed, Refused
<1>7. Walked'
  <2>1. SUFFICES ASSUME verdict' = "CLOSED"
                 PROVE  pc' \in 0 .. Len(Plan') /\ Len(result'.trace) = pc'
    BY <1>4, <1>5 DEF Walked
  <2>2. proof' \in Proof
    BY <1>2, <2>1 DEF Inv, SoundState, SoundProof, Decisions
  <2>3. Plan' \in Seq(PlanStep)
    BY <2>2 DEF Proof, Typing, Plan
  <2>4. Len(Plan') \in Nat
    BY <2>3, LenProperties
  <2>5. QED
    BY <1>4, <2>4, NoStepYet, Zenon
<1>8. Reaching'
  BY <1>5 DEF Reaching
<1>9. QED
  BY <1>1, <1>2, <1>6, <1>7, <1>8 DEF PipelineInv

LEMMA PipelineAlways == PipelineSpec => []PipelineInv
<1>1. PipelineInit => PipelineInv
  <2>1. SUFFICES ASSUME PipelineInit PROVE PipelineInv
    OBVIOUS
  <2>2. Inv /\ Settled /\ verdict = "pending"
    BY <2>1, InitInv DEF PipelineInit, Init, Settled
  <2>3. Waiting /\ ResultShape /\ OnlyClosedRuns /\ Walked /\ Reaching /\ Completed /\ Refused
    BY <2>1, <2>2, EmptySeq DEF PipelineInit, InitExecution, Waiting, ResultShape,
       OnlyClosedRuns, Walked, Reaching, Completed, Refused, NoResult
  <2>4. QED
    BY <2>2, <2>3 DEF PipelineInv
<1>2. PipelineInv /\ [PipelineNext]_PipelineVars => PipelineInv'
  <2>1. SUFFICES ASSUME PipelineInv, [PipelineNext]_PipelineVars PROVE PipelineInv'
    OBVIOUS
  <2>2. CASE UNCHANGED PipelineVars
    <3>1. /\ UNCHANGED vars /\ UNCHANGED <<phase, failure, pc, readSeen, postcondition,
                                           previousDigest, result>>
      BY <2>2 DEF PipelineVars, execution
    <3>2. UNCHANGED typechecking
      BY <3>1 DEF vars, typechecking
    <3>3. /\ Inv' /\ Settled' /\ verdict' = verdict /\ proof' = proof /\ Plan' = Plan
      BY <2>1, <3>2, Frozen
    <3>4. ReadFirst' <=> ReadFirst
      BY <3>3 DEF ReadFirst
    <3>5. QED
      BY <2>1, <3>1, <3>3, <3>4 DEF PipelineInv, Waiting, ResultShape, OnlyClosedRuns, Walked,
         Reaching, Completed, Refused, Issued
  <2>3. QED
    BY <2>1, <2>2, ExecutePreserves, TypecheckingPreserves DEF PipelineNext, PipelineStep
<1>3. QED
  BY <1>1, <1>2, PTL DEF PipelineSpec

-----------------------------------------------------------------------------
(* Executing and verifying (ExecuteProof, VerifyExecution) leave what      *)
(* TypecheckCase has decided alone, so whatever is true of each run of the *)
(* typechecker by itself is true of the whole pipeline.                    *)
THEOREM PipelineTypechecks == PipelineSpec => SafeSpec
<1>1. PipelineInit => Init
  BY DEF PipelineInit
<1>2. [PipelineNext]_PipelineVars => [Next]_vars
  <2>1. Execute => UNCHANGED vars
    BY DEF Execute, typechecking, vars
  <2>2. UNCHANGED PipelineVars => UNCHANGED vars
    BY DEF PipelineVars
  <2>3. QED
    BY <2>1, <2>2 DEF PipelineNext, PipelineStep, Next
<1>3. QED
  BY <1>1, <1>2, PTL DEF PipelineSpec, SafeSpec

(* A proof on its way to the executor and the verifier keeps what the      *)
(* typechecker promises of it: its capabilities are bound, its stages are  *)
(* reached in time, its effects accounted for and its plan a chain.        *)
THEOREM ProofsStaySafe ==
  PipelineSpec => [](CapabilitySafety /\ StageSafety /\ EffectAccounting /\ TypeChain)
BY PipelineTypechecks, CapabilitiesAreBound, StagesAreReached, EffectsAreAccounted,
   PlansAreChains, PTL

-----------------------------------------------------------------------------
(* Every proof that the typechecker closes has the stage, type and         *)
(* condition facts that ExecuteProof insists on.                           *)
THEOREM ProofsAreExecutable == PipelineSpec => []IssuedProofsCarryFacts
<1>1. PipelineInv => IssuedProofsCarryFacts
  <2>1. SUFFICES ASSUME PipelineInv, failure = "facts" PROVE FALSE
    BY DEF IssuedProofsCarryFacts
  <2>2. phase \notin {"idle", "running", "executed", "verified", "rejected"}
    BY <2>1 DEF PipelineInv, Waiting
  <2>3. phase # "failed"
    BY <2>1 DEF PipelineInv, Refused
  <2>4. phase \in {"idle", "running", "executed", "verified", "rejected", "failed"}
    BY <2>1 DEF PipelineInv, Waiting
  <2>5. QED
    BY <2>2, <2>3, <2>4
<1>2. QED
  BY <1>1, PipelineAlways, PTL

(* The executor performs the steps of a CLOSED plan in their order, and    *)
(* nothing for any other proof.                                            *)
THEOREM PlansAreFollowed == PipelineSpec => []FollowsThePlan
<1>1. PipelineInv => FollowsThePlan
  <2>1. SUFFICES ASSUME PipelineInv, result.trace # <<>> PROVE FollowsThePlan
    BY DEF FollowsThePlan
  <2>2. verdict = "CLOSED"
    BY <2>1 DEF PipelineInv, OnlyClosedRuns
  <2>3. Len(Plan) \in Nat /\ pc \in 0 .. Len(Plan)
    BY <2>1, <2>2, IssuedFacts DEF PipelineInv, Walked, Issued, Decisions
  <2>4. pc <= Len(Plan)
    BY <2>3
  <2>5. QED
    BY <2>1, <2>2, <2>4 DEF PipelineInv, Walked, FollowsThePlan
<1>2. QED
  BY <1>1, PipelineAlways, PTL

(* The last operation of a plan is well defined, and its postcondition is  *)
(* that of the proof.                                                      *)
LEMMA LastFacts ==
  ASSUME Inv, verdict = "CLOSED"
  PROVE  /\ LastOperation \in DOMAIN Plan /\ Plan[LastOperation].operation # "replay"
         /\ \A j \in DOMAIN Plan : j > LastOperation => Plan[j].operation = "replay"
         /\ Operations[Plan[LastOperation].operation].post = proof.post
<1>1. /\ Chained(proof.typed) /\ proof.post = proof.typed.post[Len(proof.typed.post)]
  BY ClosedProof DEF Closed, SoundTyping
<1>2. DOMAIN Plan = 1 .. Len(Plan) /\ Len(Plan) \in Nat
  BY IssuedFacts DEF Issued, Decisions
<1>3. PICK i \in DOMAIN Plan : Last(Plan, i) /\ OperationAt(Plan, i).post = proof.post
  BY <1>1 DEF Chained, Plan
<1> DEFINE IsLast(k) == /\ Plan[k].operation # "replay"
                        /\ \A j \in DOMAIN Plan : j > k => Plan[j].operation = "replay"
           last == CHOOSE k \in DOMAIN Plan : IsLast(k)
<1>4. IsLast(i)
  BY <1>2, <1>3 DEF Last, OperationSteps
<1>5. last \in DOMAIN Plan /\ IsLast(last)
  <2> HIDE DEF IsLast
  <2>1. QED
    BY <1>4
<1>6. LastOperation = last
  BY DEF LastOperation
<1> HIDE DEF last
<1>7. last = i
  BY <1>2, <1>3, <1>5 DEF Last, OperationSteps
<1>8. QED
  BY <1>3, <1>5, <1>6, <1>7 DEF OperationAt

(* A verified CLOSED case has performed its whole plan, to the             *)
(* postcondition of its last operation and the declared output, and all    *)
(* its steps taken together had the effects declared, whether or not the   *)
(* tables agree (a step by itself may have had others).                    *)
THEOREM WhatIsVerifiedIsDeclared == PipelineSpec => []VerifiedAsDeclared
<1>1. PipelineInv => VerifiedAsDeclared
  <2>1. SUFFICES ASSUME PipelineInv, phase = "verified", verdict = "CLOSED"
                 PROVE  VerifiedAsDeclared
    BY DEF VerifiedAsDeclared
  <2>2. /\ pc = Len(Plan) /\ postcondition = proof.post
        /\ result.effects = proof.effects /\ result.output = ExpectedOutput
    BY <2>1 DEF PipelineInv, Completed
  <2>3. Len(result.trace) = Len(Plan)
    BY <2>1, <2>2 DEF PipelineInv, Walked
  <2>4. Range(proof.effects) = UNION {StepEffects(step) : step \in Range(Plan)}
    BY <2>1, ClosedProof DEF PipelineInv, Closed, SoundTyping, Plan
  <2>5. Operations[Plan[LastOperation].operation].post = proof.post
    BY <2>1, LastFacts DEF PipelineInv
  <2>6. QED
    BY <2>2, <2>3, <2>4, <2>5 DEF VerifiedAsDeclared
<1>2. QED
  BY <1>1, PipelineAlways, PTL

-----------------------------------------------------------------------------
(* What was performed is known to the executor and, but for replay, is     *)
(* declared.                                                               *)
LEMMA PerformedFacts ==
  ASSUME PipelineInv, verdict = "CLOSED", NEW i \in 1 .. pc
  PROVE  /\ i \in DOMAIN Plan /\ Plan[i].operation \in ExecutorSteps
         /\ Plan[i].operation # "replay" => Plan[i].operation \in DOMAIN Operations
<1>1. /\ DOMAIN Plan = 1 .. Len(Plan) /\ Len(Plan) \in Nat /\ Plan \in Seq(PlanStep)
      /\ pc \in 0 .. Len(Plan) /\ Len(result.trace) = pc /\ result.trace \in Seq(Entries)
      /\ result.trace[i][1] = Plan[i].operation
  BY IssuedFacts DEF PipelineInv, Walked, ResultShape, Issued, Decisions
<1>2. i \in DOMAIN Plan
  BY <1>1
<1>3. result.trace[i] \in Entries
  BY <1>1, ElementOfSeq
<1>4. Plan[i] \in PlanStep
  BY <1>1, <1>2, ElementOfSeq
<1>5. QED
  BY <1>1, <1>2, <1>3, <1>4 DEF Entries, PlanStep

(* If the tables agree on the conditions, normalize is only performed      *)
(* after a step that declares the condition normalize declares to need.    *)
THEOREM ReadsComeFirst ==
  ASSUME ConditionsAgree(Operations)
  PROVE  PipelineSpec => []NormalizeAfterRead
<1>1. ASSUME PipelineInv, NEW j \in DOMAIN result.trace, result.trace[j][1] = "normalize"
      PROVE  \E i \in 1 .. j - 1 :
               /\ result.trace[i][1] \in DOMAIN Operations
               /\ Operations[result.trace[i][1]].post = Operations["normalize"].pre
  <2>1. verdict = "CLOSED"
    <3>1. DOMAIN <<>> = {}
      OBVIOUS
    <3>2. QED
      BY <1>1, <3>1 DEF PipelineInv, OnlyClosedRuns
  <2>2. /\ j \in 1 .. pc /\ pc \in Nat
        /\ \A i \in 1 .. pc : result.trace[i][1] = Plan[i].operation
    <3>1. /\ pc \in 0 .. Len(Plan) /\ Len(Plan) \in Nat /\ Len(result.trace) = pc
          /\ result.trace \in Seq(Entries)
      BY <1>1, <2>1, IssuedFacts DEF PipelineInv, Walked, ResultShape, Issued, Decisions
    <3>2. DOMAIN result.trace = 1 .. pc
      BY <3>1, LenProperties
    <3>3. QED
      BY <1>1, <2>1, <3>1, <3>2 DEF PipelineInv, Walked
  <2>3. Plan[j].operation = "normalize"
    BY <1>1, <2>2
  <2>4. PICK i \in 1 .. j - 1 : Plan[i].operation \in Readers
    BY <1>1, <2>1, <2>2, <2>3 DEF PipelineInv, Walked
  <2>5. i \in 1 .. pc
    BY <2>2, <2>4
  <2>6. /\ Plan[i].operation \in DOMAIN Operations \cap ExecutorSteps
        /\ "normalize" \in DOMAIN Operations
    BY <1>1, <2>1, <2>2, <2>3, <2>4, <2>5, PerformedFacts DEF Readers
  <2>7. Operations[Plan[i].operation].post = Operations["normalize"].pre
    BY <2>4, <2>6 DEF ConditionsAgree, ExecutedPost, Readers
  <2>8. QED
    BY <2>2, <2>4, <2>5, <2>6, <2>7
<1>2. PipelineInv => NormalizeAfterRead
  BY <1>1 DEF NormalizeAfterRead
<1>3. QED
  BY <1>2, PipelineAlways, PTL

(* If the tables agree on the conditions, the executor refuses a CLOSED    *)
(* case only for a fixture that does not compile, a normalize step before  *)
(* any read, or an operation it does not know.                             *)
THEOREM RefusalsHaveCause ==
  ASSUME ConditionsAgree(Operations)
  PROVE  PipelineSpec => []OnlyRefusedForCause
<1>1. ASSUME PipelineInv, verdict = "CLOSED", pc = Len(Plan) PROVE postcondition = proof.post
  <2> DEFINE i == LastOperation
  <2>1. /\ i \in 1 .. pc /\ Plan[i].operation # "replay"
        /\ \A j \in DOMAIN Plan : j > i => Plan[j].operation = "replay"
        /\ Operations[Plan[i].operation].post = proof.post
        /\ DOMAIN Plan = 1 .. pc /\ pc \in Nat
    <3>1. Issued
      BY <1>1 DEF Issued, Decisions
    <3>2. DOMAIN Plan = 1 .. pc /\ pc \in Nat
      BY <1>1, <3>1, IssuedFacts DEF PipelineInv
    <3>3. QED
      BY <1>1, <3>2, LastFacts DEF PipelineInv
  <2> HIDE DEF i
  <2>2. \A k \in i + 1 .. pc : Plan[k].operation = "replay"
    BY <2>1
  <2>3. postcondition = ExecutedPost(Plan[i].operation)
    BY <1>1, <2>1, <2>2 DEF PipelineInv, Reaching
  <2>4. Plan[i].operation \in DOMAIN Operations \cap ExecutorSteps
    BY <1>1, <2>1, PerformedFacts
  <2>5. QED
    BY <2>1, <2>3, <2>4 DEF ConditionsAgree
<1>2. PipelineInv => OnlyRefusedForCause
  <2>1. SUFFICES ASSUME PipelineInv, phase = "failed" PROVE OnlyRefusedForCause
    BY DEF OnlyRefusedForCause
  <2>2. verdict = "CLOSED"
    BY <2>1 DEF PipelineInv, OnlyClosedRuns, Refused
  <2>3. QED
    BY <1>1, <2>1, <2>2 DEF PipelineInv, Refused, OnlyRefusedForCause
<1>3. QED
  BY <1>2, PipelineAlways, PTL

-----------------------------------------------------------------------------
(* The row of effects.  What compose and replay put together, the executor *)
(* collects again step by step: both are the same loop over the plan.      *)

EffectIds == Text \cup {ExecutedEffect(operation) : operation \in ExecutorSteps}

RowAfter(row, operation) ==
  LET effect == ExecutedEffect(operation)
  IN  IF effect = NoEffect THEN row ELSE appendUnique(row, effect)

(* g holds the row after each step of a plan.                              *)
Recorded(g, plan) ==
  /\ g \in [0 .. Len(plan) -> Seq(EffectIds)]
  /\ g[0] = <<>>
  /\ \A i \in 1 .. Len(plan) : g[i] = RowAfter(g[i - 1], plan[i].operation)

Known(plan) == \A i \in DOMAIN plan : plan[i].operation \in ExecutorSteps

(* The effects of a typing are those the executor collects.                *)
InOrder(typed) ==
  Known(typed.plan) =>
    \E g : Recorded(g, typed.plan) /\ typed.effects = g[Len(typed.plan)]

OrderedWork(value) == value.decision = "CLOSED" => InOrder(value.typed)

LEMMA RowAfterType ==
  ASSUME NEW row \in Seq(EffectIds), NEW operation \in ExecutorSteps
  PROVE  RowAfter(row, operation) \in Seq(EffectIds)
<1>1. ExecutedEffect(operation) \in EffectIds
  BY DEF EffectIds
<1>2. QED
  BY <1>1, AppendUniqueLemma DEF RowAfter

(* An effect is there already in the second row, in the first one, or in   *)
(* neither: the order of the rows does not matter.                         *)
LEMMA RowAfterUnion ==
  ASSUME NEW left \in Seq(EffectIds), NEW right \in Seq(EffectIds),
         NEW operation \in ExecutorSteps
  PROVE  union(left, RowAfter(right, operation)) = RowAfter(union(left, right), operation)
<1> DEFINE effect == ExecutedEffect(operation)
<1>1. effect \in EffectIds
  BY DEF EffectIds
<1>2. /\ RowAfter(right, operation) = IF effect = NoEffect THEN right ELSE appendUnique(right, effect)
      /\ RowAfter(union(left, right), operation)
           = IF effect = NoEffect THEN union(left, right)
             ELSE appendUnique(union(left, right), effect)
  BY DEF RowAfter
<1> HIDE DEF effect
<1>3. CASE effect = NoEffect
  BY <1>2, <1>3
<1>4. CASE effect # NoEffect /\ effect \in Range(right)
  <2>1. effect \in Range(union(left, right))
    BY <1>4, UnionLemma
  <2>2. QED
    BY <1>2, <1>4, <2>1 DEF appendUnique
<1>5. CASE effect # NoEffect /\ effect \notin Range(right)
  <2>1. union(left, Append(right, effect)) = appendUnique(union(left, right), effect)
    BY <1>1, UnionAppend
  <2>2. QED
    BY <1>2, <1>5, <2>1 DEF appendUnique
<1>6. QED
  BY <1>3, <1>4, <1>5

(* An operation by itself has the effect of its single step.               *)
LEMMA OrderedLeaf ==
  ASSUME EffectsAgree(Operations), NEW id \in DOMAIN Operations, NEW instantiated, NEW caps
  PROVE  OrderedWork(leafWork(id, instantiated, caps))
<1> DEFINE leaf == leafWork(id, instantiated, caps)
           effect == ExecutedEffect(id)
           none == <<>>
<1>1. CASE missing(Operations[id], caps) # {}
  BY <1>1 DEF leafWork, capabilityUnknown, OrderedWork
<1>2. CASE missing(Operations[id], caps) = {}
  <2> DEFINE required == requirement(Operations[id], instantiated)
             step == [operation |-> id, capability |-> first(required)]
             plan == <<step>>
             row == unique(Operations[id].effects)
  <2>1. leaf.typed.plan = plan /\ leaf.typed.effects = row
    BY <1>2 DEF leafWork, closedWork
  <2>2. plan[1].operation = id /\ Len(plan) = 1 /\ DOMAIN plan = {1}
    OBVIOUS
  <2> HIDE DEF plan, leaf, row
  <2>3. SUFFICES ASSUME id \in ExecutorSteps
                 PROVE  \E g : Recorded(g, plan) /\ row = g[Len(plan)]
    BY <2>1, <2>2 DEF OrderedWork, InOrder, Known, leaf
  <2>4. none \in Seq(EffectIds) /\ RowAfter(none, id) \in Seq(EffectIds)
    BY <2>3, EmptySeq, RowAfterType
  <2>5. row = RowAfter(none, id)
    <3>1. Operations[id].effects = IF effect = NoEffect THEN none ELSE <<effect>>
      BY <2>3 DEF EffectsAgree
    <3>2. row = Operations[id].effects
      <4>1. Operations[id].effects \in Seq(Text)
        BY OperationFacts
      <4>2. "" \in Text
        BY DEF Text
      <4>3. union(Operations[id].effects, <<>>) = Operations[id].effects
        BY <4>1, <4>2, UnionShort
      <4>4. QED
        BY <4>3 DEF row, unique
    <3>3. Range(none) = {} /\ Append(none, effect) = <<effect>>
      BY DEF Range
    <3> HIDE DEF none
    <3>4. QED
      BY <3>1, <3>2, <3>3 DEF RowAfter, appendUnique
  <2> DEFINE g == [i \in 0 .. 1 |-> IF i = 0 THEN none ELSE row]
  <2> HIDE DEF none
  <2>6. g \in [0 .. 1 -> Seq(EffectIds)] /\ g[0] = none /\ g[1] = row
    BY <2>4, <2>5
  <2> HIDE DEF g
  <2>7. Recorded(g, plan)
    BY <2>2, <2>5, <2>6 DEF Recorded, none
  <2>8. QED
    BY <2>2, <2>6, <2>7
<1>3. QED
  BY <1>1, <1>2

(* The rows of two plans after each other.                                 *)
LEMMA RecordedTwo ==
  ASSUME NEW p \in Seq(PlanStep), NEW q \in Seq(PlanStep), NEW f, NEW g,
         Recorded(f, p), Recorded(g, q), Known(q)
  PROVE  \E h : Recorded(h, p \o q) /\ h[Len(p \o q)] = union(f[Len(p)], g[Len(q)])
<1> DEFINE m == Len(p)
           n == Len(q)
           pq == p \o q
           left == f[m]
           h == [i \in 0 .. m + n |-> IF i <= m THEN f[i] ELSE union(left, g[i - m])]
<1>1. /\ m \in Nat /\ n \in Nat /\ DOMAIN q = 1 .. n
      /\ DOMAIN pq = 1 .. m + n
      /\ \A i \in 1 .. m : pq[i] = p[i]
      /\ \A i \in 1 .. n : pq[m + i] = q[i]
  BY PlacesOfTwo
<1>2. Len(pq) = m + n
  BY <1>1, ConcatProperties
<1> HIDE DEF m, n, pq
<1>3. /\ \A i \in 0 .. m : f[i] \in Seq(EffectIds)
      /\ f[0] = <<>> /\ \A i \in 1 .. m : f[i] = RowAfter(f[i - 1], p[i].operation)
  BY DEF Recorded, m
<1>4. /\ \A i \in 0 .. n : g[i] \in Seq(EffectIds)
      /\ g[0] = <<>> /\ \A i \in 1 .. n : g[i] = RowAfter(g[i - 1], q[i].operation)
  BY DEF Recorded, n
<1>5. left \in Seq(EffectIds)
  BY <1>1, <1>3
<1> HIDE DEF left
<1>6. \A i \in 0 .. n : union(left, g[i]) \in Seq(EffectIds)
  BY <1>4, <1>5, UnionLemma
<1>7. h \in [0 .. m + n -> Seq(EffectIds)]
  <2>1. ASSUME NEW i \in 0 .. m + n, i > m PROVE i - m \in 0 .. n
    BY <1>1, <2>1
  <2>2. ASSUME NEW i \in 0 .. m + n, i <= m PROVE i \in 0 .. m
    BY <1>1, <2>2
  <2>3. QED
    BY <1>1, <1>3, <1>6, <2>1, <2>2
<1>8. /\ \A i \in 0 .. m : h[i] = f[i]
      /\ \A i \in 1 .. n : h[m + i] = union(left, g[i])
  BY <1>1
<1>9. h[m] = union(left, g[0])
  <2>1. "" \in EffectIds
    BY DEF EffectIds, Text
  <2>2. union(left, <<>>) = left
    BY <1>5, <2>1, UnionShort
  <2>3. h[m] = f[m]
    BY <1>1, <1>8
  <2>4. QED
    BY <1>4, <2>2, <2>3 DEF left
<1> HIDE DEF h
<1>10. ASSUME NEW i \in 1 .. m + n PROVE h[i] = RowAfter(h[i - 1], pq[i].operation)
  <2>1. CASE i <= m
    <3>1. i \in 1 .. m /\ i \in 0 .. m /\ i - 1 \in 0 .. m
      BY <1>1, <2>1
    <3>2. QED
      BY <1>1, <1>3, <1>8, <3>1
  <2>2. CASE i > m
    <3> DEFINE j == i - m
    <3>1. j \in 1 .. n /\ j \in Nat /\ i = m + j /\ i - 1 = m + (j - 1) /\ j - 1 \in 0 .. n
      BY <1>1, <2>2
    <3> HIDE DEF j
    <3>2. h[i] = union(left, g[j]) /\ pq[i] = q[j]
      BY <1>1, <1>8, <3>1
    <3>3. h[i - 1] = union(left, g[j - 1])
      <4>1. CASE j = 1
        BY <1>1, <1>9, <3>1, <4>1
      <4>2. CASE j # 1
        <5>1. j - 1 \in 1 .. n
          BY <1>1, <3>1, <4>2
        <5>2. QED
          BY <1>8, <3>1, <5>1
      <4>3. QED
        BY <4>1, <4>2
    <3>4. g[j] = RowAfter(g[j - 1], q[j].operation) /\ g[j - 1] \in Seq(EffectIds)
      BY <1>4, <3>1
    <3>5. q[j].operation \in ExecutorSteps
      BY <1>1, <3>1 DEF Known
    <3> DEFINE before == g[j - 1]
               operation == q[j].operation
    <3>6. before \in Seq(EffectIds) /\ operation \in ExecutorSteps
      BY <3>4, <3>5
    <3> HIDE DEF before, operation
    <3>7. union(left, RowAfter(before, operation)) = RowAfter(union(left, before), operation)
      BY <1>5, <3>6, RowAfterUnion
    <3>8. QED
      BY <3>2, <3>3, <3>4, <3>7 DEF before, operation
  <2>3. QED
    BY <1>1, <2>1, <2>2
<1>11. h[0] = <<>>
  BY <1>1, <1>3, <1>8
<1>12. Recorded(h, pq)
  BY <1>2, <1>7, <1>10, <1>11 DEF Recorded
<1>13. h[m + n] = union(f[m], g[n])
  <2>1. CASE n = 0
    BY <1>1, <1>9, <2>1 DEF left
  <2>2. CASE n # 0
    <3>1. n \in 1 .. n
      BY <1>1, <2>2
    <3>2. QED
      BY <1>8, <3>1 DEF left
  <2>3. QED
    BY <2>1, <2>2
<1>14. QED
  BY <1>2, <1>12, <1>13 DEF pq, m, n

(* compose.                                                                *)
LEMMA OrderedCompose ==
  ASSUME NEW left \in Work, NEW right \in Work, NEW rs,
         OrderedWork(left), OrderedWork(right)
  PROVE  OrderedWork(composeWork(left, right, rs))
<1> DEFINE both == composeWork(left, right, rs)
           p == left.typed.plan
           q == right.typed.plan
<1>1. CASE left.decision # "CLOSED" \/ right.decision # "CLOSED"
  BY <1>1 DEF composeWork, mergeNonClosed, OrderedWork
<1>2. CASE left.decision = "CLOSED" /\ right.decision = "CLOSED" /\ both # refutedWork
  <2>1. both = closedWork(Sequential(left.typed, right.typed))
    BY <1>2 DEF composeWork
  <2>2. /\ both.typed.plan = p \o q
        /\ both.typed.effects = union(left.typed.effects, right.typed.effects)
    <3> DEFINE typed == Sequential(left.typed, right.typed)
    <3>1. both.typed = typed
      BY <2>1 DEF closedWork
    <3>2. typed.plan = p \o q /\ typed.effects = union(left.typed.effects, right.typed.effects)
      BY DEF Sequential
    <3> HIDE DEF typed, both
    <3>3. QED
      BY <3>1, <3>2
  <2>3. p \in Seq(PlanStep) /\ q \in Seq(PlanStep)
    BY DEF Work, Typing
  <2>4. InOrder(left.typed) /\ InOrder(right.typed)
    BY <1>2 DEF OrderedWork
  <2> HIDE DEF both, p, q
  <2>5. SUFFICES ASSUME Known(p \o q)
                 PROVE  \E h : Recorded(h, p \o q) /\ both.typed.effects = h[Len(p \o q)]
    BY <2>2 DEF OrderedWork, InOrder, both
  <2>6. Known(p) /\ Known(q)
    <3>1. /\ Len(p) \in Nat /\ Len(q) \in Nat
          /\ DOMAIN p = 1 .. Len(p) /\ DOMAIN q = 1 .. Len(q)
          /\ DOMAIN (p \o q) = 1 .. Len(p) + Len(q)
          /\ \A i \in 1 .. Len(p) : (p \o q)[i] = p[i]
          /\ \A i \in 1 .. Len(q) : (p \o q)[Len(p) + i] = q[i]
      BY <2>3, PlacesOfTwo
    <3>2. ASSUME NEW i \in DOMAIN p PROVE p[i].operation \in ExecutorSteps
      <4>1. i \in DOMAIN (p \o q) /\ (p \o q)[i] = p[i]
        BY <3>1
      <4>2. QED
        BY <2>5, <4>1 DEF Known
    <3>3. ASSUME NEW i \in DOMAIN q PROVE q[i].operation \in ExecutorSteps
      <4>1. Len(p) + i \in DOMAIN (p \o q) /\ (p \o q)[Len(p) + i] = q[i]
        BY <3>1
      <4>2. QED
        BY <2>5, <4>1 DEF Known
    <3>4. QED
      BY <3>2, <3>3 DEF Known
  <2>7. PICK f : Recorded(f, p) /\ left.typed.effects = f[Len(p)]
    BY <2>4, <2>6 DEF InOrder, p
  <2>8. PICK g : Recorded(g, q) /\ right.typed.effects = g[Len(q)]
    BY <2>4, <2>6 DEF InOrder, q
  <2>9. PICK h : Recorded(h, p \o q) /\ h[Len(p \o q)] = union(f[Len(p)], g[Len(q)])
    BY <2>3, <2>6, <2>7, <2>8, RecordedTwo
  <2>10. QED
    BY <2>2, <2>7, <2>8, <2>9
<1>3. CASE both = refutedWork
  BY <1>3 DEF refutedWork, OrderedWork
<1>4. QED
  BY <1>1, <1>2, <1>3

(* replay appends its own step and effect.                                 *)
LEMMA OrderedReplay ==
  ASSUME NEW before \in Work, NEW rs, OrderedWork(before)
  PROVE  OrderedWork(replayWork(before, rs))
<1> DEFINE after == replayWork(before, rs)
           p == before.typed.plan
           n == Len(p)
           q == Append(p, replayStep)
           effects == union(before.typed.effects, <<"replay.verify">>)
<1>1. CASE before.decision # "CLOSED" \/ "replay" \notin rs
  BY <1>1 DEF replayWork, refutedWork, OrderedWork
<1>2. CASE before.decision = "CLOSED" /\ "replay" \in rs
  <2>1. /\ after.typed.plan = q /\ after.typed.effects = effects
    <3>1. before.typed \in Typing
      BY DEF Work
    <3>2. QED
      BY <1>2, <3>1 DEF replayWork, closedWork, Typing
  <2>2. p \in Seq(PlanStep) /\ InOrder(before.typed)
    BY <1>2 DEF Work, Typing, OrderedWork
  <2>3. /\ n \in Nat /\ DOMAIN p = 1 .. n /\ DOMAIN q = 1 .. n + 1 /\ Len(q) = n + 1
        /\ \A i \in 1 .. n : q[i] = p[i]
        /\ q[n + 1] = replayStep
    BY <2>2, ReplayStepFacts, AppendProperties, LenProperties
  <2> HIDE DEF after, p, n, q, effects
  <2>4. SUFFICES ASSUME Known(q)
                 PROVE  \E h : Recorded(h, q) /\ effects = h[Len(q)]
    BY <2>1 DEF OrderedWork, InOrder, after
  <2>5. Known(p)
    BY <2>3, <2>4 DEF Known
  <2>6. PICK g : Recorded(g, p) /\ before.typed.effects = g[n]
    BY <2>2, <2>5 DEF InOrder, p, n
  <2>7. /\ \A i \in 0 .. n : g[i] \in Seq(EffectIds)
        /\ g[0] = <<>> /\ \A i \in 1 .. n : g[i] = RowAfter(g[i - 1], p[i].operation)
    BY <2>6 DEF Recorded, n
  <2>8. effects = RowAfter(g[n], "replay")
    <3>0. n \in 0 .. n /\ "replay.verify" \in EffectIds
      BY <2>3 DEF EffectIds, Text
    <3>1. "replay.verify" \in EffectIds /\ g[n] \in Seq(EffectIds)
      BY <2>7, <3>0
    <3>2. union(g[n], <<"replay.verify">>) = appendUnique(g[n], "replay.verify")
      BY <3>1, UnionShort
    <3>3. ExecutedEffect("replay") = "replay.verify" /\ NoEffect # "replay.verify"
      BY DEF ExecutedEffect, NoEffect
    <3>4. QED
      BY <2>6, <3>2, <3>3 DEF effects, RowAfter
  <2>9. effects \in Seq(EffectIds)
    <3>1. g[n] \in Seq(EffectIds) /\ "replay" \in ExecutorSteps
      BY <2>3, <2>7 DEF ExecutorSteps
    <3>2. QED
      BY <2>8, <3>1, RowAfterType
  <2> DEFINE h == [i \in 0 .. n + 1 |-> IF i = n + 1 THEN effects ELSE g[i]]
  <2>10. h \in [0 .. n + 1 -> Seq(EffectIds)]
    <3>1. \A i \in 0 .. n + 1 : i # n + 1 => i \in 0 .. n
      BY <2>3
    <3>2. QED
      BY <2>7, <2>9, <3>1
  <2>11. h[n + 1] = effects /\ \A i \in 0 .. n : h[i] = g[i]
    BY <2>3
  <2> HIDE DEF h
  <2>12. ASSUME NEW i \in 1 .. n + 1 PROVE h[i] = RowAfter(h[i - 1], q[i].operation)
    <3>1. CASE i = n + 1
      <4>1. i - 1 = n /\ n \in 0 .. n /\ q[i].operation = "replay"
        BY <2>3, <3>1, ReplayStepFacts
      <4>2. QED
        BY <2>8, <2>11, <3>1, <4>1
    <3>2. CASE i # n + 1
      <4>1. i \in 1 .. n /\ i \in 0 .. n /\ i - 1 \in 0 .. n
        BY <2>3, <3>2
      <4>2. QED
        BY <2>3, <2>7, <2>11, <4>1
    <3>3. QED
      BY <3>1, <3>2
  <2>13. h[0] = <<>>
    BY <2>3, <2>7, <2>11
  <2>14. Recorded(h, q)
    BY <2>3, <2>10, <2>12, <2>13 DEF Recorded
  <2>15. QED
    BY <2>3, <2>11, <2>14
<1>3. QED
  BY <1>1, <1>2

-----------------------------------------------------------------------------
(* Every work that a call holds has its effects in order.                  *)
Ordered ==
  /\ \A k \in DOMAIN stack : \A i \in DOMAIN stack[k].works : OrderedWork(stack[k].works[i])
  /\ work # NoWork => OrderedWork(work)
  /\ verdict = "CLOSED" => InOrder(proof.typed)

(* A step of checkExpression calls, or returns a work that is in order.    *)
OrderedStep ==
  \/ \E expr \in Exprs, caps \in SUBSET Capabilities : Call(expr, caps)
  \/ \E value \in Work : OrderedWork(value) /\ Return(value)

LEMMA CallsAndReturns ==
  ASSUME EffectsAgree(Operations), Inv, Ordered, Check
  PROVE  Local /\ stack # <<>> /\ OrderedStep
<1> DEFINE args  == Top.expr.args
           caps  == Top.caps
           works == Top.works
           n     == Len(stack)
<1>1. Local /\ stack # <<>>
  BY CheckingLocal DEF Check, CheckCompose, CheckInstantiate, CheckStageEscape,
     CheckOriginCapture, CheckUnbound, CheckReplay, CheckOperation
<1>2. /\ args \in Seq(Exprs) /\ caps \in SUBSET Capabilities /\ works \in Seq(Work)
      /\ n \in DOMAIN stack
  BY <1>1, TopFacts DEF FrameType
<1>3. /\ Len(works) \in Nat /\ DOMAIN works = 1 .. Len(works)
      /\ works = <<>> <=> Len(works) = 0
  <2> HIDE DEF works
  <2>1. QED
    BY <1>2, LenProperties, EmptySeq
<1>4. ASSUME NEW i \in DOMAIN works PROVE works[i] \in Work /\ OrderedWork(works[i])
  <2>1. works[i] \in Work
    BY <1>2
  <2>2. OrderedWork(works[i])
    BY <1>2 DEF Ordered, Top
  <2>3. QED
    BY <2>1, <2>2
<1>5. ASSUME NEW i \in 1 .. Len(args), NEW handed \in SUBSET Capabilities,
             Call(args[i], handed)
      PROVE  OrderedStep
  <2> DEFINE next == args[i]
  <2>1. next \in Exprs
    BY <1>2, <1>5, ElementOfSeq
  <2>2. Call(next, handed)
    BY <1>5
  <2> HIDE DEF next
  <2>3. QED
    BY <2>1, <2>2 DEF OrderedStep
<1>6. ASSUME NEW value, Sound(value, caps), OrderedWork(value), Return(value)
      PROVE  OrderedStep
  BY <1>6 DEF Sound, OrderedStep
<1>7. OrderedWork(refutedWork) /\ OrderedWork(capabilityUnknown("replay.fixture"))
  BY DEF OrderedWork, refutedWork, capabilityUnknown
<1>8. ASSUME Return(refutedWork) PROVE OrderedStep
  BY <1>6, <1>7, <1>8, RefutedSound
<1>9. ASSUME CheckCompose PROVE OrderedStep
  <2>1. CASE Len(args) = 2 /\ Len(works) < 2 /\ Call(args[Len(works) + 1], caps)
    <3>1. Len(works) + 1 \in 1 .. Len(args)
      BY <1>3, <2>1
    <3>2. QED
      BY <1>2, <1>5, <2>1, <3>1
  <2>2. CASE Len(works) = 2 /\ Return(composeWork(works[1], works[2], rules))
    <3> DEFINE value == composeWork(works[1], works[2], rules)
    <3>1. 1 \in DOMAIN works /\ 2 \in DOMAIN works
      BY <1>3, <2>2
    <3>2. OrderedWork(value)
      BY <1>4, <3>1, OrderedCompose
    <3>3. Sound(value, caps)
      BY <1>1, <3>1, TopFacts, ComposeSound
    <3> HIDE DEF value
    <3>4. Return(value)
      BY <2>2 DEF value
    <3>5. QED
      BY <1>6, <3>2, <3>3, <3>4
  <2>3. QED
    BY <1>8, <1>9, <2>1, <2>2 DEF CheckCompose
<1>10. ASSUME CheckInstantiate PROVE OrderedStep
  <2>1. OrderedWork(instantiateWork(args, caps, rules))
    BY OrderedLeaf DEF instantiateWork, refutedWork, capabilityUnknown, OrderedWork
  <2>2. Sound(instantiateWork(args, caps, rules), caps)
    BY <1>2, InstantiateSound
  <2>3. QED
    BY <1>6, <1>10, <2>1, <2>2 DEF CheckInstantiate
<1>11. ASSUME CheckStageEscape PROVE OrderedStep
  <2>1. OrderedWork(stageEscapeWork(args, caps, rules))
    BY OrderedLeaf DEF stageEscapeWork, refutedWork, OrderedWork
  <2>2. Sound(stageEscapeWork(args, caps, rules), caps)
    BY <1>2, StageEscapeSound
  <2>3. QED
    BY <1>6, <1>11, <2>1, <2>2 DEF CheckStageEscape
<1>12. ASSUME CheckOriginCapture PROVE OrderedStep
  <2>1. OrderedWork(originCaptureWork(args, caps, rules))
    BY OrderedLeaf DEF originCaptureWork, refutedWork, OrderedWork
  <2>2. Sound(originCaptureWork(args, caps, rules), caps)
    BY <1>2, OriginCaptureSound
  <2>3. QED
    BY <1>6, <1>12, <2>1, <2>2 DEF CheckOriginCapture
<1>13. ASSUME CheckUnbound PROVE OrderedStep
  <2>1. CASE Len(args) = 1 /\ Call(args[1], {})
    <3>1. 1 \in 1 .. Len(args)
      BY <2>1
    <3>2. QED
      BY <1>5, <2>1, <3>1
  <2>2. CASE works # <<>> /\ Return(works[1])
    <3>1. 1 \in DOMAIN works
      BY <1>3, <2>2
    <3>2. QED
      BY <1>4, <2>2, <3>1 DEF OrderedStep
  <2>3. QED
    BY <1>8, <1>13, <2>1, <2>2 DEF CheckUnbound
<1>14. ASSUME CheckReplay PROVE OrderedStep
  <2>1. CASE Return(capabilityUnknown("replay.fixture"))
    <3>1. "replay.fixture" \in Text
      BY DEF Text
    <3>2. QED
      BY <1>6, <1>7, <2>1, <3>1, UnknownSound
  <2>2. CASE Len(args) = 1 /\ Call(args[1], caps)
    <3>1. 1 \in 1 .. Len(args)
      BY <2>2
    <3>2. QED
      BY <1>2, <1>5, <2>2, <3>1
  <2>3. CASE /\ "replay.fixture" \in caps /\ works # <<>>
             /\ Return(replayWork(works[1], rules))
    <3>1. 1 \in DOMAIN works
      BY <1>3, <2>3
    <3>2. Sound(replayWork(works[1], rules), caps)
      BY <1>1, <2>3, <3>1, TopFacts, ReplaySound
    <3>3. OrderedWork(replayWork(works[1], rules))
      BY <1>4, <3>1, OrderedReplay
    <3>4. QED
      BY <1>6, <2>3, <3>2, <3>3
  <2>4. QED
    BY <1>8, <1>14, <2>1, <2>2, <2>3 DEF CheckReplay
<1>15. ASSUME CheckOperation PROVE OrderedStep
  <2>1. OrderedWork(operationWork(Top.expr.name, caps))
    BY OrderedLeaf DEF operationWork, refutedWork, OrderedWork
  <2>2. Sound(operationWork(Top.expr.name, caps), caps)
    BY <1>2, OperationSound
  <2>3. QED
    BY <1>6, <1>15, <2>1, <2>2 DEF CheckOperation
<1>16. QED
  BY <1>1, <1>9, <1>10, <1>11, <1>12, <1>13, <1>14, <1>15 DEF Check

LEMMA CallOrders ==
  ASSUME Inv, Local, Ordered, NEW expr \in Exprs, NEW caps \in SUBSET Capabilities,
         Call(expr, caps)
  PROVE  Ordered'
<1> DEFINE n == Len(stack)
           none == <<>>
           frame == [expr |-> expr, caps |-> caps, works |-> none]
<1>1. /\ stack \in Seq(FrameType) /\ none \in Seq(Work) /\ DOMAIN none = {}
      /\ stack' = Append(stack, frame) /\ work' = work /\ verdict' = verdict /\ proof' = proof
  BY EmptySeq DEF Inv, TypeOK, Call, Local
<1> HIDE DEF none
<1>2. frame \in FrameType /\ DOMAIN frame.works = {}
  BY <1>1 DEF FrameType
<1> HIDE DEF frame
<1>3. /\ n \in Nat /\ DOMAIN stack = 1 .. n /\ DOMAIN stack' = 1 .. n + 1
      /\ \A k \in 1 .. n : stack'[k] = stack[k]
      /\ stack'[n + 1] = frame
  BY <1>1, <1>2, AppendProperties, LenProperties
<1>4. ASSUME NEW k \in DOMAIN stack', NEW i \in DOMAIN stack'[k].works
      PROVE  OrderedWork(stack'[k].works[i])
  <2>1. k \in 1 .. n \/ k = n + 1
    BY <1>3
  <2>2. k # n + 1
    BY <1>2, <1>3
  <2>3. QED
    BY <1>3, <2>1, <2>2 DEF Ordered
<1>5. QED
  BY <1>1, <1>4 DEF Ordered

LEMMA ReturnOrders ==
  ASSUME Inv, Local, Ordered, stack # <<>>, NEW value \in Work, OrderedWork(value),
         Return(value)
  PROVE  Ordered'
<1> DEFINE n == Len(stack)
           m == n - 1
<1>1. Returned(value, n, m)
  BY ReturnFacts
<1>2. verdict' = verdict /\ proof' = proof
  BY DEF Local
<1>3. CASE n = 1
  <2>1. stack' = <<>> /\ work' = value
    BY <1>1, <1>3 DEF Returned
  <2>2. DOMAIN stack' = {}
    BY <2>1
  <2>3. QED
    BY <1>2, <2>1, <2>2 DEF Ordered
<1>4. CASE n # 1
  <2> DEFINE l == Len(stack[m].works)
  <2>1. /\ DOMAIN stack = 1 .. n /\ m \in 1 .. m /\ 1 .. m \subseteq 1 .. n
        /\ Given(value, m, l)
    BY <1>1, <1>4 DEF Returned
  <2>2. /\ DOMAIN stack' = 1 .. m
        /\ \A k \in 1 .. m : k # m => stack'[k] = stack[k]
        /\ work' = work
        /\ l \in Nat /\ DOMAIN stack[m].works = 1 .. l /\ DOMAIN stack'[m].works = 1 .. l + 1
        /\ \A i \in 1 .. l : stack'[m].works[i] = stack[m].works[i]
        /\ stack'[m].works[l + 1] = value
    BY <2>1 DEF Given
  <2> HIDE DEF n, m, l
  <2>3. ASSUME NEW k \in DOMAIN stack', NEW i \in DOMAIN stack'[k].works
        PROVE  OrderedWork(stack'[k].works[i])
    <3>1. k \in DOMAIN stack
      BY <2>1, <2>2
    <3>2. CASE k # m
      BY <2>2, <3>1, <3>2 DEF Ordered
    <3>3. CASE k = m /\ i \in 1 .. l
      BY <2>2, <3>1, <3>3 DEF Ordered
    <3>4. CASE k = m /\ i = l + 1
      BY <2>2, <3>4
    <3>5. QED
      BY <2>2, <3>2, <3>3, <3>4
  <2>4. QED
    BY <1>2, <2>2, <2>3 DEF Ordered
<1>5. QED
  BY <1>3, <1>4

LEMMA TypecheckingOrders ==
  ASSUME EffectsAgree(Operations), Inv, Ordered, Typechecking
  PROVE  Ordered'
<1>1. CASE Check
  BY <1>1, CallsAndReturns, CallOrders, ReturnOrders DEF OrderedStep
<1>2. CASE StartCase
  <2>1. /\ Declared /\ Local /\ Call(caseDecl.expression, caseDecl.bound)
    BY <1>2 DEF StartCase, Local
  <2>2. caseDecl.expression \in Exprs /\ caseDecl.bound \in SUBSET Capabilities
    BY <2>1, CasesAssumption DEF Inv, TypeOK, CaseDecl, Declared
  <2>3. QED
    BY <2>1, <2>2, CallOrders
<1>3. CASE RejectCase
  BY <1>3 DEF RejectCase, Ordered
<1>4. CASE FinishCase
  <2> DEFINE target == Stages[caseDecl.target]
             final == concluded(work, target)
  <2>1. work # NoWork /\ stack' = stack /\ work' = work
    BY <1>4 DEF FinishCase, Finishing
  <2>2. final.decision = "CLOSED" => InOrder(final.typed)
    <3>1. final.decision = "CLOSED" => final = work
      <4>1. work \in Work
        BY <2>1 DEF Inv, TypeOK
      <4>2. [work EXCEPT !.decision = "REFUTED"].decision = "REFUTED"
        BY <4>1 DEF Work
      <4>3. QED
        BY <4>2 DEF concluded
    <3> HIDE DEF final
    <3>2. QED
      BY <2>1, <3>1 DEF Ordered, OrderedWork
  <2> HIDE DEF final, target
  <2>3. PICK expected \in Expectations :
          IF accepted(final, expected)
          THEN verdict' = final.decision /\ proof' = ProofOf(final, expected, target)
          ELSE verdict' = "error" /\ UNCHANGED proof
    BY <1>4 DEF FinishCase, final, target
  <2>4. verdict' = "CLOSED" => InOrder(proof'.typed)
    <3>1. ProofOf(final, expected, target).typed = final.typed
      BY DEF ProofOf
    <3>2. QED
      BY <2>2, <2>3, <3>1
  <2>5. QED
    BY <2>1, <2>4 DEF Ordered
<1>5. QED
  BY <1>1, <1>2, <1>3, <1>4 DEF Typechecking

-----------------------------------------------------------------------------
(* What the executor has collected is the row of the steps it has done.    *)
Collected == verdict = "CLOSED" => \A g : Recorded(g, Plan) => result.effects = g[pc]

LEMMA PerformCollects ==
  ASSUME PipelineInv, Collected, UNCHANGED typechecking, NEW operation,
         Running(operation), Perform(operation)
  PROVE  Collected'
<1>1. /\ phase = "running" /\ pc < Len(Plan) /\ Plan[pc + 1].operation = operation
      /\ pc' = pc + 1
  BY DEF Running, Perform
<1>2. verdict' = verdict /\ proof' = proof /\ Plan' = Plan
  BY Frozen
<1>3. SUFFICES ASSUME verdict = "CLOSED", NEW g, Recorded(g, Plan)
               PROVE  result'.effects = g[pc + 1]
  BY <1>1, <1>2 DEF Collected
<1>4. result'.effects = RowAfter(result.effects, operation)
  BY DEF Perform, Record, RowAfter, PipelineInv, ResultShape, NoResult
<1>5. result.effects = g[pc]
  BY <1>3 DEF Collected
<1>6. Len(Plan) \in Nat /\ pc \in 0 .. Len(Plan)
  BY <1>3, IssuedFacts DEF PipelineInv, Walked, Issued, Decisions
<1>7. g[pc + 1] = RowAfter(g[pc], operation)
  <2>1. \A i \in 1 .. Len(Plan) : g[i] = RowAfter(g[i - 1], Plan[i].operation)
    BY <1>3 DEF Recorded
  <2> DEFINE n == pc + 1
  <2>2. n \in 1 .. Len(Plan) /\ n - 1 = pc
    BY <1>1, <1>6
  <2>3. Plan[n].operation = operation
    BY <1>1
  <2> HIDE DEF n
  <2>4. g[n] = RowAfter(g[pc], operation)
    BY <2>1, <2>2, <2>3
  <2>5. QED
    BY <2>4 DEF n
<1>8. QED
  BY <1>4, <1>5, <1>7

LEMMA ExecuteCollects ==
  ASSUME PipelineInv, Collected, Execute
  PROVE  Collected'
<1>1. UNCHANGED typechecking
  BY DEF Execute
<1>2. verdict' = verdict /\ Plan' = Plan
  BY <1>1, Frozen
<1>3. ASSUME pc' = pc, result'.effects = result.effects PROVE Collected'
  BY <1>2, <1>3 DEF Collected
<1>4. ASSUME NEW reason, Fail(reason) PROVE Collected'
  BY <1>3, <1>4 DEF Fail
<1>5. CASE SkipExecution
  <2>1. verdict # "CLOSED"
    BY <1>5, IssuedFacts DEF SkipExecution, PipelineInv
  <2>2. QED
    BY <1>2, <2>1 DEF Collected
<1>6. CASE StartExecution
  <2>1. result = NoResult
    BY <1>6 DEF StartExecution, PipelineInv, Waiting
  <2>2. ASSUME NEW output, pc' = pc,
               result' = [NoResult EXCEPT !.decision = "CLOSED", !.output = output]
        PROVE  Collected'
    <3>1. result'.effects = result.effects
      BY <2>1, <2>2 DEF NoResult
    <3>2. QED
      BY <1>3, <2>2, <3>1
  <2>3. QED
    BY <1>4, <1>6, <2>2 DEF StartExecution
<1>7. CASE StepPlain \/ StepNormalize \/ StepReplay
  BY <1>1, <1>4, <1>7, PerformCollects DEF StepPlain, StepNormalize, StepReplay
<1>8. CASE StepUnknown
  BY <1>4, <1>8 DEF StepUnknown
<1>9. CASE FinishExecution
  <2>1. result' = [result EXCEPT !.artifactDigest = DigestBytes(result.output)] /\ pc' = pc
        => result'.effects = result.effects
    OBVIOUS
  <2>2. QED
    BY <1>3, <1>4, <1>9, <2>1 DEF FinishExecution
<1>10. CASE VerifyResult
  BY <1>3, <1>10 DEF VerifyResult
<1>11. QED
  BY <1>5, <1>6, <1>7, <1>8, <1>9, <1>10 DEF Execute

LEMMA TypecheckingCollects ==
  ASSUME PipelineInv, Typechecking, UNCHANGED execution
  PROVE  Collected'
<1>1. verdict = "pending"
  BY TypecheckingSettles DEF PipelineInv
<1>2. phase = "idle"
  BY <1>1 DEF PipelineInv, Waiting, Issued, Decisions
<1>3. pc' = 0 /\ result' = NoResult
  BY <1>2 DEF PipelineInv, Waiting, execution
<1>4. NoResult.effects = <<>>
  BY DEF NoResult
<1>5. QED
  BY <1>3, <1>4 DEF Collected, Recorded

LEMMA EffectsAlways ==
  ASSUME EffectsAgree(Operations)
  PROVE  PipelineSpec => [](PipelineInv /\ Ordered /\ Collected)
<1>1. PipelineInit => Ordered /\ Collected
  BY DEF PipelineInit, Init, Ordered, Collected
<1>2. PipelineInv /\ Ordered /\ Collected /\ [PipelineNext]_PipelineVars => Ordered' /\ Collected'
  <2>1. SUFFICES ASSUME PipelineInv, Ordered, Collected, [PipelineNext]_PipelineVars
                 PROVE  Ordered' /\ Collected'
    OBVIOUS
  <2>2. CASE UNCHANGED PipelineVars
    BY <2>1, <2>2 DEF PipelineVars, vars, execution, Ordered, Collected, Plan
  <2>3. CASE Typechecking /\ UNCHANGED execution
    BY <2>1, <2>3, TypecheckingOrders, TypecheckingCollects DEF PipelineInv
  <2>4. CASE Execute
    <3>1. UNCHANGED typechecking
      BY <2>4 DEF Execute
    <3>2. Ordered'
      BY <2>1, <3>1 DEF typechecking, Ordered
    <3>3. QED
      BY <2>1, <2>4, <3>2, ExecuteCollects
  <2>5. QED
    BY <2>1, <2>2, <2>3, <2>4 DEF PipelineNext, PipelineStep
<1>3. QED
  BY <1>1, <1>2, PipelineAlways, PTL DEF PipelineSpec

(* If the tables agree on the effects, what the executor collects along    *)
(* the plan of a CLOSED case is the typed row, in its order, however the   *)
(* rows were united on the way up: VerifyExecution rejects no case for its *)
(* effects.                                                                *)
THEOREM EffectsAreAsTyped ==
  ASSUME EffectsAgree(Operations)
  PROVE  PipelineSpec => []EffectsAsTyped
<1>1. PipelineInv /\ Ordered /\ Collected => EffectsAsTyped
  <2>1. SUFFICES ASSUME PipelineInv, Ordered, Collected, verdict = "CLOSED",
                        phase \in {"executed", "verified", "rejected"}
                 PROVE  result.effects = proof.typed.effects
    BY DEF EffectsAsTyped
  <2>2. pc = Len(Plan)
    BY <2>1 DEF PipelineInv, Completed
  <2>3. /\ DOMAIN Plan = 1 .. Len(Plan) /\ Len(Plan) \in Nat /\ Len(result.trace) = pc
        /\ \A i \in 1 .. pc : result.trace[i][1] = Plan[i].operation
        /\ result.trace \in Seq(Entries)
    BY <2>1, IssuedFacts DEF PipelineInv, Walked, ResultShape, Issued, Decisions
  <2>4. ASSUME NEW i \in DOMAIN Plan PROVE Plan[i].operation \in ExecutorSteps
    <3> DEFINE entry == result.trace[i]
    <3>1. i \in 1 .. Len(result.trace) /\ i \in 1 .. pc
      BY <2>2, <2>3
    <3>2. entry \in Entries
      BY <2>3, <3>1, ElementOfSeq
    <3>3. entry[1] = Plan[i].operation
      BY <2>3, <3>1
    <3> HIDE DEF entry
    <3>4. QED
      BY <3>2, <3>3 DEF Entries
  <2>5. PICK g : Recorded(g, Plan) /\ proof.typed.effects = g[Len(Plan)]
    <3>1. InOrder(proof.typed)
      BY <2>1 DEF Ordered
    <3>2. QED
      BY <2>4, <3>1 DEF InOrder, Known, Plan
  <2>6. QED
    BY <2>1, <2>2, <2>5 DEF Collected
<1>2. QED
  BY <1>1, EffectsAlways, PTL
=============================================================================
