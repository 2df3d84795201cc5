----------------------------- MODULE Typecheck -----------------------------
(***************************************************************************)
(* TypecheckCase (internal/meta/typecheck.go) on one case: the recursion   *)
(* of checkExpression as an explicit stack of calls, then the comparison   *)
(* with what the source declares for the case.                             *)
(***************************************************************************)
EXTENDS Checker

CONSTANTS
  CaseDecls,    \* records [expression, target, bound] of the cases
  RuleSets,     \* the sets of rules that may be in force
  Expectations  \* records [decision, effects, post, unknown] a case may declare

VARIABLES
  caseDecl,  \* the case
  rules,     \* the rules in force
  stack,     \* the active calls of checkExpression, the innermost one last
  work,      \* what the outermost call returned
  verdict,   \* "pending", "error" or the decision of the issued proof
  proof      \* the issued proof

vars == <<caseDecl, rules, stack, work, verdict, proof>>

CaseDecl == [expression : Exprs, target : STRING, bound : SUBSET STRING]

Expectation ==
  [decision : Decisions, effects : Seq(Text), post : Text,
   unknown : [unknownClass : Text, nextOperation : Text,
              blockedBy : Seq(Text)]]

ASSUME CasesAssumption ==
  /\ CaseDecls \subseteq CaseDecl
  /\ RuleSets \subseteq SUBSET RuleIds
  /\ Expectations \subseteq Expectation

(* ValidateSource does not ask for this; the repository's source grants    *)
(* it.  An operation called replay could be instantiated, and its plan     *)
(* step would be taken for that of the constructor.                        *)
ASSUME NoReplayOperation == "replay" \notin DOMAIN Operations

Constructors == {"compose", "instantiate", "stage_escape", "origin_capture",
                 "unbound", "replay"}

NoWork == [decision |-> "NONE", typed |-> NoTyping, unknown |-> NoUnknown]

NoProof == [decision |-> "NONE", typed |-> NoTyping, unknown |-> NoUnknown,
            effects |-> <<>>, post |-> "", target |-> 0]

Init ==
  /\ caseDecl \in CaseDecls
  /\ rules \in RuleSets
  /\ stack = <<>>
  /\ work = NoWork
  /\ verdict = "pending"
  /\ proof = NoProof

-----------------------------------------------------------------------------
(* Calls and returns.                                                      *)

Top == stack[Len(stack)]

Call(expr, caps) ==
  /\ stack' = Append(stack, [expr |-> expr, caps |-> caps, works |-> <<>>])
  /\ UNCHANGED work

Return(result) ==
  LET callers == SubSeq(stack, 1, Len(stack) - 1)
  IN  IF callers = <<>>
      THEN stack' = <<>> /\ work' = result
      ELSE /\ stack' = [callers EXCEPT ![Len(callers)].works = Append(@, result)]
           /\ UNCHANGED work

(* The innermost call runs the case of the switch for this constructor.    *)
Checking(constructor) ==
  /\ stack # <<>> /\ Top.expr.name = constructor
  /\ UNCHANGED <<caseDecl, rules, verdict, proof>>

-----------------------------------------------------------------------------
(* TypecheckCase up to the call of checkExpression.                        *)

Starting == verdict = "pending" /\ stack = <<>> /\ work = NoWork

Declared == caseDecl.target \in DOMAIN Stages /\ caseDecl.bound \subseteq Capabilities

RejectCase ==
  /\ Starting /\ ~Declared
  /\ verdict' = "error"
  /\ UNCHANGED <<caseDecl, rules, stack, work, proof>>

StartCase ==
  /\ Starting /\ Declared
  /\ Call(caseDecl.expression, caseDecl.bound)
  /\ UNCHANGED <<caseDecl, rules, verdict, proof>>

-----------------------------------------------------------------------------
(* checkExpression, one action per case of its switch; Top.works holds     *)
(* what the recursive calls made so far by this call have returned.        *)

CheckCompose ==
  LET args == Top.expr.args
  IN  /\ Checking("compose")
      /\ \/ Len(args) # 2 /\ Return(refutedWork)
         \/ /\ Len(args) = 2 /\ Len(Top.works) < 2
            /\ Call(args[Len(Top.works) + 1], Top.caps)
         \/ /\ Len(args) = 2 /\ Len(Top.works) = 2
            /\ Return(composeWork(Top.works[1], Top.works[2], rules))

CheckInstantiate ==
  /\ Checking("instantiate")
  /\ Return(instantiateWork(Top.expr.args, Top.caps, rules))

CheckStageEscape ==
  /\ Checking("stage_escape")
  /\ Return(stageEscapeWork(Top.expr.args, Top.caps, rules))

CheckOriginCapture ==
  /\ Checking("origin_capture")
  /\ Return(originCaptureWork(Top.expr.args, Top.caps, rules))

(* Mutant: `unbound' hands down the capabilities it should withdraw.       *)
CheckUnboundKeeping ==
  LET args == Top.expr.args
  IN  /\ Checking("unbound")
      /\ \/ Len(args) # 1 /\ Return(refutedWork)
         \/ Len(args) = 1 /\ Top.works = <<>> /\ Call(args[1], Top.caps)
         \/ Len(args) = 1 /\ Top.works # <<>> /\ Return(Top.works[1])

CheckUnbound ==
  LET args == Top.expr.args
  IN  /\ Checking("unbound")
      /\ \/ Len(args) # 1 /\ Return(refutedWork)
         \/ Len(args) = 1 /\ Top.works = <<>> /\ Call(args[1], {})
         \/ Len(args) = 1 /\ Top.works # <<>> /\ Return(Top.works[1])

(* The capability is looked for before the argument is checked.            *)
CheckReplay ==
  LET args    == Top.expr.args
      guarded == Len(args) = 1 /\ "replay.fixture" \in Top.caps
  IN  /\ Checking("replay")
      /\ \/ Len(args) # 1 /\ Return(refutedWork)
         \/ /\ Len(args) = 1 /\ "replay.fixture" \notin Top.caps
            /\ Return(capabilityUnknown("replay.fixture"))
         \/ guarded /\ Top.works = <<>> /\ Call(args[1], Top.caps)
         \/ guarded /\ Top.works # <<>> /\ Return(replayWork(Top.works[1], rules))

CheckOperation ==
  /\ stack # <<>> /\ Top.expr.name \notin Constructors
  /\ Checking(Top.expr.name)
  /\ Return(operationWork(Top.expr.name, Top.caps))

-----------------------------------------------------------------------------
(* TypecheckCase after checkExpression has returned.  The declarations of  *)
(* the case are read here for the first time, so they are chosen here.     *)

Finishing == verdict = "pending" /\ stack = <<>> /\ work # NoWork

FinishCase ==
  LET target == Stages[caseDecl.target]
      final  == concluded(work, target)
  IN  /\ Finishing
      /\ \E expected \in Expectations :
           IF accepted(final, expected)
           THEN verdict' = final.decision /\ proof' = ProofOf(final, expected, target)
           ELSE verdict' = "error" /\ UNCHANGED proof
      /\ UNCHANGED <<caseDecl, rules, stack, work>>

Terminated == verdict # "pending"

(* TypecheckCase has returned.                                             *)
Finished == Terminated /\ UNCHANGED vars

Check ==
  \/ CheckCompose \/ CheckInstantiate \/ CheckStageEscape \/ CheckOriginCapture
  \/ CheckUnbound \/ CheckReplay \/ CheckOperation

Typechecking == RejectCase \/ StartCase \/ Check \/ FinishCase

Next == Typechecking \/ Finished

(* What any run does, whether or not it goes on to its end.                *)
SafeSpec == Init /\ [][Next]_vars

(* A sequential function that nothing can interrupt: it goes on.           *)
Spec == SafeSpec /\ WF_vars(Typechecking)
-----------------------------------------------------------------------------
(* Types.                                                                  *)

PlanStep == [operation : DOMAIN Operations \cup {"replay"}, capability : Text]

Typing ==
  [input : Text, output : Text, stage : Nat, origin : Text,
   required : Seq(Text), effects : Seq(Text), pre : Seq(Text),
   post : Seq(Text), plan : Seq(PlanStep), replay : BOOLEAN]

Unknown == [unknownClass : Text, nextOperation : Text, blockedBy : Seq(Text)]

Work == [decision : Decisions, typed : Typing, unknown : Unknown]

FrameType == [expr : Exprs, caps : SUBSET Capabilities, works : Seq(Work)]

Proof == [decision : Decisions, typed : Typing, unknown : Unknown,
          effects : Seq(Text), post : Text, target : Nat]

(* The shape of every variable.                                            *)
TypeOK ==
  /\ caseDecl \in CaseDecls /\ rules \in RuleSets
  /\ stack \in Seq(FrameType)
  /\ work \in Work \cup {NoWork}
  /\ verdict \in Decisions \cup {"pending", "error"}
  /\ proof \in Proof \cup {NoProof}

-----------------------------------------------------------------------------
(* What the declarations say of one step of a plan.                        *)

StepRequires(step) ==
  IF step.operation = "replay" THEN {"replay.fixture"}
  ELSE Range(Operations[step.operation].requires) \ {"$cap"}

StepEffects(step) ==
  IF step.operation = "replay" THEN {"replay.verify"}
  ELSE Range(Operations[step.operation].effects)

StepStage(step) ==
  IF step.operation = "replay" THEN 0
  ELSE Stages[Operations[step.operation].stage]

Closed == verdict = "CLOSED"

Plan == proof.typed.plan

-----------------------------------------------------------------------------
(* Safety of an issued proof.                                              *)

(* A CLOSED proof carries no step that needs a declared capability the     *)
(* case does not bind, however deep the operation was nested and whatever  *)
(* `unbound', `instantiate' and `replay' did to the capabilities on the    *)
(* way (checkExpression passes them down by hand).                         *)
CapabilitySafety ==
  Closed =>
    /\ Range(proof.typed.required) \subseteq caseDecl.bound
    /\ \A step \in Range(Plan) :
         StepRequires(step) \cup ({step.capability} \ {""}) \subseteq caseDecl.bound

(* No step of a CLOSED proof belongs to a later stage than the target of   *)
(* the case: the stage that compose and replay carry upwards never loses   *)
(* that of a step.                                                         *)
StageSafety == Closed => \A step \in Range(Plan) : StepStage(step) <= proof.target

(* The effects a case declares are those of the steps of its proof, and no *)
(* two operations of one plan have an effect in common ("disjoint_union"). *)
DisjointSteps(plan) ==
  \A i, j \in DOMAIN plan :
    /\ i # j
    /\ plan[i].operation # "replay" /\ plan[j].operation # "replay"
    => StepEffects(plan[i]) \cap StepEffects(plan[j]) = {}

EffectAccounting ==
  Closed =>
    /\ Range(proof.effects) = UNION {StepEffects(step) : step \in Range(Plan)}
    /\ DisjointSteps(Plan)

(* The operations of a CLOSED plan form a chain, each consuming the type   *)
(* the one before it produces, with the types of the proof at its ends and *)
(* the last postcondition of the proof at the last of them; replay steps   *)
(* are transparent.                                                        *)
OperationSteps(plan) == {i \in DOMAIN plan : plan[i].operation # "replay"}

OperationAt(plan, i) == Operations[plan[i].operation]

First(plan, i) == i \in OperationSteps(plan) /\ \A j \in OperationSteps(plan) : i <= j
Last(plan, i) == i \in OperationSteps(plan) /\ \A j \in OperationSteps(plan) : j <= i
Adjacent(plan, i, j) == i < j /\ \A k \in OperationSteps(plan) : k <= i \/ j <= k

Chained(typed) ==
  /\ \E i \in DOMAIN typed.plan :
       First(typed.plan, i) /\ OperationAt(typed.plan, i).input = typed.input
  /\ \E i \in DOMAIN typed.plan :
       /\ Last(typed.plan, i)
       /\ OperationAt(typed.plan, i).output = typed.output
       /\ OperationAt(typed.plan, i).post = typed.post[Len(typed.post)]
  /\ \A i, j \in OperationSteps(typed.plan) :
       Adjacent(typed.plan, i, j) =>
         OperationAt(typed.plan, i).output = OperationAt(typed.plan, j).input

TypeChain == Closed => Chained(proof.typed)

(* An UNKNOWN proof tells what to bind: the tuple is complete and, unless  *)
(* the expression withdraws capabilities with `unbound', what blocks it is *)
(* not bound already.                                                      *)
Withdraws[expr \in Exprs] ==
  expr.name = "unbound" \/ \E i \in DOMAIN expr.args : Withdraws[expr.args[i]]

UnknownIsActionable ==
  verdict = "UNKNOWN" =>
    /\ Complete(proof.unknown)
    /\ Withdraws[caseDecl.expression]
       \/ Range(proof.unknown.blockedBy) \cap caseDecl.bound = {}

-----------------------------------------------------------------------------
(* Why an issued proof is safe: every work that any call holds is sound    *)
(* for the capabilities of that call, and no call has more capabilities    *)
(* than its caller.                                                        *)

SoundTyping(typed, caps) ==
  /\ Range(typed.required) \subseteq caps
  /\ \A step \in Range(typed.plan) :
       /\ StepRequires(step) \cup ({step.capability} \ {""}) \subseteq caps
       /\ StepStage(step) <= typed.stage
  /\ Range(typed.effects) = UNION {StepEffects(step) : step \in Range(typed.plan)}
  /\ DisjointSteps(typed.plan)
  /\ typed.input # "" /\ typed.output # ""
  /\ typed.pre # <<>> /\ typed.post # <<>>
  /\ Chained(typed)

SoundWork(result, caps) ==
  /\ result.decision = "CLOSED" => SoundTyping(result.typed, caps)
  /\ result.decision = "UNKNOWN" => Complete(result.unknown)

CallerCaps(k) == IF k = 1 THEN caseDecl.bound ELSE stack[k - 1].caps

SoundCalls ==
  \A k \in DOMAIN stack :
    /\ stack[k].caps \subseteq CallerCaps(k)
    /\ \A i \in DOMAIN stack[k].works : SoundWork(stack[k].works[i], stack[k].caps)

SoundProof ==
  verdict \in Decisions =>
    /\ proof \in Proof /\ proof.decision = verdict
    /\ SoundWork(proof, caseDecl.bound)
    /\ Closed =>
         /\ proof.typed.stage <= proof.target
         /\ proof.effects = proof.typed.effects
         /\ proof.post = proof.typed.post[Len(proof.typed.post)]

(* The inductive invariant, beside TypeOK.                                 *)
SoundState ==
  /\ (stack # <<>> \/ work # NoWork) => Declared
  /\ SoundCalls
  /\ work # NoWork => SoundWork(work, caseDecl.bound)
  /\ SoundProof

-----------------------------------------------------------------------------
(* What the repository says and TypecheckCase does not do.                 *)

(* docs/semantic-boundary.md:13,16: a $cap operation is instantiated with  *)
(* a declared, bound capability, and a missing capability is UNKNOWN.      *)
PolymorphicStepsAreBound ==
  Closed =>
    \A i \in DOMAIN Plan :
      /\ Plan[i].operation # "replay"
      /\ "$cap" \in Range(Operations[Plan[i].operation].requires)
      => Plan[i].capability \in caseDecl.bound
=============================================================================
