------------------------------ MODULE Checker ------------------------------
(***************************************************************************)
(* The rules of checkExpression (internal/meta/typecheck.go) as operators: *)
(* what an expression evaluates to, given what its arguments evaluate to.  *)
(* Module Typecheck runs them in the order of the recursive Go function.   *)
(*                                                                         *)
(* Identifiers (operations, types, effects, ...) are strings, as in the    *)
(* source; a parsed expression is a record [name, args].                   *)
(***************************************************************************)
EXTENDS RowOperators

CONSTANTS
  Operations,    \* env.operations: from operation ids to OperationDecl records
  Stages,        \* env.stages: from stage ids to their indices
  Origins,       \* the declared origin ids
  Capabilities,  \* the declared capability ids
  Exprs          \* the parsed expressions, closed under taking arguments

Decisions == {"CLOSED", "REFUTED", "UNKNOWN"}

(* A rule is "in force" when its property has the value that the checker   *)
(* compares it with.  ValidateSource only asks that the rule is declared,  *)
(* so any subset of these may be in force.                                 *)
RuleIds == {"compose_effects", "stage_escape", "origin_hygiene",
            "capability_binding", "replay"}

Name == STRING \ {""}

(* The strings.  The literals that the checker writes into a work are      *)
(* listed because the provers do not know that a literal is in STRING.     *)
Text ==
  STRING \cup {"", "replay.verify", "replay.fixture", "UNBOUND_CAPABILITY",
              "BindCompilerFixture"}

OperationDecl ==
  [input : Name, output : Name, stage : DOMAIN Stages, origin : Origins,
   requires : Seq(Capabilities \cup {"$cap"}), effects : Seq(Name),
   pre : Name, post : Name]

Expr == [name : Name, args : Seq(Exprs)]

(* What ValidateSource guarantees of the declarations and, beside, that no *)
(* capability is called "$cap": a source that declares one makes the       *)
(* placeholder a capability like any other.                                *)
ASSUME DeclarationsAssumption ==
  /\ Stages \in [DOMAIN Stages -> Nat]
  /\ Capabilities \in SUBSET (STRING \ {"", "$cap"})
  /\ Origins \in SUBSET STRING
  /\ DOMAIN Operations \in SUBSET Name
  /\ Operations \in [DOMAIN Operations -> OperationDecl]

ASSUME ExprsAssumption == Exprs \subseteq Expr

-----------------------------------------------------------------------------
(* Stage indices.                                                          *)

(* Mutant: the comparison is turned round.                                 *)
minInt(left, right) == IF left < right THEN left ELSE right

maxInt(left, right) == IF left > right THEN left ELSE right

-----------------------------------------------------------------------------
(* typedWork: a decision with, when CLOSED, the typing facts and, when     *)
(* UNKNOWN, the tuple that says what is missing.  Of that tuple the three  *)
(* fields that TypecheckCase compares are kept; stage, step and reason are *)
(* the same constants wherever it is built.  typed.expression is left out: *)
(* nothing reads it back.                                                  *)

NoTyping ==
  [input |-> "", output |-> "", stage |-> 0, origin |-> "", required |-> <<>>,
   effects |-> <<>>, pre |-> <<>>, post |-> <<>>, plan |-> <<>>, replay |-> FALSE]

NoUnknown == [unknownClass |-> "", nextOperation |-> "", blockedBy |-> <<>>]

Complete(unknown) ==
  /\ unknown.unknownClass # "" /\ unknown.nextOperation # ""
  /\ unknown.blockedBy # <<>>

closedWork(typed) ==
  [decision |-> "CLOSED", typed |-> typed, unknown |-> NoUnknown]

refutedWork ==
  [decision |-> "REFUTED", typed |-> NoTyping, unknown |-> NoUnknown]

(* Mutant: a missing capability refutes.                                   *)
capabilityRefuted(capability) == refutedWork

capabilityUnknown(capability) ==
  [decision |-> "UNKNOWN", typed |-> NoTyping,
   unknown |-> [unknownClass |-> "UNBOUND_CAPABILITY",
                nextOperation |-> "BindCompilerFixture",
                blockedBy |-> <<capability>>]]

-----------------------------------------------------------------------------
(* The validated precedence list and its use between two non-CLOSED works. *)

Precedence == <<"REFUTED", "UNKNOWN", "CLOSED">>

decisionBefore(left, right) ==
  LET index(decision) == CHOOSE i \in 1 .. 3 : Precedence[i] = decision
  IN  index(left) <= index(right)

mergeNonClosed(left, right) ==
  IF left.decision = "CLOSED" THEN right
  ELSE IF right.decision = "CLOSED" THEN left
  ELSE IF decisionBefore(left.decision, right.decision) THEN left ELSE right

-----------------------------------------------------------------------------
(* Mutant: only the first requirement is looked at.                        *)
missingFirst(operation, capabilities) ==
  {i \in DOMAIN operation.requires :
     i = 1 /\ operation.requires[i] \notin capabilities \cup {"$cap"}}

(* Mutant: whichever capability is missing, the first one is blamed.       *)
missingAny(operation, capabilities) ==
  {i \in DOMAIN operation.requires :
     \E j \in DOMAIN operation.requires :
       operation.requires[j] \notin capabilities \cup {"$cap"}}

(* An operation by itself.  The loop over operation.Requires stops at the  *)
(* first capability that is not bound.                                     *)

missing(operation, capabilities) ==
  {i \in DOMAIN operation.requires :
     operation.requires[i] \notin capabilities \cup {"$cap"}}

leafWork(id, instantiated, capabilities) ==
  LET operation == Operations[id]
      required  == requirement(operation, instantiated)
      unbound   == missing(operation, capabilities)
      earliest  == CHOOSE i \in unbound : \A j \in unbound : i <= j
  IN  IF unbound # {} THEN capabilityUnknown(operation.requires[earliest])
      ELSE closedWork(
        [input |-> operation.input, output |-> operation.output,
         stage |-> Stages[operation.stage], origin |-> operation.origin,
         required |-> unique(required), effects |-> unique(operation.effects),
         pre |-> <<operation.pre>>, post |-> <<operation.post>>,
         plan |-> <<[operation |-> id, capability |-> first(required)]>>,
         replay |-> FALSE])

-----------------------------------------------------------------------------
(* The cases of checkExpression.                                           *)

Sequential(left, right) ==
  [input |-> left.input, output |-> right.output,
   stage |-> maxInt(left.stage, right.stage), origin |-> right.origin,
   required |-> union(left.required, right.required),
   effects |-> union(left.effects, right.effects),
   pre |-> left.pre \o right.pre, post |-> left.post \o right.post,
   plan |-> left.plan \o right.plan, replay |-> left.replay \/ right.replay]

(* Mutant: the types of the two works are not compared.                    *)
composeAnyTypes(left, right, rules) ==
  IF left.decision # "CLOSED" \/ right.decision # "CLOSED"
  THEN mergeNonClosed(left, right)
  ELSE IF overlaps(left.typed.effects, right.typed.effects) THEN refutedWork
  ELSE closedWork(Sequential(left.typed, right.typed))

composeWork(left, right, rules) ==
  IF left.decision # "CLOSED" \/ right.decision # "CLOSED"
  THEN mergeNonClosed(left, right)
  ELSE IF \/ left.typed.output # right.typed.input
          \/ "compose_effects" \notin rules
          \/ overlaps(left.typed.effects, right.typed.effects)
          \/ "stage_escape" \notin rules
  THEN refutedWork
  ELSE closedWork(Sequential(left.typed, right.typed))

instantiateWork(args, capabilities, rules) ==
  LET id         == args[1].name
      capability == args[2].name
  IN  IF \/ Len(args) # 2 \/ args[1].args # <<>> \/ args[2].args # <<>>
         \/ id \notin DOMAIN Operations \/ "capability_binding" \notin rules
      THEN refutedWork
      ELSE IF capability \notin Capabilities \cap capabilities
      THEN capabilityUnknown(capability)
      ELSE IF "$cap" \notin Range(Operations[id].requires) THEN refutedWork
      ELSE leafWork(id, <<capability>>, capabilities)

(* Only the name of the first argument is looked at, never its arguments. *)
stageEscapeWork(args, capabilities, rules) ==
  IF Len(args) # 2 \/ args[1].name \notin DOMAIN Operations THEN refutedWork
  ELSE LET work == leafWork(args[1].name, <<>>, capabilities)
       IN  IF work.decision # "CLOSED" THEN work
           ELSE IF \/ args[2].name \notin DOMAIN Stages
                   \/ /\ "stage_escape" \in rules
                      /\ work.typed.stage > Stages[args[2].name]
           THEN refutedWork ELSE work

originCaptureWork(args, capabilities, rules) ==
  IF Len(args) # 2 \/ args[1].name \notin DOMAIN Operations THEN refutedWork
  ELSE LET work == leafWork(args[1].name, <<>>, capabilities)
       IN  IF work.decision # "CLOSED" THEN work
           ELSE IF \/ args[2].name \notin Origins
                   \/ /\ "origin_hygiene" \in rules
                      /\ Operations[args[1].name].origin # args[2].name
           THEN refutedWork ELSE work

(* Mutant: the fields are swapped.                                         *)
replayStepSwapped == [operation |-> "replay.fixture", capability |-> "replay"]

replayStep == [operation |-> "replay", capability |-> "replay.fixture"]

replayWork(work, rules) ==
  IF work.decision # "CLOSED" THEN work
  ELSE IF "replay" \notin rules THEN refutedWork
  ELSE closedWork(
    [work.typed EXCEPT !.effects  = union(@, <<"replay.verify">>),
                       !.required = union(@, <<"replay.fixture">>),
                       !.plan     = Append(@, replayStep),
                       !.replay   = TRUE])

operationWork(name, capabilities) ==
  IF name \notin DOMAIN Operations THEN refutedWork
  ELSE leafWork(name, <<>>, capabilities)

-----------------------------------------------------------------------------
(* The end of TypecheckCase: the target stage, then the declarations of    *)
(* the case.  Its label expected_reason replaces the derived one without a *)
(* comparison, so labels are left out.  A work refuted here keeps its      *)
(* typing.                                                                 *)

concluded(work, targetStage) ==
  IF work.decision = "CLOSED" /\ work.typed.stage > targetStage
  THEN [work EXCEPT !.decision = "REFUTED"] ELSE work

accepted(work, expected) ==
  /\ work.decision = expected.decision
  /\ work.decision = "CLOSED" =>
       /\ work.typed.effects = expected.effects
       /\ work.typed.post # <<>> => work.typed.post[Len(work.typed.post)] = expected.post
  /\ work.decision = "UNKNOWN" =>
       Complete(work.unknown) /\ work.unknown = expected.unknown

ProofOf(work, expected, targetStage) ==
  [decision |-> work.decision, typed |-> work.typed, unknown |-> work.unknown,
   effects |-> expected.effects, post |-> expected.post, target |-> targetStage]
=============================================================================
