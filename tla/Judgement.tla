----------------------------- MODULE Judgement -----------------------------
(***************************************************************************)
(* What TypecheckCase promises: one atomic step from a case to its         *)
(* verdict, where the verdict is that of the judgement of the expression.  *)
(* Module Typecheck, which evaluates an expression call by call, is shown  *)
(* to implement this.                                                      *)
(***************************************************************************)
EXTENDS Checker

CONSTANTS CaseDecls, RuleSets, Expectations

VARIABLES caseDecl, rules, verdict, proof

vars == <<caseDecl, rules, verdict, proof>>

(* The judgement of an expression under the bound capabilities, by         *)
(* induction on the expression.  It does not depend on any order in which  *)
(* arguments are checked.                                                  *)
Calls == [expr : Exprs, caps : SUBSET Capabilities, rules : SUBSET RuleIds]

judge(f, call) ==
  LET name  == call.expr.name
      args  == call.expr.args
      on(i) == f[[call EXCEPT !.expr = args[i]]]
  IN  IF \/ name = "compose" /\ Len(args) # 2
         \/ name \in {"unbound", "replay"} /\ Len(args) # 1
      THEN refutedWork
      ELSE CASE name = "compose"        -> composeWork(on(1), on(2), call.rules)
             [] name = "instantiate"    -> instantiateWork(args, call.caps, call.rules)
             [] name = "stage_escape"   -> stageEscapeWork(args, call.caps, call.rules)
             [] name = "origin_capture" -> originCaptureWork(args, call.caps, call.rules)
             [] name = "unbound"        -> f[[call EXCEPT !.expr = args[1], !.caps = {}]]
             [] name = "replay"         ->
                  IF "replay.fixture" \in call.caps THEN replayWork(on(1), call.rules)
                  ELSE capabilityUnknown("replay.fixture")
             [] OTHER                   -> operationWork(name, call.caps)

judgement[call \in Calls] == judge(judgement, call)

CaseCall == [expr |-> caseDecl.expression, caps |-> caseDecl.bound, rules |-> rules]

NoProof == [decision |-> "NONE", typed |-> NoTyping, unknown |-> NoUnknown,
            effects |-> <<>>, post |-> "", target |-> 0]

Init ==
  /\ caseDecl \in CaseDecls /\ rules \in RuleSets
  /\ verdict = "pending" /\ proof = NoProof

Declared == caseDecl.target \in DOMAIN Stages /\ caseDecl.bound \subseteq Capabilities

Decide ==
  LET target == Stages[caseDecl.target]
      final  == concluded(judgement[CaseCall], target)
  IN  \E expected \in Expectations :
        IF accepted(final, expected)
        THEN verdict' = final.decision /\ proof' = ProofOf(final, expected, target)
        ELSE verdict' = "error" /\ UNCHANGED proof

Reject == verdict' = "error" /\ UNCHANGED proof

Next ==
  /\ verdict = "pending"
  /\ IF Declared THEN Decide ELSE Reject
  /\ UNCHANGED <<caseDecl, rules>>

(* A case is decided by its judgement, and once.                           *)
DecidedOnce == Init /\ [][Next]_vars

(* Every case is decided.                                                  *)
Spec == DecidedOnce /\ <>(verdict # "pending")
=============================================================================
