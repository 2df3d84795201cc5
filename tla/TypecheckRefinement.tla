------------------------ MODULE TypecheckRefinement ------------------------
(***************************************************************************)
(* TypecheckCase implements the judgement: with the stack and the returned *)
(* work hidden, Typecheck is Judgement.                                    *)
(***************************************************************************)
EXTENDS Typecheck

Atomic == INSTANCE Judgement WITH
  caseDecl <- caseDecl, rules <- rules, verdict <- verdict, proof <- proof

(* checkExpression, with its early returns, its left-to-right calls and    *)
(* the capabilities it hands down, decides every case as the judgement     *)
(* does, and decides it once.                                              *)
ImplementsJudgement == Atomic!Spec

(* Binding more capabilities never takes a verdict back: a CLOSED work     *)
(* stays as it is and a REFUTED one stays REFUTED; only UNKNOWN may change *)
(* (docs/semantic-boundary.md: UNKNOWN is incomplete, not wrong).          *)
MoreCapabilities ==
  Finishing =>
    \A extra \in SUBSET (Capabilities \ caseDecl.bound) :
      LET more == Atomic!judgement[[Atomic!CaseCall EXCEPT !.caps = @ \cup extra]]
      IN  /\ work.decision = "CLOSED" => more = work
          /\ work.decision = "REFUTED" => more.decision = "REFUTED"

(* An expression is a finite tree, as the parser builds it: there is a     *)
(* measure that is smaller for each of its arguments.                      *)
Measures(size) ==
  /\ size \in [Exprs -> Nat]
  /\ \A expr \in Exprs : \A i \in DOMAIN expr.args : size[expr.args[i]] < size[expr]
=============================================================================
