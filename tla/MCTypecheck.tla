---------------------------- MODULE MCTypecheck ----------------------------
(***************************************************************************)
(* Instances of Typecheck for TLC.                                         *)
(***************************************************************************)
EXTENDS TypecheckRefinement, MCDeclarations

MCCases == [expression : CaseExpressions, target : {"quote", "run", Undeclared},
          bound : Bounds]

(* The rules as the repository declares them, and with one not in force.   *)
MCRuleSets == {AllRules} \cup {AllRules \ {rule} : rule \in AllRules}

(* The repository's operations, rules and capabilities, all bound.         *)
RepoCases == [expression : CaseExpressions, target : {"run"}, bound : {MCCapabilities}]
RepoRules == {AllRules}

(* The expressions are finite trees: their sizes show it.                  *)
Nodes[expr \in Exprs] ==
  FoldFunction(LAMBDA a, b : a + b, 1, [i \in DOMAIN expr.args |-> Nodes[expr.args[i]]])

ASSUME FiniteExpressions == Measures(Nodes)
=============================================================================
