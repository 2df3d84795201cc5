--------------------------- MODULE MCDeclarations ---------------------------
(***************************************************************************)
(* Declarations for model checking: those of the repository's source,      *)
(* examples/meta-operator-typechecker-v1/main.gooo, and two operations     *)
(* more, with what ValidateSource lets pass and the source does not use:   *)
(* several requirements, an early stage, an effect declared twice.         *)
(***************************************************************************)
EXTENDS Integers, Sequences, FiniteSets

MCStages == [quote |-> 0, compile |-> 1, run |-> 2]
MCOrigins == {"literal", "fixture", "generated", "caller"}
MCCapabilities == {"compiler.fixture", "replay.fixture"}

LOCAL operation(input, output, stage, origin, requires, effects, pre, post) ==
  [input |-> input, output |-> output, stage |-> stage, origin |-> origin,
   requires |-> requires, effects |-> effects, pre |-> pre, post |-> post]

LOCAL stable(origin) ==
  operation("Fixture", "Fixture", "run", origin, <<"compiler.fixture">>, <<>>,
            "fixture_valid", "artifact_stable")

RepoOperations ==
  [identity |-> stable("fixture"),
   read_fixture |-> operation("Fixture", "Fixture", "run", "fixture",
     <<"compiler.fixture">>, <<"fixture.read">>, "fixture_valid", "fixture_read"),
   normalize |-> operation("Fixture", "Artifact", "run", "generated",
     <<"compiler.fixture">>, <<"artifact.normalize">>, "fixture_read", "fixture_normalized"),
   generic_cap |-> operation("Fixture", "Fixture", "run", "fixture",
     <<"$cap">>, <<"fixture.read">>, "fixture_valid", "fixture_read"),
   late_stage |-> stable("fixture"),
   capturing_op |-> stable("generated")]

MCOperations ==
  [name \in DOMAIN RepoOperations \cup {"quoted", "compiled"} |->
     CASE name = "quoted" ->
            operation("Fixture", "Fixture", "quote", "literal",
              <<"replay.fixture", "compiler.fixture">>, <<"replay.verify">>,
              "fixture_valid", "artifact_stable")
       [] name = "compiled" ->
            operation("Artifact", "Fixture", "compile", "generated",
              <<"compiler.fixture", "$cap">>, <<"artifact.diff", "artifact.diff">>,
              "fixture_normalized", "fixture_read")
       [] OTHER -> RepoOperations[name]]

-----------------------------------------------------------------------------
(* Expressions.                                                            *)

Node(name, args) == [name |-> name, args |-> args]
Leaf(name) == Node(name, <<>>)

Undeclared == "undeclared"

Leaves ==
  {Leaf(name) : name \in DOMAIN MCOperations \cup MCCapabilities \cup MCOrigins
                          \cup DOMAIN MCStages \cup {Undeclared}}

OperationLeaves == {Leaf(name) : name \in DOMAIN MCOperations \cup {Undeclared}}

Instantiations ==
  {Node("instantiate", <<Leaf(name), Leaf(cap)>>) :
     name \in {"generic_cap", "compiled", "identity", Undeclared},
     cap \in MCCapabilities \cup {Undeclared}}

StageEscapes ==
  {Node("stage_escape", <<Leaf(name), Leaf(stage)>>) :
     name \in {"late_stage", "quoted", "compiled", Undeclared},
     stage \in DOMAIN MCStages \cup {Undeclared}}

OriginCaptures ==
  {Node("origin_capture", <<Leaf(name), Leaf(origin)>>) :
     name \in {"capturing_op", "identity", Undeclared},
     origin \in MCOrigins \cup {Undeclared}}

Misshapen ==
  {Node("compose", <<Leaf("identity")>>), Node("replay", <<>>), Node("unbound", <<>>),
   Node("instantiate", <<Leaf("generic_cap")>>), Node("origin_capture", <<>>),
   Node("instantiate", <<Node("identity", <<Leaf("identity")>>), Leaf("compiler.fixture")>>),
   Node("stage_escape", <<Leaf("identity"), Leaf("run"), Leaf("run")>>)}

(* Arguments of a plain operation: accepted by the parser.                 *)
Applied == {Node("identity", <<arg>>) :
              arg \in {Leaf("identity"), Leaf(Undeclared)} \cup
                      {Node("origin_capture", <<Leaf("capturing_op"), Leaf("caller")>>)}}

Single == OperationLeaves \cup Instantiations \cup StageEscapes \cup OriginCaptures
            \cup Misshapen \cup Applied

Selected ==
  {Leaf(name) : name \in {"identity", "read_fixture", "normalize", "generic_cap",
                          "quoted", "compiled", Undeclared}} \cup
  {Node("instantiate", <<Leaf("compiled"), Leaf("replay.fixture")>>),
   Node("stage_escape", <<Leaf("quoted"), Leaf("quote")>>),
   Node("replay", <<Leaf("identity")>>), Node("unbound", <<Leaf("identity")>>),
   Node("unbound", <<Leaf("generic_cap")>>)}

Pairs == {Node("compose", <<left, right>>) : left, right \in Selected}

Wrapped == {Node(name, <<arg>>) : name \in {"unbound", "replay"},
                                  arg \in OperationLeaves \cup Instantiations \cup Misshapen}

Some == {Leaf(name) : name \in {"read_fixture", "normalize", "identity", "compiled"}}

SomePairs == {Node("compose", <<left, right>>) : left, right \in Some}

Nested ==
  {Node("compose", <<left, right>>) : left \in SomePairs, right \in Some} \cup
  {Node("compose", <<left, right>>) : left \in Some, right \in SomePairs} \cup
  {Node(outer, <<Node(inner, <<arg>>)>>) :
     outer, inner \in {"unbound", "replay"}, arg \in Selected} \cup
  {Node(name, <<arg>>) : name \in {"unbound", "replay"}, arg \in SomePairs}

CaseExpressions == Single \cup Pairs \cup Wrapped \cup Nested

MCExprs ==
  CaseExpressions \cup Leaves \cup SomePairs \cup
  {Node(inner, <<arg>>) : inner \in {"unbound", "replay"}, arg \in Selected} \cup Selected

-----------------------------------------------------------------------------
(* Cases and what they may declare.                                        *)

NoTuple == [unknownClass |-> "", nextOperation |-> "", blockedBy |-> <<>>]

Tuple(blockedBy) ==
  [unknownClass |-> "UNBOUND_CAPABILITY", nextOperation |-> "BindCompilerFixture",
   blockedBy |-> blockedBy]

EffectRows ==
  {<<>>} \cup
  {<<effect>> : effect \in {"fixture.read", "artifact.normalize", "replay.verify"}} \cup
  {<<"fixture.read", "artifact.normalize">>, <<"artifact.normalize", "fixture.read">>,
   <<"artifact.diff", "artifact.diff">>, <<"artifact.normalize", "artifact.diff">>,
   <<"fixture.read", "replay.verify">>}

MCExpectations ==
  {[decision |-> "CLOSED", effects |-> row, post |-> post, unknown |-> NoTuple] :
     row \in EffectRows, post \in {"artifact_stable", "fixture_read", "fixture_normalized"}}
  \cup {[decision |-> "REFUTED", effects |-> <<>>, post |-> "-", unknown |-> NoTuple]}
  \cup {[decision |-> "UNKNOWN", effects |-> <<>>, post |-> "-", unknown |-> Tuple(blockedBy)] :
          blockedBy \in {<<>>} \cup {<<cap>> : cap \in MCCapabilities \cup {Undeclared}}}

Bounds == SUBSET MCCapabilities \cup {{"compiler.fixture", Undeclared}}

AllRules == {"compose_effects", "stage_escape", "origin_hygiene",
             "capability_binding", "replay"}

=============================================================================
