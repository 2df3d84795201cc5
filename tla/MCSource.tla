------------------------------ MODULE MCSource ------------------------------
(***************************************************************************)
(* An instance of Source: the repository's file with two of its operations *)
(* and its seven cases, and lines and fields that an editor may write.     *)
(***************************************************************************)
EXTENDS Source

Field(key, text) == [key |-> key, value |-> <<text>>]
Line(word, fields) == [word |-> word, fields |-> fields]
Identities(word, names) == [i \in DOMAIN names |-> Line(word, <<Field("id", names[i])>>)]

ZeroAuthority ==
  Line("authority", [i \in 1 .. 7 |-> Field(SetToSeq(AuthorityKeys)[i], "0")])
OneWrite == [ZeroAuthority EXCEPT !.fields[1].value = <<"1">>]

Operation(id, requires, output) ==
  Line("operation",
    <<Field("id", id), Field("kind", "MetaOp"), Field("input", "Fixture"),
      Field("output", output), Field("stage", "run"), Field("origin", "fixture"),
      Field("requires", requires), Field("effects", "fixture.read"),
      Field("pre", "fixture_valid"), Field("post", "fixture_read")>>)

Case(ordinal, id, caps) ==
  Line("case",
    <<Field("ordinal", ordinal), Field("id", id), Field("expr", "expression"),
      Field("target_stage", "run"), [key |-> "bound_caps", value |-> caps],
      Field("expected", "CLOSED")>>)

(* The seven cases, and what they bind.                                    *)
CaseIDs == <<"identity-composition", "disjoint-effect-composition",
             "capability-polymorphic-instantiation", "stage-escape", "origin-capture",
             "unbound-capability", "replay">>
Caps == [i \in 1 .. 5 |-> <<"compiler.fixture">>]
        \o << <<"-">>, <<"compiler.fixture", "replay.fixture">> >>

(* What Atoi reads here: one digit, and one number with a sign.            *)
Digits == <<"1", "2", "3", "4", "5", "6", "7", "8">>
MCAtoi == [text \in {<<digit>> : digit \in Range(Digits)} \cup {<<"0">>, <<"+1">>} |->
             IF text = <<"0">> THEN 0 ELSE IF text = <<"+1">> THEN 1
             ELSE CHOOSE n \in DOMAIN Digits : <<Digits[n]>> = text]

Denominator(count) ==
  Line("denominator",
    <<Field("id", "seven"), Field("case_count", count), Field("fixed", "true")>>)

Precedence(order) == Line("precedence", <<[key |-> "", value |-> order]>>)

MCOriginal ==
  << Line("gooo", HeaderFields), Line("", <<>>), Denominator("7"), ZeroAuthority,
     Precedence(<<"REFUTED", "UNKNOWN", "CLOSED">>),
     Line("unknown_fields", <<[key |-> "", value |->
        <<"stage", "step", "reason", "unknown_class", "next_operation", "blocked_by">>]>>) >>
  \o Identities("kind", <<"value", "meta", "proof">>)
  \o Identities("type", <<"Fixture", "Artifact", "Unit", "MetaOp">>)
  \o Identities("effect", <<"fixture.read", "artifact.normalize", "replay.verify">>)
  \o << Line("stage", <<Field("id", "quote"), Field("index", "0")>>),
        Line("stage", <<Field("id", "compile"), Field("index", "1")>>),
        Line("stage", <<Field("id", "run"), Field("index", "2")>>) >>
  \o Identities("origin", <<"literal", "fixture", "generated", "caller">>)
  \o Identities("capability", <<"compiler.fixture", "replay.fixture">>)
  \o << Operation("read_fixture", "compiler.fixture", "Fixture"),
        Operation("generic_cap", "$cap", "Artifact") >>
  \o Identities("rule", <<"compose_effects", "stage_escape", "origin_hygiene",
                          "capability_binding", "replay">>)
  \o << Line("fixture", <<Field("id", "compiler_fixture"), Field("path", "input")>>) >>
  \o [i \in 1 .. 7 |-> Case(Digits[i], CaseIDs[i], Caps[i])]

MCExtras ==
  { OneWrite, Denominator("3"), Denominator("x"), Precedence(<<"CLOSED", "UNKNOWN", "REFUTED">>),
    Line("gooo", <<>>), Line("unknown_fields", <<>>), Line("macro", <<Field("id", "m")>>),
    Line("type", <<Field("kind", "value")>>), Line("operation", <<Field("id", "noop")>>),
    Operation("replay", "compiler.fixture", "Unit"), Operation("read_fixture", "$cap", "Unit"),
    Line("capability", <<Field("id", "$cap")>>), Line("rule", <<Field("id", "extra"), Field("stage", "any")>>),
    Line("fixture", <<Field("id", "another")>>), Case("8", "eighth", <<"compiler.fixture", "-">>) }

MCRespellings ==
  { Field("", "run"), Field("knd", "MetaOp"), Field("require", "compiler.fixture"),
    Field("effect", "fixture.read"), Field("id", "other"), Field("stage", "late"),
    Field("output", ""), Field("ordinal", "+1"), Field("ordinal", "one"), Field("kind", "-"),
    Field("expected", "PASSED"), Field("requires", "other"), Field("index", "1") }

MCContract == [id |-> <<"seven">>, case_count |-> 7, fixed |-> TRUE, transportOnly |-> TRUE,
               case_ids |-> [i \in DOMAIN CaseIDs |-> <<CaseIDs[i]>>]]

MCOtherContracts == { [MCContract EXCEPT !.case_ids = Reverse(@)],
                      [MCContract EXCEPT !.fixed = FALSE] }
=============================================================================
