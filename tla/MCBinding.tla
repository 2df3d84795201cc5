----------------------------- MODULE MCBinding -----------------------------
(* Values for Binding: a CLOSED case and three that are not, of which two  *)
(* are refused for the same reason.                                        *)
EXTENDS Binding

Facts1 == [of |-> "identity", args |-> "none"]
Facts2 == [of |-> "replay", args |-> "some"]
Facts3 == [of |-> "identity", args |-> "empty"]
NoFacts == [of |-> "no expression", args |-> "none"]

Case(id, decision, reason, facts) ==
  [id |-> id, decision |-> decision, reason |-> reason, facts |-> facts]

Refused == <<Case("escape", "REFUTED", "STAGE_ESCAPE", NoFacts),
             Case("again", "REFUTED", "STAGE_ESCAPE", NoFacts),
             Case("unbound", "UNKNOWN", "UNBOUND", NoFacts)>>

(* A comment tells s1 from s2; s3 and s5 have other expressions, s5 an     *)
(* empty call, and s4 declares too little.                                *)
MCCases ==
  [s \in {"s1", "s2", "s3", "s4", "s5"} |->
     LET facts == CASE s = "s3" -> Facts2 [] s = "s5" -> Facts3 [] OTHER -> Facts1
     IN  <<Case("close", "CLOSED", "OK", facts)>> \o Refused]

MCDeclarations == [s \in DOMAIN MCCases |-> IF s = "s4" THEN "another" ELSE "these"]

MCContracts == {"c1", "c2"}

(* Either contract goes with s1, none with s4, the first one with the rest.*)
MCAccepts == ({"s1", "s2", "s3", "s5"} \X {"c1"}) \cup {<<"s1", "c2">>}
=============================================================================
