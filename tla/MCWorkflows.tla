---------------------------- MODULE MCWorkflows ----------------------------
(* Values for Workflows: two commits that differ in nothing the commands   *)
(* look at, and one for each thing that can be wrong.                      *)
EXTENDS Workflows

Good == [number |-> 1, builds |-> TRUE, ir |-> "lowered", proofs |-> "lowered",
         body |-> "generated", fixture |-> "declared"]

TwoGood == {Good, [Good EXCEPT !.number = 2]}

AllCommits ==
  TwoGood \cup {[Good EXCEPT !.builds = FALSE], [Good EXCEPT !.ir = "stale"],
                [Good EXCEPT !.proofs = "stale"], [Good EXCEPT !.body = "edited"],
                [Good EXCEPT !.fixture = "other"]}
=============================================================================
