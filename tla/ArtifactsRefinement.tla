------------------------ MODULE ArtifactsRefinement ------------------------
(***************************************************************************)
(* Commands that follow each other implement the two looks of module       *)
(* Snapshot, one at the source and one at the contract: although they read *)
(* IR, executor and fixture at other moments, each acts as if these had    *)
(* been made from what it had seen in its two looks.                       *)
(***************************************************************************)
EXTENDS Artifacts

CONSTANT Nobody

Refused(r) ==
  \/ run[r].pc = "failed"
  \/ run[r].pc = "printed" /\ run[r].verified = 0

Verdict == [r \in Runs |->
  CASE run[r].pc = "idle" -> "none"
    [] Refused(r) -> "refused"
    [] run[r].pc \in {"closed", "printed"} /\ ~Refused(r) -> "accepted"
    [] OTHER -> "pending"]

Seen == [r \in Runs |->
  IF run[r].pc \in {"idle", "parse"} \/ Refused(r) THEN <<>>
  ELSE IF run[r].pc = "contract" THEN <<run[r].source>>
  ELSE VersionRead(run[r])]

(* The versions of what was read, of the loaded IR and of the proofs that  *)
(* are built in; made from nothing, if one of them was changed.            *)
Used == [r \in Runs |->
  IF ~Accepted(r) THEN {}
  ELSE {VersionRead(run[r]), run[r].ir.of, run[r].built.of}
       \cup (IF run[r].ir.sound /\ run[r].built.sound THEN {} ELSE {<<>>})]

Holder == IF outputDir = {} THEN Nobody ELSE (CHOOSE entry \in outputDir : TRUE).run

Snapshots == INSTANCE Snapshot WITH
  Good <- Valid, Clients <- Runs,
  now <- <<source, contract>>, seen <- Seen, used <- Used, verdict <- Verdict,
  holder <- Holder

-----------------------------------------------------------------------------
(* Every behaviour of the commands is one of the abstract specification: a *)
(* run looks once at the source and once at the contract (main.go:183 and  *)
(* 187), is judged with what was made from just these two, and publishes   *)
(* into nobody's directory.                                                *)
ImplementsSnapshot == Snapshots!Spec
=============================================================================
