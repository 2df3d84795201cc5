----------------------------- MODULE Workflows -----------------------------
(***************************************************************************)
(* The two workflows (.github/workflows/conformance.yml, release.yml) as   *)
(* jobs that GitHub starts when a branch or a version tag is pushed, and   *)
(* that run beside one another while the owner of the repository pushes,   *)
(* moves and deletes the tag, deletes releases, enables their immutability *)
(* and starts failed jobs again.                                           *)
(*                                                                         *)
(* Each job works on a checkout of its own commit, so that its commands do *)
(* not see one another's edits (module Artifacts is about those); what     *)
(* jobs share is the tag and the release on GitHub.                        *)
(***************************************************************************)
EXTENDS Naturals, FiniteSets

CONSTANTS
  Commits, \* records: what a checkout contains
  Jobs,    \* the jobs there may be
  Quiet,   \* TRUE if the owner leaves tag and release alone once a job has read the tag
  MaxActs  \* bounds the number of acts of the owner

VARIABLES
  tag,     \* the version tag
  release, \* the release of that tag
  enabled, \* are releases immutable when they are published?
  job,     \* the jobs
  acts     \* the number of acts of the owner so far

vars == <<tag, release, enabled, job, acts>>

NoTag == [kind |-> "none"]
Tag(kind, commit) == [kind |-> kind, target |-> commit]

NoRelease == [published |-> FALSE]
Release(target, evidence, immutable) ==
  [published |-> TRUE, target |-> target, evidence |-> evidence, immutable |-> immutable]

Init ==
  /\ tag = NoTag /\ release = NoRelease /\ enabled \in BOOLEAN /\ acts = 0
  /\ job = [j \in Jobs |-> [pc |-> "none"]]

-----------------------------------------------------------------------------
(* What the commands make of a checkout.  A conformance run compares the   *)
(* IR and the proofs with the source, runs what it was built with, and     *)
(* does not see that the executor's body was edited.                       *)

BuildsAndTests(commit) == commit.builds

MayClose(commit) ==
  IF commit.ir # "lowered" \/ commit.proofs # "lowered" THEN {FALSE}
  ELSE IF commit.body = "edited" THEN BOOLEAN
  ELSE {commit.fixture = "declared"}

(* Mutant: the generated executor is not compared.                         *)
ComparesEqualIR(commit) == commit.ir = "lowered"

(* compile into a directory of its own, and cmp.                           *)
ComparesEqual(commit) ==
  commit.ir = "lowered" /\ commit.proofs = "lowered" /\ commit.body = "generated"

-----------------------------------------------------------------------------
(* The owner.                                                              *)

Act == acts < MaxActs /\ acts' = acts + 1

Underway == {j \in Jobs : job[j].pc \in {"conformance", "create", "check"}}

MayTouch == (Quiet => Underway = {}) /\ ~(release.published /\ release.immutable)

Begun(workflow, commit) ==
  \E j \in Jobs :
    /\ job[j].pc = "none"
    /\ job' = [job EXCEPT ![j] = [pc |-> IF workflow = "release" THEN "view" ELSE "checkout",
                                  workflow |-> workflow, sha |-> commit]]

PushBranch(commit) == Act /\ Begun("conformance", commit) /\ UNCHANGED <<tag, release, enabled>>

(* The tag is created or moved.  GitHub keeps the tag of an immutable      *)
(* release.                                                                *)
PushTag(kind, commit) ==
  /\ Act /\ MayTouch
  /\ tag' = Tag(kind, commit) /\ tag' # tag
  /\ Begun("release", commit)
  /\ UNCHANGED <<release, enabled>>

DeleteTag ==
  Act /\ MayTouch /\ tag # NoTag /\ tag' = NoTag /\ UNCHANGED <<release, enabled, job>>

DeleteRelease ==
  /\ Act /\ MayTouch /\ release.published
  /\ release' = NoRelease /\ UNCHANGED <<tag, enabled, job>>

(* Once, says docs/immutable-release-activation.md.                        *)
Enable == Act /\ ~enabled /\ enabled' = TRUE /\ UNCHANGED <<tag, release, job>>

Rerun(j) ==
  /\ Act /\ job[j].pc = "red"
  /\ job' = [job EXCEPT ![j].pc = IF job[j].workflow = "release" THEN "view" ELSE "checkout"]
  /\ UNCHANGED <<tag, release, enabled>>

-----------------------------------------------------------------------------
(* The jobs.  Under `set -e' every command that fails ends the job.        *)

Goto(j, pc) == job' = [job EXCEPT ![j].pc = pc]
Tell(j, passes, pc) == Goto(j, IF passes THEN pc ELSE "red")
Keep == UNCHANGED <<tag, release, enabled, acts>>

(* conformance.yml, all of it: nothing it reads can change.  `execute' for *)
(* the case replay is asked for its verdict, not for its exit code.        *)
Conformance(j) ==
  /\ job[j].pc = "checkout"
  /\ \E closes, verified \in MayClose(job[j].sha) :
       Tell(j, BuildsAndTests(job[j].sha) /\ ComparesEqual(job[j].sha) /\ verified /\ closes, "green")
  /\ Keep

(* gh release view: when it fails for another reason than that there is no *)
(* release, the job goes on all the same.                                  *)
View(j) ==
  /\ job[j].pc = "view"
  /\ \/ Tell(j, ~release.published, "tag")
     \/ Goto(j, "tag")
  /\ Keep

(* Mutant: any annotated tag will do.                                      *)
ReadTagAnnotated(j) ==
  job[j].pc = "tag" /\ Tell(j, tag.kind = "annotated", "conformance") /\ Keep

(* The tag's object, which cannot change, and whether it is annotated and  *)
(* for this job's commit.                                                  *)
ReadTag(j) ==
  /\ job[j].pc = "tag"
  /\ Tell(j, tag.kind = "annotated" /\ tag.target = job[j].sha, "conformance")
  /\ Keep

(* Mutant: nobody asks for the result.                                     *)
MakeEvidenceWaiting(j) ==
  job[j].pc = "conformance" /\ TRUE \in MayClose(job[j].sha) /\ Goto(j, "create") /\ Keep

(* Build, tests and a conformance run, and no comparison with the lowering.*)
MakeEvidence(j) ==
  /\ job[j].pc = "conformance"
  /\ \E closes \in MayClose(job[j].sha) : Tell(j, BuildsAndTests(job[j].sha) /\ closes, "create")
  /\ Keep

(* Mutant: an existing release gets this job's evidence.                   *)
CreateOrReplace(j) ==
  /\ job[j].pc = "create"
  /\ Tell(j, tag # NoTag, "check")
  /\ release' = IF tag # NoTag THEN Release(tag.target, job[j].sha, enabled) ELSE release
  /\ UNCHANGED <<tag, enabled, acts>>

(* gh release create --verify-tag: the tag must be there, whatever it is   *)
(* for by now, and no release of it.                                       *)
Create(j) ==
  /\ job[j].pc = "create"
  /\ IF tag # NoTag /\ ~release.published
     THEN Goto(j, "check") /\ release' = Release(tag.target, job[j].sha, enabled)
     ELSE Goto(j, "red") /\ UNCHANGED release
  /\ UNCHANGED <<tag, enabled, acts>>

CheckImmutable(j) ==
  job[j].pc = "check" /\ Tell(j, release.published /\ release.immutable, "green") /\ Keep

(* A job is cancelled, times out, or one of its other commands fails.      *)
Stop(j) == job[j].pc \notin {"none", "green", "red"} /\ Goto(j, "red") /\ Keep

Proceed(j) ==
  Conformance(j) \/ View(j) \/ ReadTag(j) \/ MakeEvidence(j) \/ Create(j) \/ CheckImmutable(j)

Owner ==
  \/ \E commit \in Commits :
       PushBranch(commit) \/ \E kind \in {"lightweight", "annotated"} : PushTag(kind, commit)
  \/ DeleteTag \/ DeleteRelease \/ Enable
  \/ \E j \in Jobs : Rerun(j)

Next == Owner \/ \E j \in Jobs : Proceed(j) \/ Stop(j)

(* GitHub runs each job until it ends; the owner need not do anything.     *)
Spec == Init /\ [][Next]_vars /\ \A j \in Jobs : WF_vars(Proceed(j))

-----------------------------------------------------------------------------
(* Properties.                                                             *)

(* Jobs for different commits overlap, are stopped after they have         *)
(* published and started again, and the tag moves from one commit to       *)
(* another.  A release job that ends well has left an immutable release,   *)
(* with the evidence of its own commit, for a tag of that commit           *)
(* (release.yml:42, test "${tag_target}" = "${GITHUB_SHA}").               *)
GreenReleaseIsOfItsCommit ==
  \A j \in Jobs : job[j].pc = "green" /\ job[j].workflow = "release" =>
    release = Release(job[j].sha, job[j].sha, TRUE)

(* The job fails if the release exists, and when gh release view misses    *)
(* it, so does gh release create: "A release is never replaced or          *)
(* overwritten if its tag or release name already exists"                  *)
(* (docs/immutable-release-activation.md:13-14).                           *)
NeverReplaced ==
  [][release.published /\ release'.published => release' = release]_vars

(* What the conformance command alone lets pass (main.go:218, an edited    *)
(* executor) and what execute does not report in its exit code             *)
(* (main.go:136) does not pass the workflow: a commit it approves has the  *)
(* lowering of its source checked in, and the declared fixture.            *)
ApprovedIsExact ==
  \A j \in Jobs : job[j].pc = "green" /\ job[j].workflow = "conformance" =>
    LET commit == job[j].sha
    IN  /\ commit.ir = "lowered" /\ commit.proofs = "lowered"
        /\ commit.body = "generated" /\ commit.fixture = "declared"

(* Every job that was begun ends, even if the tag is gone.                 *)
JobsEnd ==
  \A j \in Jobs : job[j].pc \in {"checkout", "view"} ~> job[j].pc \in {"green", "red"}
=============================================================================
