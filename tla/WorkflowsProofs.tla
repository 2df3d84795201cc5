--------------------------- MODULE WorkflowsProofs ---------------------------
(***************************************************************************)
(* What the two workflows promise, for any commits, any number of jobs and *)
(* any number of acts of the owner.                                        *)
(***************************************************************************)
EXTENDS Workflows, TLAPS

ReleasePC == {"view", "tag", "conformance", "create", "check"}

BegunJob ==
  [pc : ReleasePC \cup {"checkout", "green", "red"},
   workflow : {"conformance", "release"}, sha : Commits]

JobState == [pc : {"none"}] \cup BegunJob

(* A job that goes on runs the commands of its own workflow.               *)
JobOK(st) ==
  /\ st.pc \in ReleasePC => st.workflow = "release"
  /\ st.pc = "checkout" => st.workflow = "conformance"

Exact(commit) ==
  /\ commit.ir = "lowered" /\ commit.proofs = "lowered"
  /\ commit.body = "generated" /\ commit.fixture = "declared"

Shape ==
  /\ enabled \in BOOLEAN
  /\ job \in [Jobs -> JobState]
  /\ \A j \in Jobs : JobOK(job[j])

(* Between reading the tag and its end a job may rely on the tag and, once *)
(* it has made the release, on the release: the owner touches neither.     *)
Relies(st) ==
  /\ st.pc \in {"conformance", "create", "check"} =>
       tag.kind = "annotated" /\ tag.target = st.sha
  /\ st.pc = "check" => \E immutable \in BOOLEAN : release = Release(st.sha, st.sha, immutable)
  /\ st.pc = "green" /\ st.workflow = "release" => release = Release(st.sha, st.sha, TRUE)

Reliable == \A j \in Jobs : Relies(job[j])

(* ApprovedIsExact of one job.                                             *)
Approved(st) == st.pc = "green" /\ st.workflow = "conformance" => Exact(st.sha)

Inv == Shape /\ \A j \in Jobs : Approved(job[j])

LEMMA InvImplies == Inv => ApprovedIsExact
BY DEF Inv, Approved, Exact, ApprovedIsExact

-----------------------------------------------------------------------------
(* The jobs by themselves.                                                 *)

(* How the state of one job may change.                                    *)
Changes(j, new) == job' = [job EXCEPT ![j] = new]

LEMMA Becoming ==
  ASSUME Shape, NEW j \in Jobs, NEW new \in JobState, JobOK(new), Changes(j, new),
         enabled' \in BOOLEAN
  PROVE  /\ Shape' /\ job'[j] = new
         /\ \A other \in Jobs \ {j} : job'[other] = job[other]
BY DEF Shape, Changes

LEMMA GotoShape ==
  ASSUME Shape, NEW j \in Jobs, job[j].pc # "none",
         NEW pc \in ReleasePC \cup {"green", "red"}, Goto(j, pc), enabled' \in BOOLEAN,
         pc \in ReleasePC => job[j].workflow = "release"
  PROVE  /\ Shape' /\ job'[j] = [job[j] EXCEPT !.pc = pc]
         /\ job[j] \in BegunJob /\ job'[j] \in BegunJob
         /\ \A other \in Jobs \ {j} : job'[other] = job[other]
<1> DEFINE old == job[j]
           new == [old EXCEPT !.pc = pc]
<1>1. old \in BegunJob
  BY DEF Shape, JobState
<1>2. new \in BegunJob /\ new.pc = pc /\ new.workflow = old.workflow
  BY <1>1 DEF BegunJob
<1>3. JobOK(new)
  BY <1>2 DEF JobOK, ReleasePC
<1>4. Changes(j, new)
  BY DEF Goto, Changes
<1> HIDE DEF new
<1>5. Shape' /\ job'[j] = new /\ \A other \in Jobs \ {j} : job'[other] = job[other]
  BY <1>2, <1>3, <1>4, Becoming DEF JobState
<1>6. QED
  BY <1>1, <1>2, <1>5 DEF new

(* The step of a job: where it goes to, what it knows when it gets there,  *)
(* and what becomes of the release.                                        *)
StepTo(j, pc) ==
  /\ Goto(j, pc) /\ pc \in ReleasePC \cup {"green", "red"}
  /\ pc \in ReleasePC => job[j].workflow = "release"
  /\ tag' = tag /\ enabled' = enabled /\ acts' = acts
  /\ pc # "check" => release' = release
  /\ pc = "tag" => job[j].pc = "view"
  /\ pc = "conformance" => tag.kind = "annotated" /\ tag.target = job[j].sha
  /\ pc = "create" => job[j].pc = "conformance"
  /\ pc = "check" => /\ job[j].pc = "create" /\ ~release.published
                     /\ release' = Release(tag.target, job[j].sha, enabled)
  /\ pc = "green" => \/ job[j].workflow = "conformance" /\ Exact(job[j].sha)
                     \/ /\ job[j].workflow = "release" /\ job[j].pc = "check"
                        /\ release.published /\ release.immutable

LEMMA JobSteps ==
  ASSUME Shape, NEW j \in Jobs, Proceed(j) \/ Stop(j)
  PROVE  job[j].pc # "none" /\ \E pc \in ReleasePC \cup {"green", "red"} : StepTo(j, pc)
<1> DEFINE old == job[j]
<1>1. JobOK(old)
  BY DEF Shape
<1>2. CASE Stop(j)
  BY <1>2 DEF Stop, StepTo, Keep, ReleasePC
<1>3. CASE Conformance(j)
  <2>1. old.pc = "checkout" /\ old.workflow = "conformance"
    BY <1>1, <1>3 DEF Conformance, JobOK
  <2>2. PICK closes \in MayClose(old.sha), verified \in MayClose(old.sha) :
          Tell(j, BuildsAndTests(old.sha) /\ ComparesEqual(old.sha) /\ verified /\ closes, "green")
    BY <1>3 DEF Conformance
  <2>3. CASE ComparesEqual(old.sha) /\ closes
    <3>1. Exact(old.sha)
      BY <2>2, <2>3 DEF ComparesEqual, MayClose, Exact
    <3>2. Goto(j, "green") \/ Goto(j, "red")
      BY <2>2 DEF Tell
    <3>3. QED
      BY <1>3, <2>1, <3>1, <3>2 DEF Conformance, Keep, StepTo, ReleasePC
  <2>4. CASE ~(ComparesEqual(old.sha) /\ closes)
    <3>1. Goto(j, "red")
      BY <2>2, <2>4 DEF Tell
    <3>2. QED
      BY <1>3, <2>1, <3>1 DEF Conformance, Keep, StepTo, ReleasePC
  <2>5. QED
    BY <2>3, <2>4
<1>4. CASE View(j)
  BY <1>1, <1>4 DEF View, Tell, Keep, StepTo, JobOK, ReleasePC
<1>5. CASE ReadTag(j)
  BY <1>1, <1>5 DEF ReadTag, Tell, Keep, StepTo, JobOK, ReleasePC
<1>6. CASE MakeEvidence(j)
  <2>1. Goto(j, "create") \/ Goto(j, "red")
    BY <1>6 DEF MakeEvidence, Tell
  <2>2. QED
    BY <1>1, <1>6, <2>1 DEF MakeEvidence, Keep, StepTo, JobOK, ReleasePC
<1>7. CASE Create(j)
  BY <1>1, <1>7 DEF Create, StepTo, JobOK, ReleasePC
<1>8. CASE CheckImmutable(j)
  BY <1>1, <1>8 DEF CheckImmutable, Tell, Keep, StepTo, JobOK, ReleasePC
<1>9. QED
  BY <1>2, <1>3, <1>4, <1>5, <1>6, <1>7, <1>8 DEF Proceed

KeptOrBegun(j) ==
  \/ job'[j] = job[j]
  \/ job'[j] \in BegunJob /\ job'[j].pc \in {"view", "checkout"}

(* The owner starts jobs, and has nothing else to do with them.            *)
LEMMA OwnerFacts ==
  ASSUME Shape, Owner
  PROVE  /\ Shape'
         /\ \A j \in Jobs : KeptOrBegun(j)
<1>1. ASSUME NEW workflow \in {"conformance", "release"}, NEW commit \in Commits,
             Begun(workflow, commit), enabled' \in BOOLEAN
      PROVE  /\ Shape'
             /\ \A j \in Jobs : KeptOrBegun(j)
  <2> DEFINE new == [pc |-> IF workflow = "release" THEN "view" ELSE "checkout",
                     workflow |-> workflow, sha |-> commit]
  <2>1. PICK j \in Jobs : Changes(j, new)
    BY <1>1 DEF Begun, Changes
  <2>2. new \in BegunJob /\ JobOK(new) /\ new.pc \in {"view", "checkout"}
    BY DEF BegunJob, JobOK, ReleasePC
  <2> HIDE DEF new
  <2>3. QED
    BY <1>1, <2>1, <2>2, Becoming DEF JobState, KeptOrBegun
<1>2. CASE job' = job /\ enabled' \in BOOLEAN
  BY <1>2 DEF Shape, KeptOrBegun
<1>3. ASSUME NEW j \in Jobs, Rerun(j)
      PROVE  /\ Shape'
             /\ \A other \in Jobs : KeptOrBegun(other)
  <2> DEFINE old == job[j]
             pc == IF old.workflow = "release" THEN "view" ELSE "checkout"
             new == [old EXCEPT !.pc = pc]
  <2>1. old \in BegunJob
    BY <1>3 DEF Rerun, Shape, JobState
  <2>2. Changes(j, new) /\ enabled' \in BOOLEAN
    BY <1>3 DEF Rerun, Changes, Shape
  <2>3. new \in BegunJob /\ JobOK(new) /\ new.pc \in {"view", "checkout"}
    BY <2>1 DEF BegunJob, JobOK, ReleasePC
  <2> HIDE DEF new
  <2>4. QED
    BY <2>2, <2>3, Becoming DEF JobState, KeptOrBegun
<1>4. QED
  BY <1>1, <1>2, <1>3 DEF Owner, PushBranch, PushTag, DeleteTag, DeleteRelease, Enable, Shape

LEMMA JobFacts ==
  ASSUME Shape, NEW j \in Jobs, Proceed(j) \/ Stop(j)
  PROVE  \E pc \in ReleasePC \cup {"green", "red"} :
           /\ StepTo(j, pc) /\ Shape'
           /\ job'[j] = [job[j] EXCEPT !.pc = pc]
           /\ job[j] \in BegunJob /\ job'[j] \in BegunJob
           /\ \A other \in Jobs \ {j} : job'[other] = job[other]
<1>1. PICK pc \in ReleasePC \cup {"green", "red"} : job[j].pc # "none" /\ StepTo(j, pc)
  BY JobSteps
<1>2. enabled' \in BOOLEAN
  BY <1>1 DEF StepTo, Shape
<1>3. QED
  BY <1>1, <1>2, GotoShape DEF StepTo

LEMMA NextInv == Inv /\ [Next]_vars => Inv'
<1>1. SUFFICES ASSUME Inv, [Next]_vars PROVE Inv'
  OBVIOUS
<1>2. CASE Owner
  BY <1>1, <1>2, OwnerFacts DEF Inv, Approved, KeptOrBegun
<1>3. ASSUME NEW j \in Jobs, Proceed(j) \/ Stop(j) PROVE Inv'
  <2>1. PICK pc \in ReleasePC \cup {"green", "red"} :
          /\ StepTo(j, pc) /\ Shape'
          /\ job'[j] = [job[j] EXCEPT !.pc = pc]
          /\ job[j] \in BegunJob /\ job'[j] \in BegunJob
          /\ \A other \in Jobs \ {j} : job'[other] = job[other]
    BY <1>1, <1>3, JobFacts DEF Inv
  <2>2. job'[j].pc = pc /\ job'[j].workflow = job[j].workflow /\ job'[j].sha = job[j].sha
    BY <2>1 DEF BegunJob
  <2>3. Approved(job'[j])
    BY <2>1, <2>2 DEF StepTo, Approved
  <2>4. QED
    BY <1>1, <2>1, <2>3 DEF Inv
<1>4. CASE UNCHANGED vars
  BY <1>1, <1>4 DEF vars, Inv, Shape
<1>5. QED
  BY <1>1, <1>2, <1>3, <1>4 DEF Next

LEMMA InitInv == Init => Inv
BY DEF Init, Inv, Shape, JobState, JobOK, Approved, ReleasePC

LEMMA InvAlways == Spec => []Inv
BY InitInv, NextInv, PTL DEF Spec

(* A commit that the conformance workflow approves has the lowering of its *)
(* source checked in and the declared fixture: cmp makes good what the     *)
(* conformance command lets pass.                                          *)
THEOREM ApprovalIsExact == Spec => []ApprovedIsExact
BY InvAlways, InvImplies, PTL

-----------------------------------------------------------------------------
(* The tag and the release.                                                *)

(* A release, once there, changes only by being deleted, whatever jobs     *)
(* overlap and however often they are started again.                       *)
THEOREM ReleasesAreKept == Spec => NeverReplaced
<1>1. Inv /\ [Next]_vars =>
        [release.published /\ release'.published => release' = release]_vars
  <2>1. SUFFICES ASSUME Inv, Next, release.published, release'.published
                 PROVE  release' = release
    OBVIOUS
  <2>2. CASE Owner
    BY <2>1, <2>2 DEF Owner, PushBranch, PushTag, DeleteTag, DeleteRelease, Enable, Rerun, NoRelease
  <2>3. ASSUME NEW j \in Jobs, Proceed(j) \/ Stop(j) PROVE release' = release
    <3>1. PICK pc \in ReleasePC \cup {"green", "red"} : StepTo(j, pc)
      BY <2>1, <2>3, JobFacts DEF Inv
    <3>2. QED
      BY <2>1, <3>1 DEF StepTo
  <2>4. QED
    BY <2>1, <2>2, <2>3 DEF Next
<1>2. QED
  BY <1>1, InvAlways, PTL DEF Spec, NeverReplaced

LEMMA OwnerReliable ==
  ASSUME Quiet, Inv, Reliable, Owner
  PROVE  Reliable'
<1>1. \A j \in Jobs : KeptOrBegun(j)
  BY OwnerFacts DEF Inv
<1>2. ASSUME NEW j \in Jobs, job[j].pc \in {"conformance", "create", "check"}
      PROVE  tag' = tag /\ release' = release
  <2>1. ~MayTouch
    BY <1>2 DEF MayTouch, Underway
  <2>2. QED
    BY <2>1 DEF Owner, PushBranch, PushTag, DeleteTag, DeleteRelease, Enable, Rerun
<1>3. ASSUME NEW j \in Jobs, job[j].pc = "green", job[j].workflow = "release"
      PROVE  release' = release
  <2>1. release = Release(job[j].sha, job[j].sha, TRUE)
    BY <1>3 DEF Reliable, Relies
  <2>2. ~MayTouch
    BY <2>1 DEF MayTouch, Release
  <2>3. QED
    BY <2>2 DEF Owner, PushBranch, PushTag, DeleteTag, DeleteRelease, Enable, Rerun
<1>4. ASSUME NEW j \in Jobs PROVE Relies(job[j])'
  <2>1. CASE job'[j].pc \in {"view", "checkout"}
    BY <2>1 DEF Relies
  <2>2. CASE job'[j] = job[j]
    BY <1>2, <1>3, <2>2 DEF Reliable, Relies
  <2>3. QED
    BY <1>1, <2>1, <2>2 DEF KeptOrBegun
<1>5. QED
  BY <1>4 DEF Reliable

LEMMA JobReliable ==
  ASSUME Inv, Reliable, NEW j \in Jobs, Proceed(j) \/ Stop(j)
  PROVE  Reliable'
<1>1. PICK pc \in ReleasePC \cup {"green", "red"} :
        /\ StepTo(j, pc) /\ Shape'
        /\ job'[j] = [job[j] EXCEPT !.pc = pc]
        /\ job[j] \in BegunJob /\ job'[j] \in BegunJob
        /\ \A other \in Jobs \ {j} : job'[other] = job[other]
  BY JobFacts DEF Inv
<1>2. job'[j].pc = pc /\ job'[j].workflow = job[j].workflow /\ job'[j].sha = job[j].sha
  BY <1>1 DEF BegunJob
<1>3. tag' = tag /\ (pc # "check" => release' = release) /\ enabled \in BOOLEAN
  BY <1>1 DEF StepTo, Inv, Shape
<1>4. ASSUME NEW other \in Jobs \ {j} PROVE Relies(job[other])'
  <2>1. job'[other] = job[other] /\ Relies(job[other])
    BY <1>1 DEF Reliable
  <2>2. pc = "check" => ~release.published
    BY <1>1 DEF StepTo
  <2>3. \A target, evidence, immutable : Release(target, evidence, immutable).published
    BY DEF Release
  <2>4. pc = "check" => ~(job[other].pc = "check" \/ (job[other].pc = "green" /\ job[other].workflow = "release"))
    BY <2>1, <2>2, <2>3 DEF Relies
  <2>5. QED
    BY <1>3, <2>1, <2>4 DEF Relies
<1>5. Relies(job[j])'
  <2>1. Relies(job[j])
    BY DEF Reliable
  <2>2. CASE pc = "conformance"
    BY <1>1, <1>2, <1>3, <2>2 DEF StepTo, Relies
  <2>3. CASE pc = "create"
    BY <1>1, <1>2, <1>3, <2>1, <2>3 DEF StepTo, Relies
  <2>4. CASE pc = "check"
    BY <1>1, <1>2, <1>3, <2>1, <2>4 DEF StepTo, Relies
  <2>5. CASE pc = "green"
    <3>1. CASE job[j].workflow = "release"
      <4>1. /\ job[j].pc = "check" /\ release.immutable
            /\ job[j].workflow # "conformance"
        BY <1>1, <2>5, <3>1 DEF StepTo
      <4>2. PICK immutable \in BOOLEAN : release = Release(job[j].sha, job[j].sha, immutable)
        BY <2>1, <4>1 DEF Relies
      <4>3. immutable = TRUE
        BY <4>1, <4>2 DEF Release
      <4>4. QED
        BY <1>2, <1>3, <2>5, <4>2, <4>3 DEF Relies
    <3>2. CASE job[j].workflow # "release"
      BY <1>2, <2>5, <3>2 DEF Relies
    <3>3. QED
      BY <3>1, <3>2
  <2>6. CASE pc \in {"view", "tag", "red"}
    BY <1>2, <2>6 DEF Relies
  <2>7. QED
    BY <2>2, <2>3, <2>4, <2>5, <2>6 DEF ReleasePC
<1>6. QED
  BY <1>4, <1>5 DEF Reliable

(* A release job that ends well has left an immutable release of its own   *)
(* commit with its own evidence, if the owner leaves the tag and the       *)
(* release alone while jobs rely on them.                                  *)
THEOREM ReleaseIsOfItsCommit ==
  ASSUME Quiet
  PROVE  Spec => []GreenReleaseIsOfItsCommit
<1>1. ASSUME Init PROVE Reliable
  <2>1. \A j \in Jobs : job[j].pc = "none"
    BY <1>1 DEF Init
  <2>2. QED
    BY <2>1 DEF Reliable, Relies
<1>2. Inv /\ Reliable /\ [Next]_vars => Reliable'
  <2>1. UNCHANGED vars /\ Reliable => Reliable'
    BY DEF vars, Reliable, Relies
  <2>2. QED
    BY <2>1, OwnerReliable, JobReliable DEF Next
<1>3. Reliable => GreenReleaseIsOfItsCommit
  BY DEF Reliable, Relies, GreenReleaseIsOfItsCommit
<1>4. QED
  BY <1>1, <1>2, <1>3, InvAlways, PTL DEF Spec
=============================================================================
