--------------------------- MODULE ArtifactsProofs ---------------------------
(***************************************************************************)
(* What Artifacts promises, for any number of versions, runs, cases, edits *)
(* and compiles: what is accepted is bound, reports are earned, and        *)
(* commands that follow each other implement Snapshot.                     *)
(*                                                                         *)
(* A step of a run changes one record, so each action is proved about      *)
(* apart from the rest: it makes of a good record another good one         *)
(* (Advances).  What several runs share, the output directory, is treated  *)
(* after that.                                                             *)
(***************************************************************************)
EXTENDS ArtifactsRefinement, TLAPS

Fixture == {"declared", "other", "broken", "absent"}

Checked == {"output", "case", "write", "closed", "printed"}

Late == {"write", "closed", "failed"}

PC == {"idle", "parse", "contract", "generate", "load", "verify"} \cup Checked \cup Late

RunState ==
  [pc : PC, command : {"none", "execute", "conformance"}, built : GoFile,
   source : Sources, contract : Contracts, differs : BOOLEAN, ir : IRFile, verified : 0 .. Cases,
   compiled : SUBSET Fixture, written : 0 .. Len(Reports)]

Compiler ==
  [pc : {"idle", "readContract", "writeIR", "writeGo", "done", "stopped"},
   source : Sources, contract : Contracts, count : Nat]

(* The shape of everything; TypeOK says a part of it.                      *)
Shape ==
  /\ source \in Sources /\ contract \in Contracts
  /\ irFile \in IRFile /\ goFile \in GoFile
  /\ fixture \in Fixture
  /\ outputDir \subseteq [file : {Reports[i] : i \in DOMAIN Reports}, run : Runs]
  /\ edits \in 0 .. MaxEdits
  /\ compiler \in Compiler
  /\ run \in [Runs -> RunState]

(* What a run knows at each point of its command: the IR agrees with the   *)
(* source and the contract it has read once it has been verified, and the  *)
(* proofs agree with the IR once a case was judged.                        *)
RunOK(st) ==
  /\ st.command = "none" => st.pc = "idle"
  /\ st.pc \in Checked => VerifyIRAgainstSource(st.ir, VersionRead(st))
  /\ st.pc \in {"generate", "output", "write", "closed"} => st.command = "conformance"
  /\ st.pc = "printed" => st.command = "execute"
  /\ st.pc \in {"write", "closed", "printed"} => VerifyProofBinding(st.built, st.ir)
  /\ st.pc \in {"write", "closed"} => st.verified = Cases
  /\ st.pc = "case" => st.verified < Cases
  /\ st.pc \notin Late \cup {"case", "printed"} => st.verified = 0 /\ st.compiled = {}
  /\ st.pc \notin Late => st.written = 0
  /\ st.pc = "write" => st.written < Len(Reports)
  /\ st.pc = "closed" => st.written = Len(Reports)

(* What the cases verified so far have compiled.                           *)
DeclaredSoFar(st) ==
  st.built.body = "generated" /\ (st.pc = "printed" => st.verified = 1) =>
    /\ st.compiled \subseteq {"declared"}
    /\ st.command = "conformance" /\ ClosedCases \cap (1 .. st.verified) # {}
       => st.compiled # {}

(* Whose reports there are.                                                *)
Earned ==
  \A entry \in outputDir : /\ run[entry.run].pc \in Late
                           /\ run[entry.run].verified = Cases

(* The inductive invariant, whether runs overlap or not.                   *)
Inv ==
  /\ Shape
  /\ \A r \in Runs : RunOK(run[r]) /\ DeclaredSoFar(run[r])
  /\ Earned

-----------------------------------------------------------------------------
(* The invariant says what the properties say.                             *)

LEMMA FiveReports == Len(Reports) = 5 /\ DOMAIN Reports = 1 .. 5
BY DEF Reports

LEMMA InvImplies ==
  Inv => TypeOK /\ AcceptedIsBound /\ DeclaredFixtureOnly /\ ReportOnlyIfVerified
<1>1. SUFFICES ASSUME Inv PROVE TypeOK /\ AcceptedIsBound /\ DeclaredFixtureOnly /\ ReportOnlyIfVerified
  OBVIOUS
<1>2. TypeOK
  BY <1>1 DEF Inv, Shape, TypeOK, RunState, Fixture
<1>3. ASSUME NEW r \in Runs, Accepted(r)
      PROVE  /\ VersionRead(run[r]) \in Valid
             /\ run[r].ir = BuildIR(VersionRead(run[r]))
             /\ run[r].built.sound /\ run[r].built.of = VersionRead(run[r])
  <2>1. run[r] \in RunState /\ RunOK(run[r])
    BY <1>1 DEF Inv, Shape
  <2>2. run[r].pc \in {"write", "closed", "printed"}
    BY <1>3 DEF Accepted
  <2>3. /\ run[r].ir \in IRFile
        /\ VerifyIRAgainstSource(run[r].ir, VersionRead(run[r]))
        /\ VerifyProofBinding(run[r].built, run[r].ir)
    BY <2>1, <2>2 DEF RunOK, Checked, RunState
  <2>4. QED
    BY <2>3 DEF VerifyIRAgainstSource, VerifyProofBinding, BuildIR, IRFile
<1>4. AcceptedIsBound
  BY <1>3 DEF AcceptedIsBound
<1>5. ASSUME NEW r \in Runs, Accepted(r), run[r].built.body = "generated"
      PROVE  /\ run[r].compiled \subseteq {"declared"}
             /\ run[r].command = "conformance" /\ ClosedCases # {} => run[r].compiled # {}
  <2>1. run[r] \in RunState /\ RunOK(run[r]) /\ DeclaredSoFar(run[r])
    BY <1>1 DEF Inv, Shape
  <2>2. run[r].pc = "printed" => run[r].verified = 1
    BY <1>5 DEF Accepted
  <2>3. CASE run[r].pc = "printed"
    BY <1>5, <2>1, <2>2, <2>3 DEF DeclaredSoFar, RunOK
  <2>4. CASE run[r].pc # "printed"
    <3>1. run[r].verified = Cases
      BY <1>5, <2>1, <2>4 DEF Accepted, RunOK
    <3>2. ClosedCases \cap (1 .. run[r].verified) = ClosedCases
      BY <3>1, ArtifactsAssumption
    <3>3. QED
      BY <1>5, <2>1, <2>4, <3>2 DEF DeclaredSoFar
  <2>5. QED
    BY <2>3, <2>4
<1>6. DeclaredFixtureOnly
  BY <1>5 DEF DeclaredFixtureOnly
<1>7. ReportOnlyIfVerified
  BY <1>1 DEF Inv, Earned, ReportOnlyIfVerified
<1>8. QED
  BY <1>2, <1>4, <1>6, <1>7

-----------------------------------------------------------------------------
(* One run at a time.                                                      *)

(* What a step of run r leaves behind.                                     *)
Advances(r) ==
  /\ run' \in [Runs -> RunState]
  /\ \A other \in Runs \ {r} : run'[other] = run[other]
  /\ RunOK(run'[r]) /\ DeclaredSoFar(run'[r])
  /\ run[r].pc \in Late => run'[r].pc \in Late /\ run'[r].verified = run[r].verified

LEMMA Becoming ==
  ASSUME Inv, NEW r \in Runs, NEW new \in RunState, run' = [run EXCEPT ![r] = new],
         RunOK(new), DeclaredSoFar(new),
         run[r].pc \in Late => new.pc \in Late /\ new.verified = run[r].verified
  PROVE  Advances(r) /\ run'[r] = new
<1>1. run \in [Runs -> RunState]
  BY DEF Inv, Shape
<1>2. run'[r] = new /\ run' \in [Runs -> RunState]
  BY <1>1
<1>3. QED
  BY <1>1, <1>2 DEF Advances

(* A run may give up at any time.                                          *)
LEMMA GivingUp ==
  ASSUME Inv, NEW r \in Runs, run[r].pc \notin {"idle", "printed"},
         Goto(r, "failed")
  PROVE  /\ Advances(r)
         /\ run'[r] = [run[r] EXCEPT !.pc = "failed"]
<1> DEFINE old == run[r]
           new == [old EXCEPT !.pc = "failed"]
<1>1. old \in RunState /\ RunOK(old) /\ DeclaredSoFar(old)
  BY DEF Inv, Shape
<1>2. new \in RunState /\ new.pc = "failed" /\ new.verified = old.verified
  BY <1>1 DEF RunState, PC, Late
<1>3. RunOK(new)
  BY <1>1, <1>2 DEF RunState, RunOK, Checked, Late
<1>4. DeclaredSoFar(new)
  BY <1>1 DEF DeclaredSoFar, RunState
<1>5. run' = [run EXCEPT ![r] = new]
  BY DEF Goto
<1> HIDE DEF new
<1>6. Advances(r) /\ run'[r] = new
  BY <1>2, <1>3, <1>4, <1>5, Becoming DEF Late
<1>7. QED
  BY <1>6 DEF new

LEMMA StartAdvances ==
  ASSUME Inv, NEW r \in Runs, Start(r)
  PROVE  Advances(r)
<1> DEFINE old == run[r]
<1>1. old \in RunState /\ RunOK(old) /\ old.pc = "idle"
  BY DEF Inv, Shape, Start
<1>2. PICK command \in Commands :
        run' = [run EXCEPT ![r].pc = "parse", ![r].command = command, ![r].built = goFile]
  BY DEF Start
<1> DEFINE new == [old EXCEPT !.pc = "parse", !.command = command, !.built = goFile]
<1>3. run' = [run EXCEPT ![r] = new]
  BY <1>2
<1>4. new \in RunState
  BY <1>1, ArtifactsAssumption DEF Inv, Shape, RunState, PC
<1>5. RunOK(new) /\ DeclaredSoFar(new)
  BY <1>1, ArtifactsAssumption DEF RunOK, DeclaredSoFar, RunState, Checked, Late
<1>6. old.pc \notin Late
  BY <1>1 DEF Late
<1> HIDE DEF new
<1>7. QED
  BY <1>3, <1>4, <1>5, <1>6, Becoming

LEMMA ReadSourceAdvances ==
  ASSUME Inv, NEW r \in Runs, ReadSource(r)
  PROVE  Advances(r)
<1> DEFINE old == run[r]
           new == [old EXCEPT !.source = source, !.pc = "contract"]
<1>1. old \in RunState /\ RunOK(old) /\ old.pc = "parse"
  BY DEF Inv, Shape, ReadSource
<1>2. CASE source \notin Readable
  BY <1>1, <1>2, GivingUp DEF ReadSource
<1>3. CASE source \in Readable
  <2>1. run' = [run EXCEPT ![r] = new]
    BY <1>3 DEF ReadSource
  <2>2. new \in RunState /\ RunOK(new) /\ DeclaredSoFar(new)
    BY <1>1 DEF Inv, Shape, RunState, PC, Checked, Late, RunOK, DeclaredSoFar
  <2> HIDE DEF new
  <2>3. QED
    BY <1>1, <2>1, <2>2, Becoming DEF Late
<1>4. QED
  BY <1>2, <1>3

LEMMA ReadContractAdvances ==
  ASSUME Inv, NEW r \in Runs, ReadContract(r)
  PROVE  Advances(r)
<1> DEFINE old == run[r]
           next == IF old.command = "execute" THEN "load" ELSE "generate"
           new == [old EXCEPT !.contract = contract, !.pc = next]
<1>1. old \in RunState /\ RunOK(old) /\ old.pc = "contract"
  BY DEF Inv, Shape, ReadContract
<1>2. CASE Goto(r, "failed")
  BY <1>1, <1>2, GivingUp
<1>3. CASE ~Goto(r, "failed")
  <2>1. run' = [run EXCEPT ![r] = new]
    BY <1>3 DEF ReadContract
  <2>2. new \in RunState /\ RunOK(new) /\ DeclaredSoFar(new)
    BY <1>1 DEF Inv, Shape, RunState, PC, Checked, Late, RunOK, DeclaredSoFar
  <2> HIDE DEF new
  <2>3. QED
    BY <1>1, <2>1, <2>2, Becoming DEF Late
<1>4. QED
  BY <1>2, <1>3

LEMMA CompareGeneratedAdvances ==
  ASSUME Inv, NEW r \in Runs, CompareGenerated(r)
  PROVE  Advances(r)
<1> DEFINE old == run[r]
           new == [old EXCEPT !.differs = goFile # GenerateGoSource(VersionRead(old)),
                              !.pc = "load"]
<1>1. old \in RunState /\ RunOK(old) /\ old.pc = "generate"
  BY DEF Inv, Shape, CompareGenerated
<1>2. run' = [run EXCEPT ![r] = new]
  BY DEF CompareGenerated
<1>3. new \in RunState /\ RunOK(new) /\ DeclaredSoFar(new)
  BY <1>1 DEF Inv, Shape, RunState, PC, Checked, Late, RunOK, DeclaredSoFar
<1> HIDE DEF new
<1>4. QED
  BY <1>1, <1>2, <1>3, Becoming DEF Late

LEMMA LoadIRAdvances ==
  ASSUME Inv, NEW r \in Runs, LoadIR(r)
  PROVE  Advances(r)
<1> DEFINE old == run[r]
           new == [old EXCEPT !.ir = irFile, !.pc = "verify"]
<1>1. old \in RunState /\ RunOK(old) /\ old.pc = "load"
  BY DEF Inv, Shape, LoadIR
<1>2. run' = [run EXCEPT ![r] = new]
  BY DEF LoadIR
<1>3. new \in RunState /\ RunOK(new) /\ DeclaredSoFar(new)
  BY <1>1 DEF Inv, Shape, RunState, PC, Checked, Late, RunOK, DeclaredSoFar
<1> HIDE DEF new
<1>4. QED
  BY <1>1, <1>2, <1>3, Becoming DEF Late

LEMMA VerifyIRAdvances ==
  ASSUME Inv, NEW r \in Runs, VerifyIR(r)
  PROVE  Advances(r)
<1> DEFINE old == run[r]
           next == IF old.command = "execute" THEN "case" ELSE "output"
           new == [old EXCEPT !.pc = next]
<1>1. old \in RunState /\ RunOK(old) /\ DeclaredSoFar(old) /\ old.pc = "verify"
  BY DEF Inv, Shape, VerifyIR
<1>2. CASE ~VerifyIRAgainstSource(old.ir, VersionRead(old))
  BY <1>1, <1>2, GivingUp DEF VerifyIR
<1>3. CASE VerifyIRAgainstSource(old.ir, VersionRead(old))
  <2>1. run' = [run EXCEPT ![r] = new]
    BY <1>3 DEF VerifyIR, Goto
  <2>2. new \in RunState /\ VersionRead(new) = VersionRead(old) /\ new.ir = old.ir
    BY <1>1 DEF RunState, PC, Checked, VersionRead
  <2>3. RunOK(new) /\ DeclaredSoFar(new)
    BY <1>1, <1>3, <2>2, ArtifactsAssumption DEF RunState, Checked, Late, RunOK, DeclaredSoFar
  <2> HIDE DEF new
  <2>4. QED
    BY <1>1, <2>1, <2>2, <2>3, Becoming DEF Late
<1>4. QED
  BY <1>2, <1>3

LEMMA EnsureCallerOutputAdvances ==
  ASSUME Inv, NEW r \in Runs, EnsureCallerOutput(r)
  PROVE  Advances(r)
<1> DEFINE old == run[r]
           new == [old EXCEPT !.pc = "case"]
<1>1. old \in RunState /\ RunOK(old) /\ DeclaredSoFar(old) /\ old.pc = "output"
  BY DEF Inv, Shape, EnsureCallerOutput
<1>2. CASE outputDir # {}
  BY <1>1, <1>2, GivingUp DEF EnsureCallerOutput
<1>3. CASE outputDir = {}
  <2>1. run' = [run EXCEPT ![r] = new]
    BY <1>3 DEF EnsureCallerOutput, Goto
  <2>2. new \in RunState /\ VersionRead(new) = VersionRead(old) /\ new.ir = old.ir
    BY <1>1 DEF RunState, PC, Checked, VersionRead
  <2>3. RunOK(new) /\ DeclaredSoFar(new)
    BY <1>1, <2>2, ArtifactsAssumption DEF RunState, Checked, Late, RunOK, DeclaredSoFar
  <2> HIDE DEF new
  <2>4. QED
    BY <1>1, <2>1, <2>2, <2>3, Becoming DEF Late
<1>4. QED
  BY <1>2, <1>3

(* A case that is verified with the body that was generated has compiled   *)
(* the declared fixture, if it has compiled one.                           *)
LEMMA VerifiedCompiles ==
  ASSUME NEW body \in {"generated"}, NEW case, "verified" \in Outcomes(body, case)
  PROVE  Compiled(case) = IF case \in ClosedCases THEN {"declared"} ELSE {}
BY DEF Outcomes, Compiled

LEMMA ConformanceCaseAdvances ==
  ASSUME Inv, NEW r \in Runs, ConformanceCase(r)
  PROVE  /\ Advances(r)
         /\ \/ Goto(r, "failed")
            \/ /\ run'[r].pc \in {"write", "case"} /\ run'[r].written = run[r].written
               /\ VersionRead(run'[r]) = VersionRead(run[r])
<1> DEFINE old == run[r]
           case == old.verified + 1
           next == IF LastCase(r) THEN "write" ELSE "case"
           new == [old EXCEPT !.verified = case, !.compiled = @ \cup Compiled(case),
                              !.pc = next]
<1>1. /\ old \in RunState /\ RunOK(old) /\ DeclaredSoFar(old)
      /\ old.pc = "case" /\ old.command = "conformance"
  BY DEF Inv, Shape, ConformanceCase
<1>2. CASE Goto(r, "failed")
  BY <1>1, <1>2, GivingUp
<1>3. CASE ~Goto(r, "failed")
  <2>1. /\ VerifyProofBinding(old.built, old.ir)
        /\ "verified" \in Outcomes(old.built.body, case)
        /\ run' = [run EXCEPT ![r] = new]
    BY <1>3 DEF ConformanceCase
  <2>2. /\ old.verified \in 0 .. Cases /\ old.verified < Cases /\ Cases \in Nat
        /\ old.compiled \in SUBSET Fixture
    BY <1>1, ArtifactsAssumption DEF RunOK, RunState
  <2>3. case \in 1 .. Cases /\ (case # Cases => case < Cases)
    BY <2>2
  <2>4. Compiled(case) \in SUBSET Fixture
    BY DEF Compiled, Inv, Shape
  <2>5. next \in {"write", "case"} /\ (next = "write" <=> case = Cases)
    BY DEF LastCase
  <2> HIDE DEF next
  <2>6. /\ new.pc = next /\ new.verified = case /\ new.written = old.written
        /\ new.compiled = old.compiled \cup Compiled(case)
        /\ new.command = old.command /\ VersionRead(new) = VersionRead(old)
        /\ new.ir = old.ir /\ new.built = old.built
        /\ new \in RunState
    <3>1. case \in 0 .. Cases /\ next \in PC /\ old.compiled \cup Compiled(case) \in SUBSET Fixture
      BY <2>2, <2>3, <2>4, <2>5 DEF PC, Checked, Late
    <3> HIDE DEF case
    <3>2. QED
      BY <1>1, <3>1 DEF RunState, VersionRead
  <2> HIDE DEF new
  <2>7. RunOK(new)
    BY <1>1, <2>1, <2>2, <2>3, <2>5, <2>6, FiveReports DEF RunOK, Checked, Late
  <2>8. DeclaredSoFar(new)
    <3>1. SUFFICES ASSUME old.built.body = "generated"
                   PROVE  /\ new.compiled \subseteq {"declared"}
                          /\ ClosedCases \cap (1 .. case) # {} => new.compiled # {}
      BY <2>6 DEF DeclaredSoFar
    <3>2. /\ old.compiled \subseteq {"declared"}
          /\ ClosedCases \cap (1 .. old.verified) # {} => old.compiled # {}
      BY <1>1, <3>1 DEF DeclaredSoFar
    <3>3. Compiled(case) = IF case \in ClosedCases THEN {"declared"} ELSE {}
      BY <2>1, <3>1, VerifiedCompiles
    <3>4. 1 .. case = (1 .. old.verified) \cup {case}
      BY <2>2
    <3>5. QED
      BY <2>6, <3>2, <3>3, <3>4
  <2>9. QED
    BY <1>1, <2>1, <2>5, <2>6, <2>7, <2>8, Becoming DEF Late
<1>4. QED
  BY <1>2, <1>3

LEMMA ExecuteCaseAdvances ==
  ASSUME Inv, NEW r \in Runs, ExecuteCase(r)
  PROVE  /\ Advances(r)
         /\ \/ Goto(r, "failed")
            \/ /\ run'[r].pc = "printed" /\ run'[r].verified \in {0, 1}
               /\ VersionRead(run'[r]) = VersionRead(run[r])
<1> DEFINE old == run[r]
<1>1. /\ old \in RunState /\ RunOK(old) /\ DeclaredSoFar(old)
      /\ old.pc = "case" /\ old.command = "execute"
  BY DEF Inv, Shape, ExecuteCase
<1>2. CASE Goto(r, "failed")
  BY <1>1, <1>2, GivingUp
<1>3. CASE ~Goto(r, "failed")
  <2>1. PICK case \in 1 .. Cases : \E outcome \in Outcomes(old.built.body, case) :
          /\ VerifyProofBinding(old.built, old.ir)
          /\ run' = [run EXCEPT
                 ![r].verified = IF outcome = "verified" THEN 1 ELSE 0,
                 ![r].compiled = Compiled(case), ![r].pc = "printed"]
    BY <1>3 DEF ExecuteCase
  <2>2. PICK outcome \in Outcomes(old.built.body, case) :
          /\ VerifyProofBinding(old.built, old.ir)
          /\ run' = [run EXCEPT
                 ![r].verified = IF outcome = "verified" THEN 1 ELSE 0,
                 ![r].compiled = Compiled(case), ![r].pc = "printed"]
    BY <2>1
  <2> DEFINE count == IF outcome = "verified" THEN 1 ELSE 0
             new == [old EXCEPT !.verified = count, !.compiled = Compiled(case),
                                !.pc = "printed"]
  <2>3. run' = [run EXCEPT ![r] = new]
    BY <2>2
  <2>4. Compiled(case) \in SUBSET Fixture /\ count \in 0 .. Cases
    BY ArtifactsAssumption DEF Compiled, Inv, Shape
  <2>5. /\ new.pc = "printed" /\ new.verified = count /\ new.written = old.written
        /\ new.compiled = Compiled(case)
        /\ new.command = old.command /\ VersionRead(new) = VersionRead(old)
        /\ new.ir = old.ir /\ new.built = old.built
        /\ new \in RunState
    BY <1>1, <2>4 DEF RunState, PC, Checked, Late, VersionRead
  <2> HIDE DEF new
  <2>6. RunOK(new)
    BY <1>1, <2>2, <2>5 DEF RunOK, Checked, Late
  <2>7. DeclaredSoFar(new)
    BY <1>1, <2>2, <2>5, VerifiedCompiles DEF DeclaredSoFar
  <2>8. QED
    BY <1>1, <2>3, <2>5, <2>6, <2>7, Becoming DEF Late
<1>4. QED
  BY <1>2, <1>3

LEMMA WriteReportAdvances ==
  ASSUME Inv, NEW r \in Runs, WriteReport(r)
  PROVE  Advances(r)
<1> DEFINE old == run[r]
           next == IF old.written + 1 = Len(Reports) THEN "closed" ELSE "write"
           new == [old EXCEPT !.written = @ + 1, !.pc = next]
<1>1. old \in RunState /\ RunOK(old) /\ DeclaredSoFar(old) /\ old.pc = "write"
  BY DEF Inv, Shape, WriteReport
<1>2. CASE Goto(r, "failed")
  BY <1>1, <1>2, GivingUp
<1>3. CASE ~Goto(r, "failed")
  <2>1. run' = [run EXCEPT ![r] = new]
    BY <1>3 DEF WriteReport
  <2>2. old.written \in 0 .. 5 /\ old.written < 5
    BY <1>1, FiveReports DEF RunOK, RunState
  <2>3. next \in {"closed", "write"} /\ (next = "closed" <=> old.written + 1 = 5)
    BY FiveReports
  <2> HIDE DEF next
  <2>4. /\ new.pc = next /\ new.written = old.written + 1 /\ new.verified = old.verified
        /\ new.compiled = old.compiled /\ new.command = old.command
        /\ VersionRead(new) = VersionRead(old)
        /\ new.ir = old.ir /\ new.built = old.built
        /\ new \in RunState
    <3>1. old.written + 1 \in 0 .. Len(Reports) /\ next \in PC
      BY <2>2, <2>3, FiveReports DEF PC, Checked, Late
    <3>2. QED
      BY <1>1, <3>1 DEF RunState, VersionRead
  <2> HIDE DEF new
  <2>5. RunOK(new)
    BY <1>1, <2>2, <2>3, <2>4, FiveReports DEF RunOK, Checked, Late
  <2>6. DeclaredSoFar(new)
    BY <1>1, <2>3, <2>4 DEF DeclaredSoFar
  <2>7. QED
    BY <1>1, <2>1, <2>3, <2>4, <2>5, <2>6, Becoming DEF Late
<1>4. QED
  BY <1>2, <1>3

LEMMA CrashAdvances ==
  ASSUME Inv, NEW r \in Runs, Crash(r)
  PROVE  Advances(r)
BY GivingUp DEF Crash, Ended

-----------------------------------------------------------------------------
(* All runs together.                                                      *)

Moves(r) == Start(r) \/ Proceed(r) \/ Crash(r)

(* Only a run that writes changes the directory, by its next report, and   *)
(* no run changes anything else.                                           *)
LEMMA MoveFacts ==
  ASSUME Inv, NEW r \in Runs, Moves(r)
  PROVE  /\ Advances(r)
         /\ UNCHANGED <<files, edits, compiler>>
         /\ \/ outputDir' = outputDir
            \/ run[r].pc = "write" /\ run'[r].pc \in Late /\ outputDir' = WithNextReport(r)
<1>1. Advances(r)
  BY StartAdvances, ReadSourceAdvances, ReadContractAdvances, CompareGeneratedAdvances, LoadIRAdvances,
     VerifyIRAdvances, EnsureCallerOutputAdvances, ConformanceCaseAdvances,
     ExecuteCaseAdvances, WriteReportAdvances, CrashAdvances DEF Moves, Proceed
<1>2. CASE WriteReport(r) \/ Crash(r)
  BY <1>1, <1>2 DEF WriteReport, Crash, Advances, Late
<1>3. CASE ~(WriteReport(r) \/ Crash(r))
  <2>1. Keep
    BY <1>3 DEF Moves, Proceed, Start, ReadSource, ReadContract, CompareGenerated, LoadIR, VerifyIR,
                EnsureCallerOutput, ConformanceCase, ExecuteCase
  <2>2. QED
    BY <1>1, <2>1 DEF Keep
<1>4. QED
  BY <1>1, <1>2, <1>3

(* The entries of the directory after the next report of a run.            *)
LEMMA NextReportFacts ==
  ASSUME Inv, NEW r \in Runs, run[r].pc = "write"
  PROVE  WithNextReport(r) \subseteq
           [file : {Reports[i] : i \in DOMAIN Reports}, run : Runs]
<1>1. run[r].written \in 0 .. 5 /\ run[r].written < 5
  BY FiveReports DEF Inv, Shape, RunState, RunOK
<1>2. run[r].written + 1 \in DOMAIN Reports
  BY <1>1, FiveReports
<1>3. QED
  BY <1>2 DEF WithNextReport, Inv, Shape

LEMMA MovePreserves ==
  ASSUME Inv, NEW r \in Runs, Moves(r)
  PROVE  Inv'
<1>1. /\ run' \in [Runs -> RunState]
      /\ \A other \in Runs \ {r} : run'[other] = run[other]
      /\ RunOK(run'[r]) /\ DeclaredSoFar(run'[r])
      /\ run[r].pc \in Late => run'[r].pc \in Late /\ run'[r].verified = run[r].verified
  BY MoveFacts DEF Advances
<1>2. UNCHANGED <<files, edits, compiler>>
  BY MoveFacts
<1>3. \/ outputDir' = outputDir
      \/ run[r].pc = "write" /\ run'[r].pc \in Late /\ outputDir' = WithNextReport(r)
  BY MoveFacts
<1>4. Shape'
  BY <1>1, <1>2, <1>3, NextReportFacts DEF Inv, Shape, files
<1>5. \A s \in Runs : RunOK(run'[s]) /\ DeclaredSoFar(run'[s])
  BY <1>1 DEF Inv
<1>6. ASSUME NEW entry \in outputDir'
      PROVE  run'[entry.run].pc \in Late /\ run'[entry.run].verified = Cases
  <2>1. CASE entry \in outputDir
    <3>1. entry.run \in Runs /\ run[entry.run].pc \in Late /\ run[entry.run].verified = Cases
      BY <2>1 DEF Inv, Shape, Earned
    <3>2. QED
      BY <1>1, <3>1
  <2>2. CASE entry \notin outputDir
    <3>1. entry.run = r /\ run[r].pc = "write"
      BY <1>3, <2>2 DEF WithNextReport
    <3>2. run[r].verified = Cases
      BY <3>1 DEF Inv, RunOK
    <3>3. QED
      BY <1>1, <3>1, <3>2 DEF Late
  <2>3. QED
    BY <2>1, <2>2
<1>7. Earned'
  BY <1>6 DEF Earned
<1>8. QED
  BY <1>4, <1>5, <1>7 DEF Inv, RunOK, DeclaredSoFar

(* Edits and compiles change the files under the runs, but no run.         *)
LEMMA EditPreserves == Inv /\ Edit => Inv'
<1>1. SUFFICES ASSUME Inv, Edit PROVE Inv'
  OBVIOUS
<1>2. outputDir' = outputDir /\ compiler' = compiler /\ run' = run
  BY <1>1 DEF Edit
<1>3. /\ source' \in Sources /\ contract' \in Contracts /\ irFile' \in IRFile /\ goFile' \in GoFile
      /\ fixture' \in Fixture
  BY <1>1 DEF Edit, Inv, Shape, IRFile, GoFile, Fixture
<1>4. edits' \in 0 .. MaxEdits
  BY <1>1, ArtifactsAssumption DEF Edit, Inv, Shape
<1>5. Shape'
  BY <1>1, <1>2, <1>3, <1>4 DEF Inv, Shape
<1>6. QED
  BY <1>1, <1>2, <1>5 DEF Inv, Earned, RunOK, DeclaredSoFar

LEMMA CompilePreserves == Inv /\ Compile => Inv'
<1>1. SUFFICES ASSUME Inv, Compile PROVE Inv'
  OBVIOUS
<1>2. outputDir' = outputDir /\ run' = run /\ edits' = edits
      /\ source' = source /\ contract' = contract /\ fixture' = fixture
  BY <1>1 DEF Compile, CompileReadSource, CompileReadContract, CompileWriteIR, CompileWriteGo, CompileStops, files
<1>3. /\ compiler \in Compiler /\ source \in Sources /\ contract \in Contracts
      /\ irFile \in IRFile /\ goFile \in GoFile
  BY <1>1 DEF Inv, Shape
<1>4. compiler' \in Compiler /\ irFile' \in IRFile /\ goFile' \in GoFile
  <2>1. CASE CompileReadSource \/ CompileReadContract
    <3>1. CASE CompileReadSource
      <4>1. compiler.count + 1 \in Nat
        BY <1>3 DEF Compiler
      <4>2. compiler' \in Compiler
        BY <1>3, <3>1, <4>1 DEF CompileReadSource, Compiler
      <4>3. QED
        BY <1>3, <3>1, <4>2 DEF CompileReadSource, files
    <3>2. CASE CompileReadContract
      <4>1. compiler' \in Compiler
        BY <1>3, <3>2 DEF CompileReadContract, Compiler
      <4>2. QED
        BY <1>3, <3>2, <4>1 DEF CompileReadContract, files
    <3>3. QED
      BY <2>1, <3>1, <3>2
  <2>2. CASE CompileWriteIR
    BY <1>3, <2>2 DEF CompileWriteIR, Compiler, BuildIR, IRFile, Versions, VersionRead
  <2>3. CASE CompileWriteGo
    BY <1>3, <2>3 DEF CompileWriteGo, Compiler, GenerateGoSource, GoFile, Versions, VersionRead
  <2>4. CASE CompileStops
    BY <1>3, <2>4 DEF CompileStops, Compiler, IRFile, GoFile
  <2>5. QED
    BY <1>1, <2>1, <2>2, <2>3, <2>4 DEF Compile
<1>5. Shape'
  BY <1>1, <1>2, <1>4 DEF Inv, Shape
<1>6. QED
  BY <1>1, <1>2, <1>5 DEF Inv, Earned, RunOK, DeclaredSoFar

LEMMA InitInv == Init => Inv
<1>1. SUFFICES ASSUME Init PROVE Inv
  OBVIOUS
<1>2. /\ source \in Sources /\ contract \in Contracts
      /\ irFile \in IRFile /\ goFile \in GoFile
  BY <1>1, ArtifactsAssumption
     DEF Init, BuildIR, IRFile, GenerateGoSource, GoFile, Versions
<1>3. Idle \in RunState
  BY <1>2, FiveReports, ArtifactsAssumption DEF Idle, RunState, PC
<1>4. Shape
  BY <1>1, <1>2, <1>3, ArtifactsAssumption DEF Init, Shape, Fixture, Compiler
<1>5. RunOK(Idle) /\ DeclaredSoFar(Idle)
  BY ArtifactsAssumption DEF Idle, RunOK, DeclaredSoFar, Checked, Late
<1>6. QED
  BY <1>1, <1>4, <1>5 DEF Init, Inv, Earned

LEMMA NextInv == Inv /\ [Next]_vars => Inv'
<1>1. Inv /\ UNCHANGED vars => Inv'
  BY DEF vars, Inv, Shape, Earned, RunOK, DeclaredSoFar
<1>2. QED
  BY <1>1, EditPreserves, CompilePreserves, MovePreserves DEF Next, Moves

LEMMA InvAlways == Spec => []Inv
BY InitInv, NextInv, PTL DEF Spec

(* The files and processes keep their shape.                               *)
THEOREM TypeCorrect == Spec => []TypeOK
BY InvAlways, InvImplies, PTL

(* However source, contract, IR and proofs are changed between the moments *)
(* at which a run reads them, a run that accepts has used an IR and proofs *)
(* of the source and the contract it read: what VerifyIRAgainstSource and  *)
(* VerifyProofBinding compare is enough, for any number of runs, edits and *)
(* compiles.                                                               *)
THEOREM BoundWhenAccepted == Spec => []AcceptedIsBound
BY InvAlways, InvImplies, PTL

(* With an unedited executor, accepted runs have compiled the declared     *)
(* fixture for every CLOSED case, although it is read again each time.     *)
THEOREM FixtureWhenAccepted == Spec => []DeclaredFixtureOnly
BY InvAlways, InvImplies, PTL

(* No report exists of a run that has not verified all its cases, whatever *)
(* failed or crashed.                                                      *)
THEOREM ReportsAreEarned == Spec => []ReportOnlyIfVerified
BY InvAlways, InvImplies, PTL

-----------------------------------------------------------------------------
(* Commands that follow each other.                                        *)

WrittenBy(r) == {[file |-> Reports[i], run |-> r] : i \in 1 .. run[r].written}

(* A run that judges cases for a report has found the directory empty, and *)
(* while it writes, and when it has closed, its reports are what there is. *)
Tidy(r) ==
  /\ run[r].pc = "case" /\ run[r].command = "conformance" => outputDir = {}
  /\ run[r].pc \in {"write", "closed"} => outputDir = WrittenBy(r)

(* What the invariant adds when runs do not overlap.                       *)
Alone ==
  /\ \A r, other \in Runs : r = other \/ run[r].pc \in Ended \/ run[other].pc \in Ended
  /\ \A entry, other \in outputDir : entry.run = other.run
  /\ \A r \in Runs : Tidy(r)

LEMMA AloneImplies == Inv /\ Alone => OneRunPerDirectory
<1>1. SUFFICES ASSUME Inv, Alone, NEW r \in Runs, run[r].pc = "closed"
               PROVE  {entry.file : entry \in outputDir} = {Reports[i] : i \in DOMAIN Reports}
  BY DEF OneRunPerDirectory, Alone
<1>2. run[r].written = 5
  BY <1>1, FiveReports DEF Inv, RunOK
<1>3. outputDir = {[file |-> Reports[i], run |-> r] : i \in 1 .. 5}
  BY <1>1, <1>2 DEF Alone, Tidy, WrittenBy
<1>4. DOMAIN Reports = 1 .. 5
  BY FiveReports
<1>5. ASSUME NEW entry \in outputDir
      PROVE  entry.file \in {Reports[i] : i \in DOMAIN Reports}
  BY <1>3, <1>4
<1>6. ASSUME NEW i \in DOMAIN Reports
      PROVE  Reports[i] \in {entry.file : entry \in outputDir}
  <2>1. [file |-> Reports[i], run |-> r] \in outputDir
    BY <1>3, <1>4
  <2>2. QED
    BY <2>1
<1>7. QED
  BY <1>5, <1>6

(* All others have ended when a run moves.                                 *)
LEMMA MovesAlone ==
  ASSUME Inv, Alone, Exclusive, NEW r \in Runs, Moves(r), NEW other \in Runs \ {r}
  PROVE  run[other].pc \in Ended
<1>1. CASE Start(r)
  BY <1>1 DEF Start
<1>2. CASE run[r].pc \notin Ended
  BY <1>2 DEF Alone
<1>3. run[r].pc \notin Ended \/ Start(r)
  BY DEF Moves, Proceed, ReadSource, ReadContract, CompareGenerated, LoadIR, VerifyIR, EnsureCallerOutput,
         ConformanceCase, ExecuteCase, WriteReport, Crash, Ended
<1>4. QED
  BY <1>1, <1>2, <1>3

(* How a run comes to the points that Tidy is about.                       *)
LEMMA TidyMoves ==
  ASSUME Inv, Alone, NEW r \in Runs, Moves(r)
  PROVE  \/ /\ outputDir' = outputDir
            /\ run'[r].pc = "case" /\ run'[r].command = "conformance" => outputDir = {}
            /\ run'[r].pc \in {"write", "closed"} => outputDir = {} /\ run'[r].written = 0
         \/ /\ run[r].pc = "write" /\ outputDir' = WithNextReport(r)
            /\ run'[r].pc \in {"write", "closed", "failed"}
            /\ run'[r].pc \in {"write", "closed"} => run'[r].written = run[r].written + 1
<1> DEFINE old == run[r]
<1>1. old \in RunState /\ RunOK(old) /\ run \in [Runs -> RunState]
  BY DEF Inv, Shape
<1>2. CASE Start(r)
  BY <1>1, <1>2 DEF Start, Keep, RunState
<1>3. CASE ReadSource(r) \/ ReadContract(r)
  BY <1>1, <1>3 DEF ReadSource, ReadContract, Goto, Keep, RunState
<1>4. CASE CompareGenerated(r) \/ LoadIR(r)
  BY <1>1, <1>4 DEF CompareGenerated, LoadIR, Keep, RunState
<1>5. CASE VerifyIR(r)
  BY <1>1, <1>5 DEF VerifyIR, Goto, Keep, RunState
<1>6. CASE EnsureCallerOutput(r)
  BY <1>1, <1>6 DEF EnsureCallerOutput, Goto, Keep, RunState
<1>7. CASE ConformanceCase(r)
  <2>1. outputDir' = outputDir /\ outputDir = {} /\ old.written = 0
    BY <1>1, <1>7 DEF ConformanceCase, Keep, Alone, Tidy, RunOK, Late
  <2>2. CASE Goto(r, "failed")
    BY <1>1, <2>1, <2>2 DEF Goto, RunState
  <2>3. CASE ~Goto(r, "failed")
    BY <1>7, <2>1, <2>3, ConformanceCaseAdvances
  <2>4. QED
    BY <2>2, <2>3
<1>8. CASE ExecuteCase(r)
  <2>1. CASE Goto(r, "failed")
    BY <1>1, <1>8, <2>1 DEF ExecuteCase, Goto, Keep, RunState
  <2>2. CASE ~Goto(r, "failed")
    <3>1. run'[r].pc = "printed"
      BY <1>8, <2>2, ExecuteCaseAdvances
    <3>2. QED
      BY <1>8, <3>1 DEF ExecuteCase, Keep
  <2>3. QED
    BY <2>1, <2>2
<1>9. CASE WriteReport(r)
  <2>1. CASE Goto(r, "failed")
    BY <1>1, <1>9, <2>1 DEF WriteReport, Goto, RunState
  <2>2. CASE ~Goto(r, "failed")
    BY <1>1, <1>9, <2>2 DEF WriteReport, RunState
  <2>3. QED
    BY <2>1, <2>2
<1>10. CASE Crash(r)
  BY <1>1, <1>10 DEF Crash, Goto, RunState
<1>11. QED
  BY <1>2, <1>3, <1>4, <1>5, <1>6, <1>7, <1>8, <1>9, <1>10 DEF Moves, Proceed

(* The directory a run that writes leaves behind is its own.               *)
LEMMA NextReportAlone ==
  ASSUME Inv, Alone, NEW r \in Runs, run[r].pc = "write"
  PROVE  /\ WithNextReport(r) =
              {[file |-> Reports[i], run |-> r] : i \in 1 .. run[r].written + 1}
         /\ \A entry \in outputDir : entry.run = r
<1> DEFINE n == run[r].written
<1>1. outputDir = {[file |-> Reports[i], run |-> r] : i \in 1 .. n}
  BY DEF Alone, Tidy, WrittenBy
<1>2. n \in Nat
  BY FiveReports DEF Inv, Shape, RunState
<1>3. 1 .. n + 1 = (1 .. n) \cup {n + 1}
  BY <1>2
<1> HIDE DEF n
<1>4. QED
  BY <1>1, <1>3 DEF WithNextReport, n

LEMMA MoveAlone ==
  ASSUME Inv, Alone, Exclusive, NEW r \in Runs, Moves(r)
  PROVE  Alone'
<1>1. /\ run' \in [Runs -> RunState]
      /\ \A other \in Runs \ {r} : run'[other] = run[other] /\ run[other].pc \in Ended
  BY MoveFacts, MovesAlone DEF Advances
<1>2. \A s, other \in Runs : s = other \/ run'[s].pc \in Ended \/ run'[other].pc \in Ended
  BY <1>1
<1>3. CASE /\ outputDir' = outputDir
           /\ run'[r].pc = "case" /\ run'[r].command = "conformance" => outputDir = {}
           /\ run'[r].pc \in {"write", "closed"} => outputDir = {} /\ run'[r].written = 0
  <2>1. Tidy(r)'
    BY <1>3 DEF Tidy, WrittenBy
  <2>2. ASSUME NEW other \in Runs \ {r} PROVE Tidy(other)'
    BY <1>1, <1>3 DEF Alone, Tidy, WrittenBy
  <2>3. QED
    BY <1>2, <1>3, <2>1, <2>2 DEF Alone
<1>4. CASE /\ run[r].pc = "write" /\ outputDir' = WithNextReport(r)
           /\ run'[r].pc \in {"write", "closed", "failed"}
           /\ run'[r].pc \in {"write", "closed"} => run'[r].written = run[r].written + 1
  <2>1. outputDir' = {[file |-> Reports[i], run |-> r] : i \in 1 .. run[r].written + 1}
    BY <1>4, NextReportAlone
  <2>2. Tidy(r)'
    BY <1>4, <2>1 DEF Tidy, WrittenBy
  <2>3. ASSUME NEW other \in Runs \ {r} PROVE Tidy(other)'
    <3>1. run'[other] = run[other] /\ run[other].pc \in Ended
      BY <1>1
    <3>2. run[other].pc # "closed"
      <4>1. SUFFICES ASSUME run[other].pc = "closed" PROVE FALSE
        OBVIOUS
      <4>2. outputDir = WrittenBy(other) /\ run[other].written = 5
        BY <4>1, FiveReports DEF Alone, Tidy, Inv, RunOK
      <4>3. [file |-> Reports[1], run |-> other] \in outputDir
        BY <4>2 DEF WrittenBy
      <4>4. other = r
        BY <1>4, <4>3, NextReportAlone
      <4>5. QED
        BY <4>4
    <3>3. QED
      BY <3>1, <3>2 DEF Tidy, Ended
  <2>4. \A entry, other \in outputDir' : entry.run = other.run
    BY <2>1
  <2>5. QED
    BY <1>2, <2>2, <2>3, <2>4 DEF Alone
<1>5. QED
  BY <1>3, <1>4, TidyMoves

LEMMA NextAlone == Exclusive /\ Inv /\ Alone /\ [Next]_vars => Alone'
<1>1. Alone /\ UNCHANGED <<run, outputDir>> => Alone'
  BY DEF Alone, Tidy, WrittenBy
<1>2. Edit \/ Compile \/ UNCHANGED vars => UNCHANGED <<run, outputDir>>
  BY DEF Edit, Compile, CompileReadSource, CompileReadContract, CompileWriteIR, CompileWriteGo, CompileStops, vars
<1>3. QED
  BY <1>1, <1>2, MoveAlone DEF Next, Moves

LEMMA InitAlone == Init => Alone
BY DEF Init, Alone, Tidy, Idle, Ended

LEMMA AloneAlways ==
  ASSUME Exclusive
  PROVE  Spec => [](Inv /\ Alone)
<1>1. Inv /\ Alone /\ [Next]_vars => Alone'
  BY NextAlone
<1>2. QED
  BY <1>1, InvAlways, InitAlone, PTL DEF Spec

(* Runs that follow each other never mix their reports, whatever a failed  *)
(* or crashed one left behind, and one that closes has left all of them.   *)
THEOREM OneRunAtATime ==
  ASSUME Exclusive
  PROVE  Spec => []OneRunPerDirectory
BY AloneAlways, AloneImplies, PTL

(* No later step takes a report away from a run that has closed.           *)
THEOREM ReportsAreKept ==
  ASSUME Exclusive
  PROVE  Spec => ClosedRunsKeepTheirFiles
<1>1. Inv /\ Alone /\ [Next]_vars =>
        [\A r \in Runs : run[r].pc = "closed" =>
           {entry \in outputDir : entry.run = r} \subseteq outputDir']_vars
  <2>1. SUFFICES ASSUME Inv, Alone, Next, NEW r \in Runs, run[r].pc = "closed",
                        NEW entry \in outputDir, entry.run = r
                 PROVE  entry \in outputDir'
    OBVIOUS
  <2>2. CASE Edit \/ Compile
    BY <2>2 DEF Edit, Compile, CompileReadSource, CompileReadContract, CompileWriteIR, CompileWriteGo, CompileStops
  <2>3. ASSUME NEW other \in Runs, Moves(other) PROVE entry \in outputDir'
    <3>1. outputDir' = outputDir \/ run[other].pc = "write"
      BY <2>1, <2>3, MoveFacts
    <3>2. run[other].pc = "write" => entry.run = other /\ entry.run # r
      BY <2>1, NextReportAlone
    <3>3. QED
      BY <2>1, <3>1, <3>2
  <2>4. QED
    BY <2>1, <2>2, <2>3 DEF Next, Moves
<1>2. QED
  BY <1>1, AloneAlways, PTL DEF Spec, ClosedRunsKeepTheirFiles

-----------------------------------------------------------------------------
(* The refinement.  Each move of a run is seen from Snapshot by where the  *)
(* run is before and after it.                                             *)

(* Has read source and contract and not yet judged with them.              *)
Looking == {"generate", "load", "verify", "output", "case"}

Reading == {"parse", "contract"}

(* What Verdict, Seen and Used say of one run.                             *)
RefusedAt(st) ==
  \/ st.pc \in {"failed"}
  \/ st.pc = "printed" /\ st.verified = 0

AcceptedAt(st) ==
  \/ st.pc \in {"write", "closed"}
  \/ st.pc = "printed" /\ st.verified = 1

VerdictAt(st) ==
  IF st.pc = "idle" THEN "none"
  ELSE IF RefusedAt(st) THEN "refused"
  ELSE IF st.pc \in {"closed", "printed"} THEN "accepted" ELSE "pending"

SeenAt(st) ==
  IF st.pc \in {"idle", "parse"} \/ RefusedAt(st) THEN <<>>
  ELSE IF st.pc = "contract" THEN <<st.source>> ELSE VersionRead(st)

UsedAt(st) == IF AcceptedAt(st) THEN {VersionRead(st)} ELSE {}

Mapping ==
  /\ Verdict = [r \in Runs |-> VerdictAt(run[r])]
  /\ Seen = [r \in Runs |-> SeenAt(run[r])]
  /\ Used = [r \in Runs |-> UsedAt(run[r])]

(* The mapping, given that what is accepted is bound.                      *)
LEMMA Mapped == Inv => Mapping
<1> SUFFICES ASSUME Inv PROVE Mapping
  OBVIOUS
<1>1. ASSUME NEW r \in Runs
      PROVE  Verdict[r] = VerdictAt(run[r])
  <2>1. Refused(r) <=> RefusedAt(run[r])
    BY DEF Refused, RefusedAt
  <2>2. CASE Refused(r)
    BY <2>1, <2>2 DEF Verdict, VerdictAt, Refused
  <2>3. CASE ~Refused(r) /\ run[r].pc = "idle"
    BY <2>1, <2>3 DEF Verdict, VerdictAt
  <2>4. CASE ~Refused(r) /\ run[r].pc \in {"closed", "printed"}
    BY <2>1, <2>4 DEF Verdict, VerdictAt
  <2>5. CASE ~Refused(r) /\ run[r].pc \notin {"idle", "closed", "printed"}
    BY <2>1, <2>5 DEF Verdict, VerdictAt
  <2>6. QED
    BY <2>2, <2>3, <2>4, <2>5
<1>2. ASSUME NEW r \in Runs
      PROVE  Used[r] = UsedAt(run[r])
  <2>1. CASE Accepted(r)
    <3>1. run[r].ir = BuildIR(VersionRead(run[r])) /\ run[r].built.of = VersionRead(run[r])
      BY <2>1, InvImplies DEF AcceptedIsBound
    <3>2. run[r].built.sound
      BY <2>1, InvImplies DEF AcceptedIsBound
    <3>3. run[r].ir.of = VersionRead(run[r]) /\ run[r].ir.sound
      BY <3>1 DEF BuildIR
    <3>4. Used[r] = {VersionRead(run[r]), run[r].ir.of, run[r].built.of}
      BY <2>1, <3>2, <3>3 DEF Used
    <3>5. QED
      BY <2>1, <3>1, <3>3, <3>4 DEF Accepted, UsedAt, AcceptedAt
  <2>2. CASE ~Accepted(r)
    BY <2>2 DEF Used, Accepted, UsedAt, AcceptedAt
  <2>3. QED
    BY <2>1, <2>2
<1>3. ASSUME NEW r \in Runs
      PROVE  Seen[r] = SeenAt(run[r])
  BY DEF Seen, SeenAt, Refused, RefusedAt
<1>4. Verdict = [r \in Runs |-> VerdictAt(run[r])]
  BY <1>1 DEF Verdict
<1>5. Used = [r \in Runs |-> UsedAt(run[r])]
  BY <1>2 DEF Used
<1>6. Seen = [r \in Runs |-> SeenAt(run[r])]
  BY <1>3 DEF Seen
<1>7. QED
  BY <1>4, <1>5, <1>6 DEF Mapping

LEMMA MappedNext == Inv' => Mapping'
BY Mapped, PTL

(* Whose directory it is.                                                  *)
LEMMA HolderFacts ==
  ASSUME NEW dir, \A entry, other \in dir : entry.run = other.run, NEW entry \in dir
  PROVE  (IF dir = {} THEN Nobody ELSE (CHOOSE e \in dir : TRUE).run) = entry.run
<1>1. (CHOOSE e \in dir : TRUE) \in dir
  OBVIOUS
<1>2. QED
  BY <1>1

(* Every way in which a run may move.                                      *)
Transition(r) ==
  LET old == run[r]
      new == run'[r]
  IN  \/ /\ old.pc = "idle" /\ new.pc = "parse" /\ outputDir' = outputDir
      \/ /\ old.pc = "parse" /\ new.pc = "contract"
         /\ new.source = source /\ outputDir' = outputDir
      \/ /\ old.pc = "contract" /\ new.pc \in {"generate", "load"}
         /\ VersionRead(new) = <<old.source, contract>> /\ outputDir' = outputDir
      \/ /\ old.pc \in Looking /\ new.pc \in Looking \cup {"write", "printed"}
         /\ VersionRead(new) = VersionRead(old) /\ outputDir' = outputDir
         /\ new.pc = "printed" => new.verified \in {0, 1}
      \/ /\ old.pc = "write" /\ new.pc \in {"write", "closed"}
         /\ VersionRead(new) = VersionRead(old) /\ outputDir' = WithNextReport(r)
         /\ new.pc = "closed" => old.written = 4
      \/ /\ old.pc \in Reading \cup Looking \cup {"write"} /\ new.pc = "failed"
         /\ \/ outputDir' = outputDir
            \/ old.pc = "write" /\ outputDir' = WithNextReport(r)

LEMMA Transitions ==
  ASSUME Inv, NEW r \in Runs, Moves(r)
  PROVE  Transition(r)
<1> DEFINE old == run[r]
<1>1. old \in RunState /\ RunOK(old) /\ run \in [Runs -> RunState]
  BY DEF Inv, Shape
<1>2. old.pc \in PC
  BY <1>1 DEF RunState
<1>3. Goto(r, "failed") => run'[r].pc = "failed"
  BY <1>1 DEF Goto, RunState
<1>4. CASE Start(r)
  BY <1>1, <1>4 DEF Start, Keep, RunState, Transition
<1>5. CASE ReadSource(r) \/ ReadContract(r)
  <2>1. old.pc \in Reading /\ outputDir' = outputDir
    BY <1>5 DEF ReadSource, ReadContract, Keep, Reading
  <2>2. CASE Goto(r, "failed")
    BY <1>3, <2>1, <2>2 DEF Transition
  <2>3. CASE ~Goto(r, "failed") /\ ReadSource(r)
    BY <1>1, <2>1, <2>3 DEF ReadSource, RunState, Transition
  <2>4. CASE ~Goto(r, "failed") /\ ReadContract(r)
    BY <1>1, <2>1, <2>4 DEF ReadContract, RunState, Transition, VersionRead
  <2>5. QED
    BY <1>5, <2>2, <2>3, <2>4
<1>6. CASE CompareGenerated(r)
  BY <1>1, <1>6 DEF CompareGenerated, Keep, RunState, Transition, Looking, VersionRead
<1>7. CASE LoadIR(r)
  BY <1>1, <1>7 DEF LoadIR, Keep, RunState, Transition, Looking, VersionRead
<1>8. CASE VerifyIR(r)
  BY <1>1, <1>8 DEF VerifyIR, Goto, Keep, RunState, Transition, Looking, VersionRead
<1>9. CASE EnsureCallerOutput(r)
  BY <1>1, <1>9 DEF EnsureCallerOutput, Goto, Keep, RunState, Transition, Looking, VersionRead
<1>10. CASE ConformanceCase(r)
  <2>1. old.pc = "case" /\ outputDir' = outputDir
    BY <1>10 DEF ConformanceCase, Keep
  <2>2. CASE Goto(r, "failed")
    BY <1>3, <2>1, <2>2 DEF Transition, Looking
  <2>3. CASE ~Goto(r, "failed")
    BY <1>10, <2>1, <2>3, ConformanceCaseAdvances DEF Transition, Looking
  <2>4. QED
    BY <2>2, <2>3
<1>11. CASE ExecuteCase(r)
  <2>1. old.pc = "case" /\ outputDir' = outputDir
    BY <1>11 DEF ExecuteCase, Keep
  <2>2. CASE Goto(r, "failed")
    BY <1>3, <2>1, <2>2 DEF Transition, Looking
  <2>3. CASE ~Goto(r, "failed")
    BY <1>11, <2>1, <2>3, ExecuteCaseAdvances DEF Transition, Looking
  <2>4. QED
    BY <2>2, <2>3
<1>12. CASE WriteReport(r)
  <2>1. CASE Goto(r, "failed")
    <3>1. old.pc = "write" /\ outputDir' \in {outputDir, WithNextReport(r)}
      BY <1>12 DEF WriteReport
    <3>2. QED
      BY <1>3, <2>1, <3>1 DEF Transition
  <2>2. CASE ~Goto(r, "failed")
    <3> DEFINE next == IF old.written + 1 = Len(Reports) THEN "closed" ELSE "write"
               new == [old EXCEPT !.written = @ + 1, !.pc = next]
    <3>1. old.pc = "write" /\ outputDir' = WithNextReport(r) /\ run' = [run EXCEPT ![r] = new]
      BY <1>12, <2>2 DEF WriteReport
    <3>2. old.written \in Nat
      BY <1>1, FiveReports DEF RunState
    <3>3. next \in {"closed", "write"} /\ (next = "closed" => old.written = 4)
      BY <3>2, FiveReports
    <3> HIDE DEF next
    <3>4. new.pc = next /\ VersionRead(new) = VersionRead(old)
      BY <1>1 DEF RunState, VersionRead
    <3> HIDE DEF new
    <3>5. run'[r] = new
      BY <1>1, <3>1
    <3>6. QED
      BY <3>1, <3>3, <3>4, <3>5 DEF Transition
  <2>3. QED
    BY <2>1, <2>2
<1>13. CASE Crash(r)
  <2>1. run'[r].pc = "failed"
    BY <1>3, <1>13 DEF Crash
  <2>2. old.pc \notin Ended
    BY <1>13 DEF Crash
  <2>3. old.pc \in Reading \cup Looking \cup {"write"}
    BY <1>2, <2>2 DEF PC, Checked, Late, Reading, Looking, Ended
  <2>4. QED
    BY <1>13, <2>1, <2>3 DEF Crash, Transition
<1>14. QED
  BY <1>4, <1>5, <1>6, <1>7, <1>8, <1>9, <1>10, <1>11, <1>12, <1>13 DEF Moves, Proceed

(* A move of a run changes only what Snapshot says of that run.            *)
LEMMA MappedMove ==
  ASSUME Inv, Inv', NEW r \in Runs, Moves(r)
  PROVE  /\ source' = source /\ contract' = contract
         /\ Verdict' = [Verdict EXCEPT ![r] = VerdictAt(run'[r])]
         /\ Seen' = [Seen EXCEPT ![r] = SeenAt(run'[r])]
         /\ Used' = [Used EXCEPT ![r] = UsedAt(run'[r])]
         /\ Verdict[r] = VerdictAt(run[r]) /\ Seen[r] = SeenAt(run[r])
         /\ Used[r] = UsedAt(run[r])
<1>1. Mapping /\ Mapping'
  BY Mapped, MappedNext
<1>2. \A other \in Runs \ {r} : run'[other] = run[other]
  BY MoveFacts DEF Advances
<1>3. source' = source /\ contract' = contract
  BY MoveFacts DEF files
<1>4. \A s \in Runs :
        /\ VerdictAt(run'[s]) = IF s = r THEN VerdictAt(run'[r]) ELSE VerdictAt(run[s])
        /\ SeenAt(run'[s]) = IF s = r THEN SeenAt(run'[r]) ELSE SeenAt(run[s])
        /\ UsedAt(run'[s]) = IF s = r THEN UsedAt(run'[r]) ELSE UsedAt(run[s])
  BY <1>2
<1>5. QED
  BY <1>1, <1>3, <1>4 DEF Mapping

(* Whose directory a run leaves behind that writes a report.               *)
LEMMA MappedReport ==
  ASSUME Inv, Alone, Alone', NEW r \in Runs, run[r].pc = "write",
         outputDir' = WithNextReport(r)
  PROVE  /\ Holder' = r
         /\ outputDir = {} => Holder = Nobody
         /\ outputDir # {} => Holder = r
<1>1. [file |-> Reports[run[r].written + 1], run |-> r] \in outputDir'
  BY DEF WithNextReport
<1>2. Holder' = r
  BY <1>1, HolderFacts DEF Holder, Alone
<1>3. ASSUME NEW entry \in outputDir PROVE Holder = r
  <2>1. entry.run = r
    BY NextReportAlone
  <2>2. QED
    BY <2>1, HolderFacts DEF Holder, Alone
<1>4. QED
  BY <1>2, <1>3 DEF Holder

(* What a run has seen after its second look.                              *)
LEMMA SecondLook ==
  ASSUME NEW first, NEW second
  PROVE  Append(<<first>>, second) = <<first, second>> /\ Len(<<first>>) = 1
<1> DEFINE S == {first, second}
<1>1. <<first>> \in Seq(S) /\ <<first, second>> \in Seq(S) /\ Len(<<first>>) = 1
  OBVIOUS
<1>2. /\ Append(<<first>>, second) \in Seq(S)
      /\ Len(Append(<<first>>, second)) = 2 /\ Len(<<first, second>>) = 2
  BY <1>1
<1>3. \A i \in 1 .. 2 : Append(<<first>>, second)[i] = <<first, second>>[i]
  BY <1>1
<1>4. \A s, t \in Seq(S) : Len(s) = Len(t) /\ (\A i \in 1 .. Len(s) : s[i] = t[i]) => s = t
  OBVIOUS
<1>5. QED
  BY <1>1, <1>2, <1>3, <1>4

LEMMA MoveImplements ==
  ASSUME Inv, Inv', Alone, Alone', NEW r \in Runs, Moves(r)
  PROVE  [Snapshots!Next]_Snapshots!snapshotVars
<1> DEFINE old == run[r]
           new == run'[r]
<1> USE DEF Snapshots!snapshotVars
<1>1. /\ source' = source /\ contract' = contract
      /\ Verdict' = [Verdict EXCEPT ![r] = VerdictAt(new)]
      /\ Seen' = [Seen EXCEPT ![r] = SeenAt(new)]
      /\ Used' = [Used EXCEPT ![r] = UsedAt(new)]
  BY MappedMove
<1>2. Verdict[r] = VerdictAt(old) /\ Seen[r] = SeenAt(old) /\ Used[r] = UsedAt(old)
  BY MappedMove
<1>3. /\ Verdict = [s \in Runs |-> VerdictAt(run[s])]
      /\ Seen = [s \in Runs |-> SeenAt(run[s])]
      /\ Used = [s \in Runs |-> UsedAt(run[s])]
  BY Mapped DEF Mapping
<1>4. outputDir' = outputDir => Holder' = Holder
  BY DEF Holder
<1>5. RunOK(old) /\ RunOK(new)
  BY DEF Inv
<1> HIDE DEF old, new
<1>6. CASE old.pc = "idle" /\ new.pc = "parse" /\ outputDir' = outputDir
  <2>1. /\ VerdictAt(old) = "none" /\ VerdictAt(new) = "pending"
        /\ SeenAt(old) = <<>> /\ SeenAt(new) = <<>> /\ UsedAt(old) = {} /\ UsedAt(new) = {}
    BY <1>6 DEF VerdictAt, SeenAt, UsedAt, RefusedAt, AcceptedAt
  <2>2. Snapshots!Begin(r)
    BY <1>1, <1>2, <1>3, <1>4, <1>6, <2>1 DEF Snapshots!Begin
  <2>3. QED
    BY <2>2 DEF Snapshots!Next
<1>7. CASE /\ old.pc = "parse" /\ new.pc = "contract"
           /\ new.source = source /\ outputDir' = outputDir
  <2>1. /\ VerdictAt(old) = "pending" /\ VerdictAt(new) = "pending"
        /\ SeenAt(old) = <<>> /\ SeenAt(new) = <<source>>
        /\ UsedAt(old) = {} /\ UsedAt(new) = {}
    BY <1>7 DEF VerdictAt, SeenAt, UsedAt, RefusedAt, AcceptedAt
  <2>2. /\ Append(<<>>, <<source, contract>>[Len(<<>>) + 1]) = <<source>>
        /\ Len(<<>>) < Len(<<source, contract>>)
    OBVIOUS
  <2>3. Snapshots!Look(r)
    BY <1>1, <1>2, <1>3, <1>4, <1>7, <2>1, <2>2 DEF Snapshots!Look
  <2>4. QED
    BY <2>3 DEF Snapshots!Next
<1>8. CASE /\ old.pc = "contract" /\ new.pc \in {"generate", "load"}
           /\ VersionRead(new) = <<old.source, contract>> /\ outputDir' = outputDir
  <2>1. /\ VerdictAt(old) = "pending" /\ VerdictAt(new) = "pending"
        /\ SeenAt(old) = <<old.source>> /\ SeenAt(new) = <<old.source, contract>>
        /\ UsedAt(old) = {} /\ UsedAt(new) = {}
    BY <1>8 DEF VerdictAt, SeenAt, UsedAt, RefusedAt, AcceptedAt
  <2>2. /\ Append(<<old.source>>, <<source, contract>>[Len(<<old.source>>) + 1])
             = <<old.source, contract>>
        /\ Len(<<old.source>>) < Len(<<source, contract>>)
    <3>1. Append(<<old.source>>, contract) = <<old.source, contract>> /\ Len(<<old.source>>) = 1
      BY SecondLook
    <3>2. Len(<<source, contract>>) = 2 /\ <<source, contract>>[1 + 1] = contract
      OBVIOUS
    <3>3. QED
      BY <3>1, <3>2
  <2>3. Snapshots!Look(r)
    BY <1>1, <1>2, <1>3, <1>4, <1>8, <2>1, <2>2 DEF Snapshots!Look
  <2>4. QED
    BY <2>3 DEF Snapshots!Next
<1>9. CASE /\ old.pc \in Looking /\ new.pc \in Looking \cup {"write", "printed"}
           /\ VersionRead(new) = VersionRead(old) /\ outputDir' = outputDir
           /\ new.pc = "printed" => new.verified \in {0, 1}
  <2>1. VerdictAt(old) = "pending" /\ SeenAt(old) = VersionRead(old) /\ UsedAt(old) = {}
    BY <1>9 DEF Looking, VerdictAt, SeenAt, UsedAt, RefusedAt, AcceptedAt
  <2>2. CASE new.pc \in Looking
    <3>1. VerdictAt(new) = "pending" /\ SeenAt(new) = VersionRead(old) /\ UsedAt(new) = {}
      BY <1>9, <2>2 DEF Looking, VerdictAt, SeenAt, UsedAt, RefusedAt, AcceptedAt
    <3>2. UNCHANGED Snapshots!snapshotVars
      BY <1>1, <1>2, <1>3, <1>4, <1>9, <2>1, <3>1
    <3>3. QED
      BY <3>2
  <2>3. CASE new.pc = "write"
    <3>1. /\ VerdictAt(new) = "pending" /\ SeenAt(new) = VersionRead(old)
          /\ UsedAt(new) = {VersionRead(old)}
      BY <1>9, <2>3 DEF VerdictAt, SeenAt, UsedAt, RefusedAt, AcceptedAt
    <3>2. VersionRead(old) \in Valid
      BY <1>5, <1>9, <2>3 DEF RunOK, Checked, VerifyIRAgainstSource
    <3>3. Snapshots!Judge(r)
      BY <1>1, <1>2, <1>3, <1>4, <1>9, <2>1, <3>1, <3>2 DEF Snapshots!Judge, Snapshots!Judges
    <3>4. QED
      BY <3>3 DEF Snapshots!Next
  <2>4. CASE new.pc = "printed" /\ new.verified = 1
    <3>1. /\ VerdictAt(new) = "accepted" /\ SeenAt(new) = VersionRead(old)
          /\ UsedAt(new) = {VersionRead(old)}
      BY <1>9, <2>4 DEF VerdictAt, SeenAt, UsedAt, RefusedAt, AcceptedAt
    <3>2. VersionRead(old) \in Valid
      BY <1>5, <1>9, <2>4 DEF RunOK, Checked, VerifyIRAgainstSource
    <3>3. Snapshots!Accept(r)
      BY <1>1, <1>2, <1>3, <1>4, <1>9, <2>1, <3>1, <3>2 DEF Snapshots!Accept, Snapshots!Judges
    <3>4. QED
      BY <3>3 DEF Snapshots!Next
  <2>5. CASE new.pc = "printed" /\ new.verified = 0
    <3>1. VerdictAt(new) = "refused" /\ SeenAt(new) = <<>> /\ UsedAt(new) = {}
      BY <2>5 DEF VerdictAt, SeenAt, UsedAt, RefusedAt, AcceptedAt
    <3>2. Snapshots!Refuse(r)
      BY <1>1, <1>2, <1>3, <1>4, <1>9, <2>1, <3>1 DEF Snapshots!Refuse
    <3>3. QED
      BY <3>2 DEF Snapshots!Next
  <2>6. QED
    BY <1>9, <2>2, <2>3, <2>4, <2>5
<1>10. CASE /\ old.pc = "write" /\ new.pc \in {"write", "closed"}
            /\ VersionRead(new) = VersionRead(old) /\ outputDir' = WithNextReport(r)
            /\ new.pc = "closed" => old.written = 4
  <2>1. /\ VerdictAt(old) = "pending" /\ SeenAt(old) = VersionRead(old)
        /\ UsedAt(old) = {VersionRead(old)}
        /\ SeenAt(new) = VersionRead(old) /\ UsedAt(new) = {VersionRead(old)}
    BY <1>10 DEF VerdictAt, SeenAt, UsedAt, RefusedAt, AcceptedAt
  <2>2. /\ Holder' = r
        /\ outputDir = {} => Holder = Nobody
        /\ outputDir # {} => Holder = r
    BY <1>10, MappedReport DEF old
  <2>3. CASE new.pc = "write"
    <3>1. VerdictAt(new) = "pending"
      BY <2>3 DEF VerdictAt, RefusedAt
    <3>2. CASE outputDir = {}
      <4>1. Snapshots!Publish(r)
        BY <1>1, <1>2, <1>3, <2>1, <2>2, <3>1, <3>2 DEF Snapshots!Publish, Snapshots!Publishes
      <4>2. QED
        BY <4>1 DEF Snapshots!Next
    <3>3. CASE outputDir # {}
      <4>1. UNCHANGED Snapshots!snapshotVars
        BY <1>1, <1>2, <1>3, <2>1, <2>2, <3>1, <3>3
      <4>2. QED
        BY <4>1
    <3>4. QED
      BY <3>2, <3>3
  <2>4. CASE new.pc = "closed"
    <3>1. VerdictAt(new) = "accepted"
      BY <2>4 DEF VerdictAt, RefusedAt
    <3>2. outputDir # {}
      <4>1. outputDir = {[file |-> Reports[i], run |-> r] : i \in 1 .. 4}
        BY <1>10, <2>4 DEF Alone, Tidy, WrittenBy, old
      <4>2. 1 \in 1 .. 4
        OBVIOUS
      <4>3. QED
        BY <4>1, <4>2
    <3>3. Snapshots!Accept(r)
      BY <1>1, <1>2, <1>3, <2>1, <2>2, <3>1, <3>2 DEF Snapshots!Accept
    <3>4. QED
      BY <3>3 DEF Snapshots!Next
  <2>5. QED
    BY <1>10, <2>3, <2>4
<1>11. CASE /\ old.pc \in Reading \cup Looking \cup {"write"} /\ new.pc = "failed"
            /\ \/ outputDir' = outputDir
               \/ old.pc = "write" /\ outputDir' = WithNextReport(r)
  <2>1. VerdictAt(old) = "pending"
    BY <1>11 DEF Looking, Reading, VerdictAt, RefusedAt
  <2>2. VerdictAt(new) = "refused" /\ SeenAt(new) = <<>> /\ UsedAt(new) = {}
    BY <1>11 DEF VerdictAt, SeenAt, UsedAt, RefusedAt, AcceptedAt
  <2>3. \/ Holder' = Holder
        \/ Snapshots!Publishes(r)
    <3>1. CASE outputDir' = outputDir
      BY <1>4, <3>1
    <3>2. CASE old.pc = "write" /\ outputDir' = WithNextReport(r)
      <4>1. UsedAt(old) # {}
        BY <3>2 DEF UsedAt, AcceptedAt
      <4>2. /\ Holder' = r
            /\ outputDir = {} => Holder = Nobody
            /\ outputDir # {} => Holder = r
        BY <3>2, MappedReport DEF old
      <4>3. QED
        BY <1>2, <4>1, <4>2 DEF Snapshots!Publishes
    <3>3. QED
      BY <1>11, <3>1, <3>2
  <2>4. Snapshots!Refuse(r)
    BY <1>1, <1>2, <1>3, <2>1, <2>2, <2>3 DEF Snapshots!Refuse
  <2>5. QED
    BY <2>4 DEF Snapshots!Next
<1>12. QED
  BY <1>6, <1>7, <1>8, <1>9, <1>10, <1>11, Transitions DEF Transition, old, new

(* Edits of source or contract are changes of what there is to be seen;    *)
(* compiles and other edits are not seen.                                  *)
LEMMA FilesImplement ==
  ASSUME Inv, Edit \/ Compile \/ UNCHANGED vars
  PROVE  [Snapshots!Next]_Snapshots!snapshotVars
<1>1. run' = run /\ outputDir' = outputDir
  BY DEF Edit, Compile, CompileReadSource, CompileReadContract, CompileWriteIR, CompileWriteGo, CompileStops, vars
<1>2. Seen' = Seen /\ Used' = Used /\ Verdict' = Verdict /\ Holder' = Holder
  BY <1>1 DEF Seen, Used, Verdict, Holder, Refused, Accepted
<1>3. \/ source' = source /\ contract' = contract
      \/ source' \in Sources /\ contract' = contract
      \/ source' = source /\ contract' \in Contracts
  BY DEF Edit, Compile, CompileReadSource, CompileReadContract, CompileWriteIR,
         CompileWriteGo, CompileStops, vars, files
<1>4. source \in Sources /\ contract \in Contracts
  BY DEF Inv, Shape
<1>5. CASE source' = source /\ contract' = contract
  BY <1>2, <1>5 DEF Snapshots!snapshotVars
<1>6. CASE ~(source' = source /\ contract' = contract)
  <2>1. <<source', contract'>> \in Versions
    BY <1>3, <1>4 DEF Versions
  <2>2. DOMAIN <<source, contract>> = {1, 2}
    OBVIOUS
  <2>3. PICK input \in {1, 2} : \A other \in {1, 2} \ {input} :
          <<source', contract'>>[other] = <<source, contract>>[other]
    <3>1. CASE source' = source
      <4>1. \A other \in {1, 2} \ {2} : <<source', contract'>>[other] = <<source, contract>>[other]
        BY <3>1
      <4>2. QED
        BY <4>1
    <3>2. CASE contract' = contract
      <4>1. \A other \in {1, 2} \ {1} : <<source', contract'>>[other] = <<source, contract>>[other]
        BY <3>2
      <4>2. QED
        BY <4>1
    <3>3. QED
      BY <1>3, <3>1, <3>2
  <2>4. Snapshots!Change
    BY <1>2, <2>1, <2>2, <2>3 DEF Snapshots!Change
  <2>5. QED
    BY <2>4 DEF Snapshots!Next
<1>7. QED
  BY <1>5, <1>6

(* Commands that follow each other, reading source, contract, IR, executor *)
(* and fixture at different moments, act as if IR and executor had been    *)
(* made from what they saw in their two looks, and had the directory to    *)
(* themselves.                                                             *)
THEOREM SnapshotsAreTaken ==
  ASSUME Exclusive
  PROVE  Spec => ImplementsSnapshot
<1>1. Init => Snapshots!Init
  <2>1. SUFFICES ASSUME Init PROVE Snapshots!Init
    OBVIOUS
  <2>2. Inv /\ Mapping
    BY <2>1, InitInv, Mapped
  <2>3. \A r \in Runs : run[r].pc = "idle"
    BY <2>1 DEF Init, Idle
  <2>4. \A r \in Runs : /\ VerdictAt(run[r]) = "none"
                        /\ SeenAt(run[r]) = <<>> /\ UsedAt(run[r]) = {}
    BY <2>3 DEF VerdictAt, SeenAt, UsedAt, RefusedAt, AcceptedAt
  <2>5. Holder = Nobody /\ <<source, contract>> \in Valid
    <3>1. PICK version \in Valid : source = version[1] /\ contract = version[2]
      BY <2>1 DEF Init
    <3>2. version = <<version[1], version[2]>>
      BY ArtifactsAssumption
    <3>3. QED
      BY <2>1, <3>1, <3>2 DEF Init, Holder
  <2>6. QED
    BY <2>2, <2>4, <2>5 DEF Mapping, Snapshots!Init
<1>2. Inv /\ Alone /\ Inv' /\ Alone' /\ [Next]_vars
      => [Snapshots!Next]_Snapshots!snapshotVars
  BY MoveImplements, FilesImplement DEF Next, Moves
<1>3. QED
  BY <1>1, <1>2, AloneAlways, PTL DEF Spec, ImplementsSnapshot, Snapshots!Spec
=============================================================================
