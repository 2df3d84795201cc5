----------------------------- MODULE Artifacts -----------------------------
(***************************************************************************)
(* The files the commands share, and the commands as processes that read   *)
(* and write them one after the other while somebody may edit them:        *)
(* compile (cmd/.../main.go, internal/meta/generate.go), execute and       *)
(* conformance (main.go, report.go, verify.go).                            *)
(*                                                                         *)
(* A digest or a deep comparison is modelled by comparing what the files   *)
(* were made from.  What typechecking and executing one case means is in   *)
(* modules Typecheck and Pipeline.                                         *)
(***************************************************************************)
EXTENDS Naturals, FiniteSets, Sequences

CONSTANTS
  Sources,     \* the versions of main.gooo
  Contracts,   \* the versions of denominator-v1.json
  Readable,    \* those of both that ParseSource and LoadContract read
  Valid,       \* the pairs of them that BuildIR accepts
  EmptyCalls,  \* the sources with a call like f() in an expression that is kept
  Runs,        \* the runs of execute and conformance
  Commands,    \* the commands they may be
  Cases,       \* how many cases there are
  ClosedCases, \* those declared CLOSED
  Exclusive,   \* TRUE if runs do not overlap
  MaxEdits,    \* bounds the number of edits
  MaxCompiles  \* bounds the number of compile commands

ASSUME ArtifactsAssumption ==
  /\ Valid \subseteq (Sources \cap Readable) \X (Contracts \cap Readable)
  /\ Commands \subseteq {"execute", "conformance"}
  /\ Cases \in Nat \ {0} /\ ClosedCases \subseteq 1 .. Cases
  /\ MaxEdits \in Nat /\ MaxCompiles \in Nat /\ Exclusive \in BOOLEAN

VARIABLES
  source,     \* main.gooo
  contract,   \* denominator-v1.json
  irFile,     \* semantic-ir.json
  goFile,     \* meta.gooo.go
  fixture,    \* input.gooo
  outputDir,  \* the files of the output directory, each with its run
  edits,      \* the number of edits so far
  compiler,   \* the compile command
  run         \* the state of each run

files == <<source, contract, irFile, goFile, fixture>>
vars == <<source, contract, irFile, goFile, fixture, outputDir, edits, compiler, run>>

(* A version is what lowering starts from, a source and a contract.        *)
Versions == Sources \X Contracts

(* The version that a process has read, in two reads.                      *)
VersionRead(process) == <<process.source, process.contract>>

(* What lowering and generation make of a version.                         *)
IRFile == [of : Versions, sound : BOOLEAN]
GoFile == [of : Versions, sound : BOOLEAN, body : {"generated", "edited"}]

BuildIR(version) == [of |-> version, sound |-> TRUE]
GenerateGoSource(version) == [of |-> version, sound |-> TRUE, body |-> "generated"]

Reports == <<"conformance-report.json", "inventory.json", "stage-metrics.json",
             "test-metrics.json", "ci-summary.md">>

Idle == [pc |-> "idle", command |-> "none", built |-> goFile,
         source |-> source, contract |-> contract, differs |-> FALSE,
         ir |-> irFile, verified |-> 0, compiled |-> {}, written |-> 0]

(* IR and executor were lowered from one version, this one or an earlier.  *)
Init ==
  /\ \E version \in Valid : source = version[1] /\ contract = version[2]
  /\ \E version \in Valid : irFile = BuildIR(version) /\ goFile = GenerateGoSource(version)
  /\ fixture = "declared"
  /\ outputDir = {} /\ edits = 0
  /\ compiler = [pc |-> "idle", source |-> source, contract |-> contract, count |-> 0]
  /\ run = [r \in Runs |-> Idle]

-----------------------------------------------------------------------------
(* Somebody edits the tree.                                                *)

Edit ==
  /\ edits < MaxEdits /\ edits' = edits + 1
  /\ \/ /\ source' \in Sources \ {source}
        /\ UNCHANGED <<contract, irFile, goFile, fixture>>
     \/ /\ contract' \in Contracts \ {contract}
        /\ UNCHANGED <<source, irFile, goFile, fixture>>
     \/ /\ irFile' = [irFile EXCEPT !.sound = FALSE]
        /\ UNCHANGED <<source, contract, goFile, fixture>>
     \/ /\ goFile' \in {[goFile EXCEPT !.sound = FALSE], [goFile EXCEPT !.body = "edited"]}
        /\ UNCHANGED <<source, contract, irFile, fixture>>
     \/ /\ fixture' \in {"other", "broken", "absent"} \ {fixture}
        /\ UNCHANGED <<source, contract, irFile, goFile>>
  /\ UNCHANGED <<outputDir, compiler, run>>

-----------------------------------------------------------------------------
(* compile: WriteCompileOutputs reads the source, then the contract,       *)
(* builds everything in memory, and writes the IR, then the executor.  A   *)
(* source that cannot be parsed ends it before it has done anything.  It   *)
(* may stop, or fail to write, in between, and leave part of a file        *)
(* (os.WriteFile truncates it first).                                      *)

CompileReadSource ==
  /\ compiler.pc \in {"idle", "done", "stopped"} /\ compiler.count < MaxCompiles
  /\ source \in Readable
  /\ compiler' = [compiler EXCEPT !.pc = "readContract", !.source = source, !.count = @ + 1]
  /\ UNCHANGED <<files, outputDir, edits, run>>

(* LoadContract, BuildIR and GenerateGoSource.                             *)
CompileReadContract ==
  /\ compiler.pc = "readContract"
  /\ compiler' = [compiler EXCEPT !.contract = contract,
                     !.pc = IF <<compiler.source, contract>> \in Valid THEN "writeIR"
                            ELSE "stopped"]
  /\ UNCHANGED <<files, outputDir, edits, run>>

CompileWriteIR ==
  /\ compiler.pc = "writeIR"
  /\ irFile' = BuildIR(VersionRead(compiler))
  /\ compiler' = [compiler EXCEPT !.pc = "writeGo"]
  /\ UNCHANGED <<source, contract, goFile, fixture, outputDir, edits, run>>

CompileWriteGo ==
  /\ compiler.pc = "writeGo"
  /\ goFile' = GenerateGoSource(VersionRead(compiler))
  /\ compiler' = [compiler EXCEPT !.pc = "done"]
  /\ UNCHANGED <<source, contract, irFile, fixture, outputDir, edits, run>>

CompileStops ==
  /\ compiler.pc \in {"readContract", "writeIR", "writeGo"}
  /\ compiler' = [compiler EXCEPT !.pc = "stopped"]
  /\ \/ UNCHANGED <<irFile, goFile>>
     \/ /\ compiler.pc = "writeIR"
        /\ irFile' = [irFile EXCEPT !.sound = FALSE] /\ UNCHANGED goFile
     \/ /\ compiler.pc = "writeGo"
        /\ goFile' = [goFile EXCEPT !.sound = FALSE] /\ UNCHANGED irFile
  /\ UNCHANGED <<source, contract, fixture, outputDir, edits, run>>

-----------------------------------------------------------------------------
(* execute and conformance.  `go run' builds the executor into the command *)
(* before the command reads anything.                                      *)

Ended == {"idle", "failed", "closed", "printed"}

Goto(r, pc) == run' = [run EXCEPT ![r].pc = pc]

Keep == UNCHANGED <<files, outputDir, edits, compiler>>

Start(r) ==
  /\ run[r].pc = "idle"
  /\ Exclusive => \A other \in Runs : run[other].pc \in Ended
  /\ \E command \in Commands :
       run' = [run EXCEPT ![r].pc = "parse", ![r].command = command, ![r].built = goFile]
  /\ Keep

(* Mutant: a source that cannot be parsed is waited for.                   *)
ReadSourceWaiting(r) ==
  /\ run[r].pc = "parse" /\ source \in Readable
  /\ run' = [run EXCEPT ![r].source = source, ![r].pc = "contract"]
  /\ Keep

(* ParseSource.                                                            *)
ReadSource(r) ==
  /\ run[r].pc = "parse"
  /\ IF source \notin Readable THEN Goto(r, "failed")
     ELSE run' = [run EXCEPT ![r].source = source, ![r].pc = "contract"]
  /\ Keep

(* LoadContract and, in conformance, BuildIR and TypecheckCase.            *)
ReadContract(r) ==
  /\ run[r].pc = "contract"
  /\ IF \/ contract \notin Readable
        \/ run[r].command = "conformance" /\ <<run[r].source, contract>> \notin Valid
     THEN Goto(r, "failed")
     ELSE run' = [run EXCEPT ![r].contract = contract,
                             ![r].pc = IF run[r].command = "execute" THEN "load"
                                       ELSE "generate"]
  /\ Keep

(* conformance, stage "generate": the comparison with the file on disk     *)
(* returns an error that measure drops and errStage never holds.           *)
CompareGenerated(r) ==
  /\ run[r].pc = "generate"
  /\ run' = [run EXCEPT ![r].differs = goFile # GenerateGoSource(VersionRead(run[r])),
                        ![r].pc = "load"]
  /\ Keep

LoadIR(r) ==
  /\ run[r].pc = "load"
  /\ run' = [run EXCEPT ![r].ir = irFile, ![r].pc = "verify"]
  /\ Keep

(* Mutant: an IR of another contract passes.                               *)
VerifyIRSourceOnly(ir, version) ==
  version \in Valid /\ ir.sound /\ ir.of[1] = version[1] /\ version[1] \notin EmptyCalls

(* The IR that is loaded is compared with one built of what was read.  The *)
(* reloaded proof of an f() differs from the one just built: Args is an    *)
(* empty slice when parsed, "omitempty" drops it, and it is nil when       *)
(* loaded.                                                                 *)
VerifyIRAgainstSource(ir, version) ==
  version \in Valid /\ ir.sound /\ ir.of = version /\ version[1] \notin EmptyCalls

VerifyIR(r) ==
  /\ run[r].pc = "verify"
  /\ Goto(r, IF ~VerifyIRAgainstSource(run[r].ir, VersionRead(run[r])) THEN "failed"
             ELSE IF run[r].command = "execute" THEN "case" ELSE "output")
  /\ Keep

(* Mutants: the directory is used as it is, or emptied, or the report is   *)
(* begun before the cases.                                                 *)
EnsureOutputUnchecked(r) == run[r].pc = "output" /\ Goto(r, "case") /\ Keep

EnsureOutputCleared(r) ==
  /\ run[r].pc = "output"
  /\ Goto(r, "case")
  /\ outputDir' = {} /\ UNCHANGED <<files, edits, compiler>>

EnsureOutputThenReport(r) ==
  /\ run[r].pc = "output"
  /\ Goto(r, IF outputDir = {} THEN "write" ELSE "failed")
  /\ Keep

(* ensureCallerOutput, once, before the cases.                             *)
EnsureCallerOutput(r) ==
  /\ run[r].pc = "output"
  /\ Goto(r, IF outputDir = {} THEN "case" ELSE "failed")
  /\ Keep

(* Mutant: the proofs are well-formed, whatever their source was.          *)
VerifyProofAlone(built, ir) == built.sound

VerifyProofBinding(built, ir) == built.sound /\ built.of = ir.of

(* Mutant: the output is not compared with the declared one.               *)
OutcomesAnyOutput(body, case) ==
  IF body = "edited" THEN {"verified", "rejected", "error"}
  ELSE IF fixture # "broken" THEN {"verified"} ELSE {"error"}

(* What the executor that was built in makes of a case: a proof that is    *)
(* not CLOSED is returned without a look at the fixture.  An edited body   *)
(* may return anything.                                                    *)
Outcomes(body, case) ==
  IF body = "edited" THEN {"verified", "rejected", "error"}
  ELSE IF case \notin ClosedCases \/ fixture = "declared" THEN {"verified"}
  ELSE IF fixture = "other" THEN {"rejected"} ELSE {"error"}

(* The fixtures that come to be compiled in such a case.                   *)
Compiled(case) == IF case \in ClosedCases THEN {fixture} ELSE {}

(* Mutant: the loop makes a turn too many.                                 *)
LastCaseTooLate(r) == run[r].verified = Cases
LastCase(r) == run[r].verified + 1 = Cases

(* One turn of the loop of RunConformance: the generated proof is compared *)
(* with the IR before the fixture is read and the case executed.           *)
ConformanceCase(r) ==
  LET case == run[r].verified + 1
  IN  /\ run[r].pc = "case" /\ run[r].command = "conformance"
      /\ IF ~VerifyProofBinding(run[r].built, run[r].ir) \/ fixture = "absent"
         THEN Goto(r, "failed")
         ELSE \E outcome \in Outcomes(run[r].built.body, case) :
                IF outcome # "verified" THEN Goto(r, "failed")
                ELSE run' = [run EXCEPT
                       ![r].verified = @ + 1, ![r].compiled = @ \cup Compiled(case),
                       ![r].pc = IF LastCase(r) THEN "write" ELSE "case"]
      /\ Keep

(* execute runs the case it was given first and compares the proof         *)
(* afterwards; a rejected execution is printed like a verified one.        *)
ExecuteCase(r) ==
  /\ run[r].pc = "case" /\ run[r].command = "execute"
  /\ IF fixture = "absent" THEN Goto(r, "failed")
     ELSE \E case \in 1 .. Cases : \E outcome \in Outcomes(run[r].built.body, case) :
            IF outcome = "error" \/ ~VerifyProofBinding(run[r].built, run[r].ir)
            THEN Goto(r, "failed")
            ELSE run' = [run EXCEPT
                   ![r].verified = IF outcome = "verified" THEN 1 ELSE 0,
                   ![r].compiled = Compiled(case), ![r].pc = "printed"]
  /\ Keep

(* The five files are written one by one; each write may fail, before or   *)
(* after the file was created.                                             *)
WithNextReport(r) ==
  LET file == Reports[run[r].written + 1]
  IN  {entry \in outputDir : entry.file # file} \cup {[file |-> file, run |-> r]}

WriteReport(r) ==
  /\ run[r].pc = "write"
  /\ \/ /\ outputDir' = WithNextReport(r)
        /\ run' = [run EXCEPT ![r].written = @ + 1,
                     ![r].pc = IF run[r].written + 1 = Len(Reports) THEN "closed" ELSE "write"]
     \/ Goto(r, "failed") /\ outputDir' \in {outputDir, WithNextReport(r)}
  /\ UNCHANGED <<files, edits, compiler>>

(* The process dies, or a call that touches no modelled file fails.        *)
Crash(r) ==
  /\ run[r].pc \notin Ended
  /\ Goto(r, "failed")
  /\ \/ UNCHANGED outputDir
     \/ run[r].pc = "write" /\ outputDir' = WithNextReport(r)
  /\ UNCHANGED <<files, edits, compiler>>

-----------------------------------------------------------------------------
Proceed(r) ==
  \/ ReadSource(r) \/ ReadContract(r) \/ CompareGenerated(r) \/ LoadIR(r) \/ VerifyIR(r)
  \/ EnsureCallerOutput(r) \/ ConformanceCase(r) \/ ExecuteCase(r) \/ WriteReport(r)

Compile ==
  \/ CompileReadSource \/ CompileReadContract
  \/ CompileWriteIR \/ CompileWriteGo \/ CompileStops

Next ==
  \/ Edit \/ Compile
  \/ \E r \in Runs : Start(r) \/ Proceed(r) \/ Crash(r)

(* A command that was started goes on until it ends: nothing blocks it.    *)
Spec == Init /\ [][Next]_vars /\ \A r \in Runs : WF_vars(Proceed(r))

-----------------------------------------------------------------------------
(* Properties.                                                             *)

(* The shape of the files and of the processes.                            *)
TypeOK ==
  /\ source \in Sources /\ contract \in Contracts
  /\ irFile \in IRFile /\ goFile \in GoFile
  /\ fixture \in {"declared", "other", "broken", "absent"}
  /\ outputDir \subseteq [file : {Reports[i] : i \in DOMAIN Reports}, run : Runs]
  /\ edits \in 0 .. MaxEdits
  /\ \A r \in Runs : /\ run[r].built \in GoFile /\ run[r].ir \in IRFile
                     /\ run[r].verified \in 0 .. Cases
                     /\ run[r].written \in 0 .. Len(Reports)

Accepted(r) ==
  \/ run[r].pc \in {"write", "closed"}
  \/ run[r].pc = "printed" /\ run[r].verified = 1

(* Source, contract, loaded IR and built-in proofs are read at different   *)
(* moments, with edits and a half-done compile in between, and nothing     *)
(* locks them.  A run that accepts has nevertheless used an IR and proofs  *)
(* of just the source and the contract it has read, each at its moment.    *)
AcceptedIsBound ==
  \A r \in Runs : Accepted(r) =>
    /\ VersionRead(run[r]) \in Valid
    /\ run[r].ir = BuildIR(VersionRead(run[r]))
    /\ run[r].built.sound /\ run[r].built.of = VersionRead(run[r])

(* The fixture is read again for every case, and may be another one by     *)
(* then.  With an unedited executor, what was compiled for the CLOSED      *)
(* cases of an accepted run is the declared fixture each time.             *)
DeclaredFixtureOnly ==
  \A r \in Runs :
    Accepted(r) /\ run[r].built.body = "generated" =>
      /\ run[r].compiled \subseteq {"declared"}
      /\ run[r].command = "conformance" /\ ClosedCases # {} => run[r].compiled # {}

(* A conformance report only exists once every case of its run was         *)
(* verified, even if the run failed or crashed while it wrote the rest.    *)
ReportOnlyIfVerified ==
  \A entry \in outputDir : run[entry.run].verified = Cases

(* Runs that follow each other never mix their files, whatever a crashed   *)
(* one left behind, and a run that closes has left all of them.            *)
OneRunPerDirectory ==
  /\ \A entry, other \in outputDir : entry.run = other.run
  /\ \A r \in Runs : run[r].pc = "closed" =>
       {entry.file : entry \in outputDir} = {Reports[i] : i \in DOMAIN Reports}

(* What was accepted stays accepted: a later run, an edit or a compile     *)
(* takes no file away from a closed run.                                   *)
ClosedRunsKeepTheirFiles ==
  [][\A r \in Runs : run[r].pc = "closed" =>
       {entry \in outputDir : entry.run = r} \subseteq outputDir']_vars

(* Every started command ends.                                             *)
CommandsEnd == \A r \in Runs : run[r].pc = "parse" ~> run[r].pc \in Ended

-----------------------------------------------------------------------------
(* What the repository says and the commands do not do.                    *)

(* main.go:219, "checked-in generated executor differs from source         *)
(* lowering": a conformance run that finds such an executor ends with an   *)
(* error.                                                                  *)
GeneratedExecutorIsCompared ==
  \A r \in Runs :
    run[r].command = "conformance" /\ run[r].pc = "closed" => ~run[r].differs
=============================================================================
