------------------------------ MODULE Binding ------------------------------
(***************************************************************************)
(* What binds the files to one another, field by field: BuildIR and        *)
(* ValidateIR (internal/meta/lower.go), the digests (digest.go), the       *)
(* comparisons of verify.go, and the table of proofs that GenerateGoSource *)
(* writes (generate.go, internal/generated/meta.gooo.go).  Somebody edits  *)
(* fields of the IR or entries of the table, or puts there what was made   *)
(* of another version.                                                     *)
(*                                                                         *)
(* A digest is the value it digests.  When the files are read is in module *)
(* Artifacts.                                                              *)
(***************************************************************************)
EXTENDS Naturals, Sequences, SequencesExt

CONSTANTS
  Cases,          \* what each source has cases for, and TypecheckCase makes of them
  Declarations,   \* what else each source declares
  Contracts,      \* the contracts
  Accepts,        \* the sources and contracts that ValidateSource accepts together
  FixedCaseCount, \* how many cases a source has
  MaxEdits        \* bounds the number of edits since the last compile

Sources == DOMAIN Cases

VARIABLES source, contract, irFile, proofJSON, edits

vars == <<source, contract, irFile, proofJSON, edits>>

(* What TypecheckCase makes of a case.  Carried out and expected of it are  *)
(* its facts; args are the arguments of its expression.                    *)
CaseType == [id : STRING, decision : {"CLOSED", "REFUTED", "UNKNOWN"}, reason : STRING,
             facts : [of : STRING, args : {"some", "none", "empty"}]]

ASSUME CasesAssumption == \A s \in Sources : Cases[s] \in Seq(CaseType)

(* What ValidateSource asks of the cases (lower.go:142-151).  A digest is  *)
(* never the empty text.                                                   *)
ASSUME AcceptsAssumption ==
  /\ Accepts \subseteq Sources \X Contracts /\ "" \notin Sources \cup Contracts
  /\ \A s \in Sources, c \in Contracts : <<s, c>> \in Accepts =>
       /\ Len(Cases[s]) = FixedCaseCount
       /\ \A i \in DOMAIN Cases[s] :
            Cases[s][i].id # "" /\ \A j \in DOMAIN Cases[s] : Cases[s][i].id = Cases[s][j].id => i = j

CaseIDs == UNION {{Cases[s][i].id : i \in DOMAIN Cases[s]} : s \in Sources}

-----------------------------------------------------------------------------
(* Lowering.                                                               *)

(* The facts of a proof are all that is carried out and expected.  They     *)
(* come back from JSON as they were, except that an empty list of          *)
(* arguments comes back as none (nil).                                     *)
Reloaded(facts) == IF facts.args = "empty" THEN [facts EXCEPT !.args = "none"] ELSE facts

FileFacts == UNION {{Reloaded(Cases[s][i].facts) : i \in DOMAIN Cases[s]} : s \in Sources}

Marshalled(proofs) == [i \in DOMAIN proofs |-> [proofs[i] EXCEPT !.facts = Reloaded(@)]]

unsignedIRDigest(ir) ==
  LET unsigned == [i \in DOMAIN ir.proofs |-> [ir.proofs[i] EXCEPT !.irDigest = <<>>]]
  IN  <<[ir EXCEPT !.irDigest = <<>>, !.proofs = Marshalled(unsigned)]>>

Signed(ir, digest) ==
  [ir EXCEPT !.irDigest = digest,
             !.proofs = [i \in DOMAIN ir.proofs |-> [ir.proofs[i] EXCEPT !.irDigest = digest]]]

(* The proof of a case, as TypecheckCase leaves it.                        *)
Proof(s, case) ==
  [schema |-> "generated", caseID |-> case.id, decision |-> case.decision,
   reason |-> case.reason, facts |-> case.facts,
   sourceDigest |-> s, contractDigest |-> "", irDigest |-> <<>>]

BuildIR(s, c) ==
  LET proof(case) == [Proof(s, case) EXCEPT !.contractDigest = c]
      ir == [schema |-> "ir", version |-> "v1", sourceDigest |-> s, contractDigest |-> c,
             fixed |-> TRUE, declared |-> Declarations[s],
             cases |-> [i \in DOMAIN Cases[s] |-> Cases[s][i].id],
             proofs |-> [i \in DOMAIN Cases[s] |-> proof(Cases[s][i])], irDigest |-> <<>>]
  IN  Signed(ir, unsignedIRDigest(ir))

(* What LoadIR finds in the file that compile has written.                 *)
LoadIR(ir) == [ir EXCEPT !.proofs = Marshalled(@)]

(* The table of the generated executor, by case.                           *)
GenerateGoSource(ir) ==
  LET proofs == Marshalled(ir.proofs)
      of(id) == CHOOSE i \in DOMAIN proofs : proofs[i].caseID = id
  IN  [id \in {proofs[i].caseID : i \in DOMAIN proofs} |-> proofs[of(id)]]

(* Mutant: what is bound is not looked at again.                           *)
ValidateIRIdentity(ir) ==
  /\ ir.schema = "ir" /\ ir.version = "v1"
  /\ ir.sourceDigest # "" /\ ir.contractDigest # "" /\ ir.irDigest # <<>>
  /\ ir.fixed /\ Len(ir.cases) = FixedCaseCount /\ Len(ir.proofs) = FixedCaseCount

ValidateIR(ir) ==
  /\ ir.schema = "ir" /\ ir.version = "v1"
  /\ ir.sourceDigest # "" /\ ir.contractDigest # "" /\ ir.irDigest # <<>>
  /\ ir.fixed /\ Len(ir.cases) = FixedCaseCount /\ Len(ir.proofs) = FixedCaseCount
  /\ unsignedIRDigest(ir) = ir.irDigest
  /\ \A i \in DOMAIN ir.proofs :
       /\ ir.proofs[i].irDigest = ir.irDigest
       /\ ir.proofs[i].sourceDigest = ir.sourceDigest
       /\ ir.proofs[i].contractDigest = ir.contractDigest
       /\ ir.proofs[i].caseID = ir.cases[i]

-----------------------------------------------------------------------------
(* Verification.                                                           *)

VerifyIRAgainstSource(ir, s, c) ==
  LET expected == BuildIR(s, c)
  IN  /\ ValidateIR(ir)
      /\ <<s, c>> \in Accepts
      /\ expected.irDigest = ir.irDigest
      /\ expected.sourceDigest = ir.sourceDigest /\ expected.contractDigest = ir.contractDigest
      /\ expected.proofs = ir.proofs

VerifyProofBinding(proof, ir) ==
  /\ proof.schema = "generated" /\ proof.caseID # ""
  /\ proof.sourceDigest = ir.sourceDigest /\ proof.contractDigest = ir.contractDigest
  /\ proof.irDigest = ir.irDigest
  /\ proof \in ToSet(ir.proofs)

(* Execute of the generated executor, on the declared fixture: a receipt,  *)
(* which stands for the effects, the trace and the output of what was      *)
(* carried out, or no result where a binding is missing.                   *)
Nothing == "nothing carried out"

Executes(proof) ==
  proof.schema = "generated" /\ proof.decision = "CLOSED" =>
    proof.sourceDigest # "" /\ proof.contractDigest # "" /\ proof.irDigest # <<>> /\ proof.caseID # ""

Execute(proof) ==
  [caseID |-> proof.caseID, decision |-> proof.decision, reason |-> proof.reason,
   carriedOut |-> IF proof.schema = "generated" /\ proof.decision = "CLOSED"
                  THEN <<proof.facts>> ELSE <<>>]

(* Mutant: what is not CLOSED needs no comparison.                         *)
VerifyExecutionClosed(proof, result) ==
  proof.decision = "CLOSED" =>
    /\ result.caseID = proof.caseID /\ result.decision = "CLOSED"
    /\ result.reason = proof.reason /\ result.carriedOut = <<proof.facts>>

VerifyExecution(proof, result) ==
  IF proof.decision = "CLOSED"
  THEN /\ result.caseID = proof.caseID /\ result.decision = "CLOSED"
       /\ result.reason = proof.reason /\ result.carriedOut = <<proof.facts>>
  ELSE result.decision = proof.decision /\ result.reason = proof.reason

(* typecheck prints the proofs of an IR that it keeps to itself.           *)
typecheckCommand == Marshalled(BuildIR(source, contract).proofs)

(* execute for the i-th case prints "verified".                            *)
executeCommand(i) ==
  LET id == Cases[source][i].id
  IN  /\ VerifyIRAgainstSource(irFile, source, contract)
      /\ id \in DOMAIN proofJSON
      /\ Executes(proofJSON[id])
      /\ VerifyProofBinding(proofJSON[id], irFile)
      /\ VerifyExecution(irFile.proofs[i], Execute(proofJSON[id]))

(* Mutant: whose proof it is is left to the verification, as in execute.   *)
ConformanceCaseUnnamed(i) == executeCommand(i)

(* One turn of the loop of RunConformance, which asks for more.            *)
ConformanceCase(i) ==
  /\ executeCommand(i)
  /\ proofJSON[Cases[source][i].id].caseID = irFile.proofs[i].caseID

RunConformance ==
  /\ VerifyIRAgainstSource(irFile, source, contract)
  /\ \A i \in DOMAIN Cases[source] : ConformanceCase(i)

-----------------------------------------------------------------------------
Init ==
  /\ source \in Sources /\ contract \in Contracts /\ <<source, contract>> \in Accepts
  /\ irFile = LoadIR(BuildIR(source, contract))
  /\ proofJSON = GenerateGoSource(BuildIR(source, contract))
  /\ edits = 0

(* compile.                                                                *)
Compile ==
  /\ <<source, contract>> \in Accepts
  /\ irFile' = LoadIR(BuildIR(source, contract))
  /\ proofJSON' = GenerateGoSource(BuildIR(source, contract))
  /\ edits' = 0 /\ UNCHANGED <<source, contract>>

(* Digests of other versions, and none.                                    *)
IRDigests == {<<>>} \cup {BuildIR(accepted[1], accepted[2]).irDigest : accepted \in Accepts}

EditedProofs(proof) ==
  {[proof EXCEPT !.schema = "other"]}
  \cup {[proof EXCEPT !.caseID = id] : id \in CaseIDs \cup {""}}
  \cup {[proof EXCEPT !.decision = decision] : decision \in {"CLOSED", "REFUTED", "UNKNOWN"}}
  \cup {[proof EXCEPT !.reason = "another"]}
  \cup {[proof EXCEPT !.facts = facts] : facts \in FileFacts}
  \cup {[proof EXCEPT !.sourceDigest = s] : s \in Sources \cup {""}}
  \cup {[proof EXCEPT !.contractDigest = c] : c \in Contracts \cup {""}}
  \cup {[proof EXCEPT !.irDigest = digest] : digest \in IRDigests}

Exchanged(f, a, b) == [f EXCEPT ![a] = f[b], ![b] = f[a]]

EditedTables(table) ==
  {Exchanged(table, ab[1], ab[2]) : ab \in (DOMAIN table) \X (DOMAIN table)}
  \cup UNION {{[table EXCEPT ![a] = proof] : proof \in EditedProofs(table[a])} : a \in DOMAIN table}

(* An entry is taken out of the table, or is there under one more key.     *)
ResizedTables ==
  {Restrict(proofJSON, DOMAIN proofJSON \ {id}) : id \in DOMAIN proofJSON}
  \cup {proofJSON @@ (id :> proofJSON[a]) : id \in CaseIDs \cup {"another"}, a \in DOMAIN proofJSON}

EditedIRs ==
  {[irFile EXCEPT !.schema = "other"], [irFile EXCEPT !.version = "v2"],
   [irFile EXCEPT !.fixed = FALSE], [irFile EXCEPT !.declared = "another"],
   [irFile EXCEPT !.cases = SubSeq(@, 2, Len(@))],
   [irFile EXCEPT !.proofs = SubSeq(@, 2, Len(@))],
   Signed(irFile, unsignedIRDigest(irFile))}
  \cup {[irFile EXCEPT !.sourceDigest = s] : s \in Sources \cup {""}}
  \cup {[irFile EXCEPT !.contractDigest = c] : c \in Contracts \cup {""}}
  \cup {[irFile EXCEPT !.irDigest = digest] : digest \in IRDigests}
  \cup {[irFile EXCEPT !.cases = Exchanged(@, 1, i)] : i \in DOMAIN irFile.cases}
  \cup {[irFile EXCEPT !.proofs = proofs] : proofs \in EditedTables(irFile.proofs)}

(* A field or an entry of one file is edited, or the whole IR is signed    *)
(* again; the source or the contract is another version.                   *)
Edit ==
  /\ edits < MaxEdits /\ edits' = edits + 1
  /\ \/ irFile' \in EditedIRs /\ irFile' # irFile /\ UNCHANGED <<source, contract, proofJSON>>
     \/ /\ proofJSON' \in EditedTables(proofJSON) \cup ResizedTables /\ proofJSON' # proofJSON
        /\ UNCHANGED <<source, contract, irFile>>
     \/ source' \in Sources \ {source} /\ UNCHANGED <<contract, irFile, proofJSON>>
     \/ contract' \in Contracts \ {contract} /\ UNCHANGED <<source, irFile, proofJSON>>

Next == Compile \/ Edit

Spec == Init /\ [][Next]_vars
-----------------------------------------------------------------------------
(* Properties.                                                             *)

Lowered == BuildIR(source, contract)

(* The two digests, the four comparisons of ValidateIR and the deep        *)
(* comparison of the proofs overlap and leave out fields; together they    *)
(* pin down every field.  verify.go accepts one IR for a source and a      *)
(* contract, their lowering, in whatever fields another one differs and    *)
(* even if it was signed again.                                            *)
OneIRIsAccepted ==
  VerifyIRAgainstSource(irFile, source, contract)
  <=> <<source, contract>> \in Accepts /\ irFile = Lowered

(* The IR and the executor may come from different versions, proofs may be *)
(* under one another's keys, be missing, or be too many, any field may     *)
(* have changed.  Conformance closes exactly if the IR and, of each case,  *)
(* the generated proof are what compile would write now: changing the      *)
(* source, the contract or a generated proof is always noticed             *)
(* (docs/semantic-boundary.md:23-25), and nothing that is as it should be  *)
(* is refused.  An entry for no case of the source is never asked for, and *)
(* not noticed.                                                            *)
ConformanceIsExact ==
  LET written == GenerateGoSource(Lowered)
  IN  RunConformance <=>
        /\ <<source, contract>> \in Accepts /\ irFile = Lowered
        /\ \A id \in DOMAIN written : id \in DOMAIN proofJSON /\ proofJSON[id] = written[id]

(* execute does not ask whose proof it has run.  What it calls verified is *)
(* nevertheless the lowering's proof of that case, or one that also is not *)
(* CLOSED, for the same reason: nothing is carried out for a wrong case.   *)
(* typecheck prints just those proofs.                                     *)
ExecutedAsDeclared ==
  \A i \in DOMAIN Cases[source] : executeCommand(i) =>
    LET case == Cases[source][i]
        executed == proofJSON[case.id]
    IN  /\ executed \in ToSet(typecheckCommand)
        /\ executed.decision = case.decision /\ executed.reason = case.reason
        /\ case.decision = "CLOSED" => executed = typecheckCommand[i]
=============================================================================
