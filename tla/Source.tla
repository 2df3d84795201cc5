------------------------------- MODULE Source -------------------------------
(***************************************************************************)
(* From a .gooo file to the environment the typechecker works in:          *)
(* ParseSourceBytes (internal/meta/parse.go), ValidateSource and           *)
(* newEnvironment (internal/meta/lower.go), while somebody edits the file. *)
(*                                                                         *)
(* A text is the sequence of its parts at the separator it is split at     *)
(* (">" in a precedence line, else ","), so that "a,-" is <<"a", "-">> and *)
(* an empty or missing text is <<"">>.  A line is a word and its fields; a *)
(* field without "=" or with nothing before it has the key "", and the     *)
(* field Comment stands for a # or // and hides what follows it.           *)
(***************************************************************************)
EXTENDS Integers, SequencesExt, Functions

CONSTANTS
  Original,        \* the lines of the file as it was
  Extras,          \* lines that somebody may add
  Respellings,     \* fields that somebody may write over one of the same key or value
  DeclaredContract, \* the content of the contract file as it was
  OtherContracts,  \* what somebody may replace it by
  FixedCaseCount,
  Atoi,            \* strconv.Atoi: of the texts that are numbers, which ones
  MaxEdits         \* bounds the number of edits

VARIABLES lines, contract, edits, decl, verdict

vars == <<lines, contract, edits, decl, verdict>>

NoText == <<"">>
Comment == [key |-> "#", value |-> <<>>]

FieldType == [key : STRING, value : Seq(STRING)] \cup {Comment}
LineType == [word : STRING, fields : Seq(FieldType)]

ASSUME TextsAssumption ==
  /\ Original \in Seq(LineType) /\ Extras \subseteq LineType
  /\ Respellings \subseteq FieldType

(* An empty text is no number, and each number that ValidateSource asks    *)
(* for can be written.                                                     *)
ASSUME NumbersAssumption ==
  /\ FixedCaseCount \in Nat
  /\ Atoi \in [DOMAIN Atoi -> Int] /\ DOMAIN Atoi \subseteq Seq(STRING) \ {NoText}
  /\ 0 .. Max({2, FixedCaseCount}) \subseteq Range(Atoi)

-----------------------------------------------------------------------------
(* Parsing.                                                                *)

AuthorityKeys ==
  {"repository_writes", "local_test_executions", "cross_project_required_gates",
   "automatic_commit", "automatic_push", "automatic_merge", "automatic_release"}

(* The keys that are read of a declaration; all others are ignored, but    *)
(* for those of a rule, which become its properties.                       *)
Keys ==
  [denominator |-> {"id", "case_count", "fixed"}, authority |-> AuthorityKeys,
   kind |-> {"id"}, type |-> {"id", "kind"}, effect |-> {"id"},
   stage |-> {"id", "index"}, origin |-> {"id", "identity"}, capability |-> {"id"},
   operation |-> {"id", "kind", "input", "output", "stage", "origin", "requires",
                  "effects", "pre", "post"},
   rule |-> {"id", "operator", "properties"},
   fixture |-> {"id", "path", "expected_output"},
   case |-> {"ordinal", "id", "expr", "fixture", "target_stage", "bound_caps",
             "expected", "expected_reason", "expected_effects", "expected_post",
             "expected_trace", "unknown_class", "next_operation", "blocked_by"}]

Listed == DOMAIN Keys \ {"denominator", "authority"}
Numbers == AuthorityKeys \cup {"case_count", "index", "ordinal"}
Rows == {"requires", "effects", "bound_caps", "expected_effects",
         "expected_trace", "blocked_by"}

(* Mutant: a comment does not end the line.                                *)
UncommentedNever(fields) == fields

Uncommented(fields) ==
  LET cut == SelectInSeq(fields, LAMBDA field : field = Comment)
  IN  IF cut = 0 THEN fields ELSE SubSeq(fields, 1, cut - 1)

WellFormed(fields) ==
  \A i \in DOMAIN fields : fields[i].key # "" /\ fields[i].value # NoText

(* A map that is given one value after the other at keys that may repeat.  *)
Assigned(keys, values) ==
  [key \in Range(keys) |-> values[Max({i \in DOMAIN keys : keys[i] = key})]]

parseKeyValues(fields) ==
  Assigned([i \in DOMAIN fields |-> fields[i].key],
           [i \in DOMAIN fields |-> fields[i].value])

Text(values, key) == IF key \in DOMAIN values THEN values[key] ELSE NoText

splitList(text) == SelectSeq(text, LAMBDA part : part \notin {"", "-"})

Declaration(word, values) ==
  [key \in Keys[word] |->
     CASE key \in Numbers -> Atoi[Text(values, key)]
       [] key \in Rows -> splitList(Text(values, key))
       [] key = "properties" -> Restrict(values, DOMAIN values \ {"id", "operator"})
       [] OTHER -> Text(values, key)]

(* What has been read: the declarations, of each word, and whether reading *)
(* has failed.                                                             *)
Parts == DOMAIN Keys \cup {"failed", "gooo", "precedence", "unknown_fields"}

Blank ==
  [part \in Parts |->
     CASE part \in {"failed", "gooo"} -> FALSE
       [] part = "denominator" -> [id |-> NoText, case_count |-> 0, fixed |-> NoText]
       [] part = "authority" -> [key \in AuthorityKeys |-> 0]
       [] OTHER -> <<>>]

HeaderFields == <<[key |-> "", value |-> <<"meta_operator_typechecker">>],
                  [key |-> "", value |-> <<"v1">>]>>

(* The one field of a precedence or unknown_fields line, as it stands.     *)
Bare(field) == IF field.key = "" THEN field.value ELSE <<"=">>

(* The errors on a line, and what a line without one declares.             *)
Malformed(word, fields) ==
  CASE word = "gooo" -> fields # HeaderFields
    [] word \in {"precedence", "unknown_fields"} -> Len(fields) # 1
    [] OTHER ->
         \/ ~WellFormed(fields) \/ word \notin DOMAIN Keys
         \/ \E key \in Keys[word] \cap Numbers :
              Text(parseKeyValues(fields), key) \notin DOMAIN Atoi

Declared(word, fields) ==
  CASE word = "gooo" -> TRUE
    [] word = "precedence" -> Bare(fields[1])
    [] word = "unknown_fields" -> splitList(Bare(fields[1]))
    [] OTHER -> Declaration(word, parseKeyValues(fields))

(* Mutant: of the lines that replace each other the first one counts.      *)
PutFirst(before, word, declared) ==
  IF word \in Listed THEN [before EXCEPT ![word] = Append(@, declared)]
  ELSE [before EXCEPT ![word] = IF @ = Blank[word] THEN declared ELSE @]

Put(before, word, declared) ==
  [before EXCEPT ![word] = IF word \in Listed THEN Append(@, declared) ELSE declared]

(* A line read after those that made `before'.  A header, a denominator,   *)
(* an authority, a precedence or an unknown_fields line replaces the one   *)
(* before it; the other declarations are appended.                         *)
ParseLine(before, line) ==
  LET fields == Uncommented(line.fields)
  IN  IF before.failed \/ line.word = "" THEN before
      ELSE IF Malformed(line.word, fields) THEN [before EXCEPT !.failed = TRUE]
      ELSE Put(before, line.word, Declared(line.word, fields))

(* What has been read after each number of lines.                          *)
Reading(text) ==
  LET read[n \in 0 .. Len(text)] ==
        IF n = 0 THEN Blank ELSE ParseLine(read[n - 1], text[n])
  IN  read

ParseSourceBytes(text) == Reading(text)[Len(text)]

-----------------------------------------------------------------------------
(* Validation.                                                             *)

ids(source, word) == [i \in DOMAIN source[word] |-> source[word][i].id]
Named(source, word) == Range(ids(source, word))
Texts(names) == {<<name>> : name \in names}

(* Mutants: repetitions, or empty identities, are let through.             *)
validateNonEmptyIDs(source) ==
  \A word \in Listed \ {"case"} : NoText \notin Named(source, word)

validateDistinctIDs(source) ==
  \A word \in Listed \ {"case"} : IsInjective(ids(source, word))

validateUniqueIDs(source) ==
  \A word \in Listed \ {"case"} :
    IsInjective(ids(source, word)) /\ NoText \notin Named(source, word)

Required ==
  [kind |-> {"value", "meta", "proof"}, type |-> {"Fixture", "Artifact", "Unit", "MetaOp"},
   effect |-> {"fixture.read", "artifact.normalize", "replay.verify"},
   origin |-> {"literal", "fixture", "generated", "caller"},
   capability |-> {"compiler.fixture", "replay.fixture"},
   rule |-> {"compose_effects", "stage_escape", "origin_hygiene",
             "capability_binding", "replay"}]

FixedStages == <<[id |-> <<"quote">>, index |-> 0], [id |-> <<"compile">>, index |-> 1],
                 [id |-> <<"run">>, index |-> 2]>>

OperationBound(source, operation) ==
  /\ {operation.kind, operation.input, operation.output} \subseteq Named(source, "type")
  /\ operation.stage \in Named(source, "stage")
  /\ operation.origin \in Named(source, "origin")
  /\ operation.pre # NoText /\ operation.post # NoText
  /\ Texts(Range(operation.requires) \ {"$cap"}) \subseteq Named(source, "capability")
  /\ Texts(Range(operation.effects)) \subseteq Named(source, "effect")

validateRequiredDeclarations(source) ==
  /\ \A word \in DOMAIN Required : Texts(Required[word]) \subseteq Named(source, word)
  /\ source.stage = FixedStages
  /\ ids(source, "fixture") = <<<<"compiler_fixture">>>>
  /\ \A i \in DOMAIN source.operation : OperationBound(source, source.operation[i])

(* Mutant: cases after the last of the contract are not counted.           *)
CasesBegin(source, contr) ==
  \A i \in 1 .. FixedCaseCount :
    i \in DOMAIN source.case /\ source.case[i].id = contr.case_ids[i]

CasesMatch(source, contr) ==
  /\ Len(source.case) = FixedCaseCount /\ Len(contr.case_ids) = FixedCaseCount
  /\ \A i \in 1 .. FixedCaseCount :
       LET caseDecl == source.case[i]
       IN  /\ caseDecl.ordinal = i
           /\ caseDecl.id # NoText /\ caseDecl.id = contr.case_ids[i]
           /\ \A j \in 1 .. i - 1 : source.case[j].id # caseDecl.id
           /\ caseDecl.expected \in Texts({"CLOSED", "REFUTED", "UNKNOWN"})

ValidateSource(source, contr) ==
  /\ source.gooo
  /\ source.denominator =
       [id |-> contr.id, case_count |-> FixedCaseCount, fixed |-> <<"true">>]
  /\ contr.case_count = FixedCaseCount /\ contr.fixed /\ contr.transportOnly
  /\ source.precedence = <<"REFUTED", "UNKNOWN", "CLOSED">>
  /\ source.unknown_fields =
       <<"stage", "step", "reason", "unknown_class", "next_operation", "blocked_by">>
  /\ source.authority = Blank.authority
  /\ CasesMatch(source, contr)
  /\ validateUniqueIDs(source)
  /\ validateRequiredDeclarations(source)

(* The maps of the typechecker: of two declarations of one id the later.   *)
ById(declarations) ==
  Assigned([i \in DOMAIN declarations |-> declarations[i].id], declarations)

newEnvironment(source) ==
  [word \in {"operation", "stage", "origin", "capability", "effect", "rule"} |->
     ById(source[word])]

-----------------------------------------------------------------------------
(* Somebody edits a file, and a command reads it.                          *)

Verdict(source, contr) ==
  IF source.failed THEN "unreadable"
  ELSE IF ValidateSource(source, contr) THEN "admitted" ELSE "refused"

Read == decl' = ParseSourceBytes(lines') /\ verdict' = Verdict(decl', contract')

Init ==
  /\ lines = Original /\ contract = DeclaredContract /\ edits = 0
  /\ decl = ParseSourceBytes(lines) /\ verdict = Verdict(decl, contract)

(* Once the file cannot be read it is left alone.                          *)
MayEdit == verdict # "unreadable" /\ edits < MaxEdits /\ edits' = edits + 1

Edited == MayEdit /\ UNCHANGED contract /\ Read

ReplaceContract == contract' \in OtherContracts /\ MayEdit /\ UNCHANGED lines /\ Read

Drop(i) == lines' = RemoveAt(lines, i) /\ Edited

Swap(i) ==
  /\ i < Len(lines)
  /\ lines' = [lines EXCEPT ![i] = lines[i + 1], ![i + 1] = lines[i]] /\ Edited

(* At the top or at the bottom.                                            *)
Insert(line, top) ==
  lines' = (IF top THEN <<line>> \o lines ELSE Append(lines, line)) /\ Edited

(* Only in a file that was not edited before: keeps the instances small.   *)
Respell(i, k, field) ==
  /\ edits = 0
  /\ field.key = lines[i].fields[k].key \/ field.value = lines[i].fields[k].value
  /\ lines' = [lines EXCEPT ![i].fields[k] = field] /\ Edited

CommentAfter(i, k) ==
  /\ edits = 0
  /\ lines' = [lines EXCEPT ![i].fields = InsertAt(@, k + 1, Comment)] /\ Edited

Next ==
  \/ \E i \in DOMAIN lines :
       \/ Drop(i) \/ Swap(i)
       \/ \E top \in BOOLEAN : Insert(lines[i], top)
       \/ \E k \in DOMAIN lines[i].fields : \E field \in Respellings : Respell(i, k, field)
       \/ \E k \in 0 .. Len(lines[i].fields) : CommentAfter(i, k)
  \/ ReplaceContract
  \/ \E line \in Extras, top \in BOOLEAN : Insert(line, top)

Spec == Init /\ [][Next]_vars

-----------------------------------------------------------------------------
(* Properties.                                                             *)

(* The typechecker looks operations, stages, origins, capabilities, effects *)
(* and rules up in maps and takes a missing entry for a zero value         *)
(* (leafWork counts an unknown stage as 0, typecheck.go:280).  From an     *)
(* admitted source no declaration is lost in its map and every reference   *)
(* of an operation is found there.                                         *)
EnvironmentIsTotal ==
  verdict = "admitted" =>
    LET env == newEnvironment(decl)
    IN  /\ \A word \in DOMAIN env : \A i \in DOMAIN decl[word] :
             env[word][decl[word][i].id] = decl[word][i]
        /\ \A id \in DOMAIN env.operation :
             LET operation == env.operation[id]
             IN  /\ operation.stage \in DOMAIN env.stage
                 /\ operation.origin \in DOMAIN env.origin
                 /\ Texts(Range(operation.requires) \ {"$cap"}) \subseteq DOMAIN env.capability
                 /\ Texts(Range(operation.effects)) \subseteq DOMAIN env.effect

(* A key that is missing, misspelt or behind a comment reads as an empty   *)
(* text without an error.  In an admitted operation only the two rows, of  *)
(* required capabilities and of effects, can be empty for that reason.     *)
OnlyRowsDefault ==
  verdict = "admitted" =>
    \A i \in DOMAIN lines : lines[i].word = "operation" =>
      LET written == {field.key : field \in Range(Uncommented(lines[i].fields))}
      IN  Keys.operation \ written \subseteq {"requires", "effects"}

(* A copy of a declaration of an admitted source is never admitted beside  *)
(* it, whether identities are declared twice or there is a case too many;  *)
(* a copy of any other line, above what is there, changes nothing.         *)
RepeatsAreRefused ==
  [][\A i \in DOMAIN lines, top \in BOOLEAN :
       verdict = "admitted" /\ Insert(lines[i], top)
       => IF lines[i].word \in Listed THEN verdict' = "refused"
          ELSE top => verdict' = "admitted" /\ decl' = decl]_vars

(* What lines of different words declare does not depend on their order,   *)
(* and a comment at the end of a line is not read: forward references need *)
(* no care, and neither does documentation.                                *)
NeutralEdits ==
  [][(\E i \in DOMAIN lines :
        \/ Swap(i) /\ lines[i].word # lines[i + 1].word
        \/ CommentAfter(i, Len(lines[i].fields)))
     => verdict' = verdict /\ (verdict = "unreadable" \/ decl' = decl)]_vars

(* Two lines of a kind that is declared once: the later one counts, without *)
(* a word about the earlier one.  An admitted file may so hold a line,     *)
(* such as an authority that is not zero, that nothing ever checks.        *)
LaterLineWins ==
  [][\A line \in Extras :
       /\ verdict = "admitted" /\ Insert(line, TRUE)
       /\ ~ParseSourceBytes(<<line>>).failed /\ line.word \notin Listed
       /\ line.word \in {lines[i].word : i \in DOMAIN lines}
       => verdict' = "admitted" /\ decl' = decl]_vars
=============================================================================
