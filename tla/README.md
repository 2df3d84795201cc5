# A specification of the gooo meta-operator typechecker

TLA+ modules that model the typechecker, the executor, the verifier and the
commands and workflows of this repository, TLC runs that check them on small
instances, and TLAPS proofs of what these runs check, for all values of the
constants.

## 1. The system

A `.gooo` source declares types, effects, stages, origins, capabilities,
operations, composition rules, one compiler fixture and seven cases. Each case
has an expression, a target stage, the capabilities it binds, and what is
expected of it. The repository turns that into files and checks them against
one another:

    main.gooo + denominator-v1.json
       | ParseSource, LoadContract, ValidateSource
       v
    TypecheckCase, once per case      -> Proof (CLOSED, REFUTED or UNKNOWN)
       | BuildIR                      -> IR, bound by digests
       | compile                      -> semantic-ir.json, meta.gooo.go
       v
    ExecuteProof on the fixture       -> ExecutionResult
       | VerifyExecution
       v
    conformance                       -> five report files in the caller's directory

Inventory. Paths are under `src/internal/meta/` unless they say otherwise.

| component | state it keeps | operations | what makes it correct | module |
|---|---|---|---|---|
| Typechecker (`typecheck.go`) | the stack of `checkExpression`, the capabilities of each call, the works returned so far | `TypecheckCase`, one case of the switch per constructor | a CLOSED proof uses only bound capabilities, reaches no later stage than its target, accounts for every effect once, is a chain of types; an UNKNOWN one says what to bind; the order of evaluation does not matter | RowOperators, Checker, Typecheck, Judgement |
| Executor (`execute.go`) | position in the plan, `readSeen`, `postcondition`, the result | `ExecuteProof`, `CompileFixture` | follows the plan and nothing else; conditions hold when a step needs them; its table agrees with the declarations where a case is verified | Pipeline |
| Verifier (`verify.go`) | none | `VerifyExecution`, `VerifyIRAgainstSource`, `VerifyProofBinding` | accepts nothing that was not made from the source and the contract it is given, or did as a whole something else than declared | Pipeline, Binding, Artifacts |
| Source parser (`parse.go`) | the declarations so far | `ParseSourceBytes` | drops no declaration silently, or one knows which | Source |
| Source validation (`lower.go:97-373`) | none | `ValidateSource`, `newEnvironment` | what it admits has no lost, repeated or unbound declaration | Source |
| Expression parser (`typecheck.go:69-139`) | none | `ParseExpression`, `splitExpressionArgs` | accepts just the expressions, and loses nothing of them | Expression |
| Lowering (`lower.go:8-73`, `digest.go`) | none | `BuildIR`, `ValidateIR`, the digests | every field of the IR and of the proofs is bound | Binding |
| Generated executor (`internal/generated`) | a table of proofs | `ProofFor`, `Execute` | agrees with the IR, each proof under its own case | Binding, Artifacts |
| `typecheck` (`main.go:56`) | none | `typecheckCommand` | prints what `BuildIR` makes | Binding |
| `compile` (`generate.go`) | two files, written in turn | `WriteCompileOutputs`, `GenerateGoSource` | stopped half-way, it leaves nothing that is accepted | Artifacts |
| `execute`, `conformance` (`main.go`, `report.go`) | what they have read so far, the case they are at, the reports written | the commands, `RunConformance`, `ensureCallerOutput` | what is accepted was made of the source and the contract that were read; reports are earned, whole and of one run | Artifacts, Snapshot |
| Inventory (`inventory.go`) | the counts so far, the paths still to visit | `CollectInventory` | exact for a tree that stays as it is | Inventory |
| Workflows (`.github/workflows/`) | per job, where it is; on GitHub, the tag and the release | conformance, release | never replaces a release; what is green is right | Workflows |
| Rendering, metrics (`report.go:163`), audit script | none | `RenderSummary`, `measure`, `semantic-audit.sh` | formatting, measuring, grepping | not modelled |

The parts interact by calls within one process, and between processes only
through files: the source, the contract, the IR, the generated executor (built
into the command by `go run`), the fixture and the output directory. Nothing
locks them. There are no goroutines. The jobs of the workflows run the commands
each on a checkout of its own and share what is on GitHub: a tag and its release.

What is hard here, and where no test looks (the tests are `meta_test.go`: the
seven cases and one fixture):

- **Nesting.** The capabilities, stages, effects and types that constructors
  hand up and down by hand, in combinations the seven cases do not contain.
- **Two tables.** The executor does not consult the declarations; it has its
  own effects and postconditions.
- **Files read at different moments**, source and contract too, while an edit or
  a compile may change them, and a compile or a report writer that stops half-way.
- **Text.** What a misspelt key, a comment, a repeated line or an unbalanced
  parenthesis reads as.
- **Digests and comparisons that overlap**, each of which leaves something out.
- **The tag**, which may move under a release job, and jobs that are stopped
  after they have published and started again.
- **Ends.** Every case, every command and every job must come to one.

PROJECT.json lists the hazards, each at its line.

## 2. The modules

**RowOperators** holds what `checkExpression` and the executor do with rows
(`appendUnique`, `union`, `unique`, `overlaps`, `first`, `requirement`),
duplicates included: `unique` is a copy. It has no constants. **Checker** adds
the rules of `checkExpression` as operators, and the declarations as constants:
`Operations` and `Stages` are functions from identifiers to declarations as in
`typecheckEnvironment`. A rule is in force or not; `ValidateSource` asks only that
it is declared, so any subset may be. Left out: the derived reasons (a label of
the source replaces them without comparison, `typecheck.go:43`),
`typed.expression` (nothing reads it back), and three constant fields of the
UNKNOWN tuple.

**Typecheck** is `TypecheckCase`. Its state is the stack of active calls of
`checkExpression` (`expr`, `caps`, and `works`, what the recursive calls made
by this call returned), the work of the outermost call, and the verdict. Each
case of the switch is one action (`CheckCompose`, `CheckReplay`, ...) whose
disjuncts are its early returns, its next recursive call and its final return.
`RejectCase` and `StartCase` are the function up to the recursion, `FinishCase`
is the rest. What the case declares as expected is read only there, so it is
chosen there.

**Judgement** is the abstract specification: one atomic step from a case to its
verdict, by a recursive function on expressions. **TypecheckRefinement** states
that Typecheck implements it, with the stack and the returned work hidden, and
that verdicts are stable under more capabilities.

**Source** is the parser and the validation. `ParseLine` is one turn of the loop
of `ParseSourceBytes`, and `Reading(text)` is the function from each line to what
has been read after it. The state is the lines of the file
and the contract; each edit (a line dropped, exchanged with the next, copied or
added, a field respelt, a comment put somewhere) is followed by what a command
reads: `decl`, as `ParseSourceBytes` leaves it, and whether it is readable and
admitted. A text is the sequence of its parts at the separators the parser
knows, so `splitList`, which drops empty parts and dashes, is modelled by what
it does. `Keys` says which keys are read of each kind of declaration. The
properties are about a file that differs from the repository's by what an
editor may have done: what is lost in the maps of `newEnvironment`, what is
admitted with a key missing, which edits change nothing.

**Expression** is `ParseExpression` and `splitExpressionArgs` on whatever is
typed, one character per step. The scanning loop is defined by positions
(`depth`, `separators`) and by `parts`, which cuts the text at the first separator
and starts again behind it, where no parenthesis is open; the recursion is the
code's. Both are recursive functions, on the texts that may be typed (`Typable`:
`MaxLength` bounds their length) into the expressions that have fewer calls
inside each other than that (`Nested`). `IsExpression` is an independent
definition by which characters may be neighbours.

**Binding** is about what one IR, one table of generated proofs and one source
say, field by field. The state is the four files, `Edit` changes a field of one
of them to any other value there is in any version, exchanges entries, removes or adds entries of the table, or signs
a changed IR again; `Compile` is `compile`. A digest is the value it digests;
going through JSON changes nothing but an empty list of arguments (`Reloaded`).
That Artifacts may represent a file by a version and one bit is what
`OneIRIsAccepted` and `ConformanceIsExact` show: of an IR, and of the proofs for
the cases of the source, the comparisons accept what was made from the very source
and contract, unedited, and nothing else. The rest of `meta.gooo.go` they do not
look at: in Artifacts it is the body, which may be edited unseen.

**Pipeline** extends Typecheck with the executor and the verifier. The state of
`ExecuteProof`'s loop is `pc`, `readSeen`, `postcondition`, `previousDigest`
and `result`; one action per kind of step, each failing where the code returns
an error. `VerifyResult` chooses the declared trace, which is read only then. A
digest is the value it digests.

**Artifacts** is about the files and the commands as processes. Source and
contract are variables of their own, each with its versions. The IR and the
executor are modelled by the version of both they were made from (a pair) and
whether they are sound (no edit or torn write has touched them); a digest or a
deep comparison compares those. Each read of a file is an action of its own, as
is each write: `ReadSource` and `ReadContract` (main.go:183 and 187, and 101 and
105 in `execute`), `CompileReadSource` and `CompileReadContract` (generate.go:53
and 57), `CompareGenerated`, `LoadIR`, and the fixture in each turn of the loop.
`Edit` changes the source, the contract, the IR, the generated proofs or the
generated function, or the fixture, at any moment; `CompileStops` and `Crash` stop
a process anywhere, with or without part of the file it was writing. A crash and
an error leave the same behind, so both end in "failed". What one case does is
reduced to its outcome: a case that is not CLOSED ignores the fixture, a CLOSED
one is verified if the fixture is the declared one, rejected for another one, and
an error for one that does not compile. The good versions of the source declare
the same fixture; those that differ in nothing else are told apart all the same,
by their digests. `AcceptedIsBound` relates what a run read at four moments. IR and
executor start from an accepted version, not necessarily that of the source as it
stands.

**Snapshot** is the abstract specification of the commands, without files: a run
looks at each of its inputs once, one after the other, is judged with what was
made from just what it saw, and publishes into nobody's directory. It does not
promise one look at both inputs, since the commands do not keep that promise: the
source may be edited after main.go:183 and the contract before 187, so that what
is accepted is a pair that never stood together, if a compile (which reads them
one after the other, too) has met the same pair. **ArtifactsRefinement** maps
Artifacts to it: a run "looks" when it has parsed the source and when it has
decoded the contract; what it has "used" are the versions it read, that of the IR
and that of the executor when it reaches its verdict; a changed file is of no
version, so that using one is no step of Snapshot. The holder of the output
directory is whoever wrote into it.

**Inventory** is `CollectInventory`: a walk, one path per step, while somebody
adds and removes files and directories. `Paths` are in the order of the walk,
`todo` holds the positions of those that are listed and not yet visited, and the
first of them is the next. `stayed` and `ever` record what was there all the
time and at any time; what a tree should count (`Expected`) is the sizes of
sets: of its files, of the positions where a line starts, of the positions of
its bytes. Looking at a path, listing it and reading it are one step; a file
that is gone before it is read ends the walk like one that is gone before it is
looked at.

**Workflows** is the two workflow files as jobs, one action per command that
reads or changes what is on GitHub, and the owner of the repository, who pushes,
moves and deletes the tag, deletes releases, enables their immutability and runs
failed jobs again. What the commands make of a commit is a choice
(`MayClose`), from what Artifacts, Pipeline and Binding show of them, the
edited body that conformance does not see included. `conformance.yml` is one
action, since nothing it reads can change under it. GitHub is modelled from how
the workflow uses it: creating a release is atomic and fails if there is one,
the tag of an immutable release cannot be moved or deleted.

The **MC** modules give the constants values. The modules called **...Proofs**
hold the proofs about the module of that name, **TypecheckProofs** also those
about TypecheckRefinement, **ParserProofs** those about Source and Expression.
**RecursionLemmas** holds what several of them need: induction, the existence of
recursive functions, and what the loops over rows compute. Operators whose
comment begins with "Mutant" are wrong variants of the operator that follows
them, each breaking a property: they show that the property can fail, and
nothing else uses them.

## 3. The runs

| run | states | shows |
|---|---:|---|
| cases (MCPipeline.cfg) | 302,285 | each case from its expression to its verification: the safety of issued proofs and the inductive invariant, Typecheck implements Judgement, more capabilities never take back CLOSED or REFUTED, executor and verifier agree with the declarations of the repository, every case ends |
| drift (MCDrift.cfg) | 22,000 | executor and verifier against declarations that disagree with the executor's table: the plan is followed, and no case is verified whose effects, last postcondition or output are not, taken together, the declared ones |
| artifacts (MCArtifacts.cfg) | 3,624,444 | commands that follow each other implement Snapshot; reports are whole, of one run, and kept; the fixture compiled is the declared one |
| overlap (MCOverlap.cfg) | 1,153,640 | even for overlapping runs accepted means bound, and reports are earned; every started command ends |
| source (MCSource.cfg) | 57,950 | what is admitted after any two edits; which edits count |
| expressions (MCExpression.cfg) | 1,712,179 | the parser accepts just the expressions, and loses nothing |
| binding (MCBinding.cfg) | 124,115 | verify.go accepts exactly what compile writes, but for generated proofs of no case |
| workflows (MCWorkflows.cfg) | 78,721 | no release is replaced, what is green is right, every job ends |
| inventory (MCInventory.cfg) | 2,065,232 | the counts of a tree that changes during the walk |
| says_* (Says*.cfg) | | three statements of the repository that the code does not keep (section 6) |

The state count of artifacts is up to symmetry. The run cases uses the instances
of MCTypecheck, wider than the ones of drift: all targets, all sets of bound
capabilities, every rule once not in force.

Bounds, and why they are enough:

- *Declarations*: the repository's six operations and two more that
  ValidateSource accepts: one with two requirements, an early stage and the
  effect that replay adds; one with `$cap` beside another requirement, a middle
  stage and an effect listed twice. The stages are the three that
  ValidateSource prescribes.
- *Expressions*: 470, up to depth three: every operation, every constructor
  with every kind of good and bad argument and arity, every pair under
  `compose` of twelve chosen arguments (among them refuted, unknown, replayed
  and withdrawn ones), both nestings of `compose`, and the nestings of `unbound`
  and `replay`. A violation needs at most a constructor inside another, since
  each sees only the works of its arguments; the proofs remove the bound.
- *Cases*: three targets (one undeclared), five sets of bound capabilities (one
  with an undeclared one), all rules in force or all but one, 32 expectations:
  nine effect rows by three postconditions for CLOSED, one REFUTED, four UNKNOWN
  tuples. A row no expectation has ends in "error", which claims nothing.
- *Fixtures*: eight, two of them good, one of these not the declared one, and
  six with each way of being bad. *Traces*: all of up to three entries; no plan
  that a case is verified for needs more.
- *Artifacts*: two good sources (one edit away from each other), one with an empty
  call (`EmptyCalls`), whose IR is refused, and one that cannot be read; two
  contracts that go with each of them; two runs, three cases of which the second
  is not CLOSED. `MaxEdits` (2, or 1 where runs overlap and liveness is checked)
  and `MaxCompiles` (1) bound the counters `edits` and `compiler.count`. Two edits
  are enough to change a file and its counterpart, to change one and restore it,
  or to change source and contract between the two reads of a run; a compile may
  read or write between any two reads. `Exclusive` says whether runs may overlap.
  Overlap has one good source, one that goes with no contract (`Odd`), one that
  cannot be read, both contracts, and two cases.
- *Source*: the repository's declarations, with two of its operations and its
  seven cases (`FixedCaseCount` is 7, as in types.go:10, and `Atoi` knows the
  digits 0 to 8 and "+1"); an eighth case, a second denominator, authority, header
  or fixture, repeated and empty identities, an unknown word and more are lines
  that may be added, and thirteen misspelt or changed fields may be written.
  `MaxEdits` is 2: a property speaks of one line and, at most, of another that
  hides or repeats it; fields are respelt only in a file that is otherwise as it
  was.
- *Expression*: all texts of up to `MaxLength` (10) names, commas and
  parentheses, and of up to `MaxLengthAny` (7) with blanks and braces. One
  letter is enough, the parser does not tell letters apart. Ten characters hold
  three levels, or two calls as arguments of one.
- *Binding*: four cases, one CLOSED and two refused for the same reason, five
  sources (two that differ in a comment only, one that is not accepted, one with
  an empty call), two contracts; `MaxEdits` (2) bounds the edits since the last
  compile. Two edits change a field and what should have told.
- *Inventory*: seven paths (a `.git` that may be a file, a README at the root and
  another one below, a generated file), files that are links or have three
  texts, all trees of them; `MaxChanges` (2) bounds the changes of the tree.
- *Workflows*: two jobs, two good commits and five with one fault each, six acts
  of the owner (`MaxActs`): enable, push, delete, push again, run again and one
  more. `Quiet` says whether the owner leaves tag and release alone once a job
  has read the tag (section 5).

Deadlock is checked for Typecheck and Pipeline, whose terminal states stutter
explicitly. Elsewhere the system may stop: commands, jobs and walks end and
nobody has to edit, type or push.

Fairness. Typecheck and Pipeline are one sequential process that waits for
nothing: weak fairness of its step. In Artifacts each run has weak fairness of
its own next step, for the same reason; `Start`, `Edit`, `Compile` and `Crash`
have none, for nobody has to start, edit or compile anything. Likewise each
job of Workflows has it for its next step (GitHub runs a job until it ends), and
the owner's acts and `Stop` have none.

## 4. What is proved

All theorems are about every set of declarations, rules, cases and expectations,
every number of jobs, runs, edits and versions, and so on: the bounds of section
3 are bounds of the runs only. A bound that is a constant of a module
(`MaxEdits`, `FixedCaseCount`) is a parameter of its theorems.

### The typechecker (TypecheckProofs)

| theorem | property |
|---|---|
| `TypeCorrect` | `TypeOK` |
| `StateSound` | `SoundState` |
| `CapabilitiesAreBound` | `CapabilitySafety` |
| `StagesAreReached` | `StageSafety` |
| `EffectsAreAccounted` | `EffectAccounting` |
| `PlansAreChains` | `TypeChain` |
| `DecidesAsJudged` | the safety part of `ImplementsJudgement` |
| `VerdictsOnlyGrow` | `MoreCapabilities` |
| `UnknownAsksForMore` | `UnknownIsActionable` |

They are stated of `SafeSpec`, which is `Spec` without its fairness.

The argument. The safety properties speak of issued proofs only; what a
proof says was put together by calls that have returned by then, so none of
them is inductive. `Inv == TypeOK /\ SoundState` is: every work that any active
call holds is sound for the capabilities of that call (`SoundWork`), and no call
has a capability its caller lacks (`SoundCalls`). The second half is what makes
the first survive a return: a work that is sound for fewer capabilities is sound
for more (`SoundMonotone`), which is why `unbound` is harmless. `SoundWork` says
of a CLOSED typing just what the properties say of a proof, step by step:
requirements within the capabilities, no step later than the stage, a row
that is exactly the union of the steps' effects with no two operations
overlapping, and a plan whose operations are a chain of types.

- `RecursionLemmas`: what `appendUnique`, `union`, `unique` and `requirement` return.
  They are recursive functions on the positions of a row; the lemmas show by
  induction over sets of naturals (`NaturalInduction`) that such a function
  exists and what it returns. `RecursionExists` is the same for any function that
  looks only at smaller arguments, by whatever measure.
- Safety: one lemma per case of the switch, that what it returns is
  sound; `CallPreserves` and `ReturnPreserves`; then one lemma per action,
  `NextInv`, `InvAlways` and the theorems.
- Judgement: `Evaluating` says that every work returned so far is the
  judgement of the argument it was returned for, and that every call was made
  for the argument its caller is at. With it, each step of Typecheck maps to a
  step or a stutter of Judgement. It rests on the recursion equation of
  `judgement` (`JudgementIs`). That such a function exists is shown for any
  `size` for which the arguments of an expression are smaller than the
  expression (`Measures(size)`, the hypothesis of these three theorems: an
  expression is finite). The same measure carries `ValuesGrow`, that more
  capabilities take back no CLOSED and no REFUTED, and that an UNKNOWN judgement
  names what to bind; an UNKNOWN proof has the tuple of its judgement (`Asking`).

### The executor and the verifier (PipelineProofs)

| theorem | property |
|---|---|
| `ProofsAreExecutable` | `IssuedProofsCarryFacts` |
| `PlansAreFollowed` | `FollowsThePlan` |
| `WhatIsVerifiedIsDeclared` | `VerifiedAsDeclared` |
| `ReadsComeFirst` | `NormalizeAfterRead`, given `ConditionsAgree` |
| `RefusalsHaveCause` | `OnlyRefusedForCause`, given `ConditionsAgree` |
| `EffectsAreAsTyped` | `EffectsAsTyped`, given `EffectsAgree` |
| `PipelineTypechecks`, `ProofsStaySafe` | all of the above, of a proof on its way through the pipeline |

`PipelineInv` joins `Inv` of the typechecker to where `ExecuteProof` is: what
has been done is the plan up to `pc`, and `readSeen` tells whether a reader was
in it (`Walked`), `postcondition` is that of the last operation (`Reaching`),
what is executed went to the end of its plan (`Completed`), and a failure has
the cause it names (`Refused`).
`PipelineTypechecks` says that a run of the pipeline is, for the variables of
Typecheck, a run of `SafeSpec`.

`EffectsAreAsTyped` needs more than sets: the row that is put together by
`union` on the way up the expression is, in the same order, the one that the
executor appends to on its way along the plan. `Ordered` says so of every work
of every call; that holds because `overlaps` keeps the rows of two arguments
apart and `union` of an effect seen before adds nothing.

`ConditionsAgree` and `EffectsAgree` say that the executor's table and the
declarations have the same conditions and effects. Of the repository's
declarations TLC evaluates that (`RepositoryAgrees` in MCPipeline); the
properties fail for others, as the run drift is there to show.

### Files and commands (ArtifactsProofs)

| theorem | property |
|---|---|
| `TypeCorrect` | `TypeOK` |
| `BoundWhenAccepted` | `AcceptedIsBound` |
| `FixtureWhenAccepted` | `DeclaredFixtureOnly` |
| `ReportsAreEarned` | `ReportOnlyIfVerified` |
| `OneRunAtATime` | `OneRunPerDirectory`, given `Exclusive` |
| `ReportsAreKept` | `ClosedRunsKeepTheirFiles`, given `Exclusive` |
| `SnapshotsAreTaken` | `ImplementsSnapshot`, given `Exclusive` |

A run is a record, and a step of a run changes one of them: `Inv` is a condition
on each record by itself (what a run that got as far as `pc` has read and
compared), so each action is shown to make of a good record a good one. The
directory is shared: `Alone` says that under `Exclusive` whoever is past the
empty directory is the only one at work and the files in it are its own.
For the refinement, `Mapping` restates what a run has seen and used by its `pc`,
given that what is accepted is bound; then each action is shown to be a step of
Snapshot or a stutter.

### Workflows, Binding (WorkflowsProofs, BindingProofs)

| theorem | property |
|---|---|
| `ApprovalIsExact` | `ApprovedIsExact` |
| `ReleasesAreKept` | `NeverReplaced` |
| `ReleaseIsOfItsCommit` | `GreenReleaseIsOfItsCommit`, given `Quiet` |
| `LoweringIsAccepted` | `OneIRIsAccepted` |
| `ExecutedIsDeclared` | `ExecutedAsDeclared` |
| `ConformanceIsOfWhatIsWritten` | `ConformanceIsExact` |

- `WorkflowsProofs`: `Inv` says what kind of job can be where, and that what a
  green conformance job has approved is exact; `Reliable` adds, under `Quiet`,
  that the tag and the release are of the commit of every job that is between
  reading the tag and its end, or green.
- `BindingProofs`: `BindingInv` says only what edits cannot spoil: the IR is a
  record of the right fields. What passes the comparisons then equals the lowering:
  equal digests give equal fields, and the fields no digest covers are compared.
  That a case finds its own proof in the table, whatever else is there, follows
  from the identities of the cases, which tell them apart.

### The parsers (ParserProofs)

| theorem | property |
|---|---|
| `EnvironmentLosesNothing` | `EnvironmentIsTotal` |
| `OnlyRowsAreMissed` | `OnlyRowsDefault` |
| `CopiesAreRefused` | `RepeatsAreRefused` |
| `SomeEditsAreNeutral` | `NeutralEdits` |
| `UpperLinesAreIgnored` | `LaterLineWins` |
| `PrintedAsWritten` | `RoundTrip` |
| `AcceptsExactly` | `ParserIsExact` |
| `ReloadsTheSame` | `ReloadedUnlessEmptyCall` |

Source. `SourceInv` says that what a command reads is `ParseSourceBytes`
of the lines. By induction on the lines: a text fails if and only if one of
its lines does (`AllRead`), and what a line of a readable text says is in the
declarations (`Recorded`). One lemma each says what an edit changes: a
line put on top (`OnTop`) or at the end (`AtBottom`), two lines exchanged
(`Exchanged`), a comment (`Commented`).

Expression. The properties speak of one text, so the invariant is only that the
text is one (`TypeIsCorrect`), and everything else is about the functions, by
induction on the length of the text (`LengthInduction`): the inside of a call is
shorter than the call, and so is each of its parts.

- `ParseIs` and its likes show that the recursive functions exist and satisfy
  their equations; `ParseTyped`, that an accepted expression is one of
  `Exprs`, so that `Show` and `Loaded` are defined on it.
- `PrintedAsWritten`: the parts of a text, joined by commas, make up the text
  but for blanks (`PartsJoined`); then so do the printed arguments of a call
  (`Printed`).
- `AcceptsExactly`: `IsArguments` is a condition on the neighbours, the braces
  and the parentheses of a whole list. `FitsTogether` says that it holds of a
  list if and only if it holds of what is before its first separator and what is
  behind (`LinksTogether`, `BracesTogether`, `BalancedTogether` for the three
  conditions), `ListIs` so takes the list apart as `parts` does, and `NameAlone` and
  `CallFits` take an argument apart as ParseExpression does. A blank changes
  none of it (`BlanksCloseNothing`, `CallWithoutBlanks`), although the parser
  trims texts at every level and the definition drops blanks once.
- `ReloadsTheSame`: an expression differs from what is loaded if and only if it has
  an empty list of arguments somewhere (`LoadedBack`), and that is where the text,
  blanks aside, has the one parenthesis right before the other (`EmptyCallTogether`,
  `EmptyCallIn`).

### The inventory (InventoryProofs)

| theorem | property |
|---|---|
| `CountsAreExact` | `InventoryIsExact` |

The counts alone are not inductive: nothing in them says what they are of.
`InventoryInv` says that there is a set of entries that the walk has looked at
of which they are the counts (`Walked`). Each of them was there at some time, none
is in `.git` or listed again, and each is in a directory that was looked at, too.
Whatever was there all the time is in `.git`, has been looked at, is listed, or
is in a directory that has not been looked at yet. A visit adds one entry that was
not looked at before, and each count grows by what that entry has
(`VisitCounts`). When nothing is listed any more, all that stayed has been
looked at (`AllSeen`): by induction on `Paths`, where a path comes after its
directory. And of larger sets the counts are larger (`CountsGrow`).

### What the proofs assume

Each assumption is an ASSUME, which TLC evaluates in the runs:

- `DeclarationsAssumption` (Checker): what ValidateSource guarantees: stages,
  origins and capabilities of operations are declared, conditions are not empty;
  and that no capability is called `$cap`. `ExprsAssumption`: parsed expressions
  have nonempty names. `CasesAssumption` (Typecheck, Binding): types.
- `NoReplayOperation` (Typecheck) is not guaranteed by the code: ValidateSource
  lets a source declare an operation called `replay`, whose plan step would be
  taken for the constructor's. The repository's source declares none.
- `ArtifactsAssumption`: types, and that there is at least one case.
- `AcceptsAssumption` (Binding): an accepted source has `FixedCaseCount` cases
  of different, nonempty identities (lower.go:142-151), and a digest is never
  the empty text.
- `TextsAssumption` (Source): lines are lines, fields are fields.
- `NumbersAssumption` (Source): `strconv.Atoi`, a constant, is a function from some
  texts, the empty one not among them, to integers, and each number that
  ValidateSource asks for (up to `FixedCaseCount`, and the stages 0 to 2) can be
  written. So there are admitted files for every `FixedCaseCount`, and the theorems
  about them speak of the repository's.
- `LettersAssumption`, `LengthsAssumption` (Expression): the characters of names
  are not those that the parser looks for, the bounds are numbers.
- `PathsAssumption` (Inventory): `Paths` has no path twice, and each after the
  directory it is in, as filepath.Walk takes them.

The hypotheses of single theorems are named in the tables. `Exclusive` and
`Quiet` are constants, TRUE in the runs artifacts and workflows; the runs
overlap and says_target are about what happens without them. For `Measures`, TLC
evaluates that the number of nodes is such a size (`FiniteExpressions` in
MCTypecheck).

### What is only model-checked

- Liveness: `EveryCaseEnds`, `CommandsEnd`, `JobsEnd`, and with them the half of
  `ImplementsJudgement` that says that a judgement is reached.
- The three statements that the code does not keep (section 6), which are false.

Every other property of a run is stated by a theorem.

## 5. What the properties say

Each is commented where it is defined. Those that hold only within limits:

- `CapabilitySafety` leaves `$cap` out of what a step requires; see section 6
  for what happens to it.
- `UnknownIsActionable` excepts expressions with `unbound`, which withdraws
  capabilities that the case binds.
- `EffectsAsTyped` and `OnlyRefusedForCause` are properties of the repository's
  declarations; with drifted ones (run drift) they do not hold.
- `VerifiedAsDeclared` compares rows: the set of all effects of a case, its last
  postcondition and its output. It does not say that each step did what is declared
  of it, and that is not so: the declarations of the run drift give `identity` the
  effect `fixture.read` and `read_fixture` none, and `compose(identity,read_fixture)`
  is verified, although neither step had the effects declared of it. Nothing but
  the trace, a list of labels that the source declares separately, has to do with
  steps. The repository's own declarations agree with the executor step by step
  (`EffectsAgree`).
- `DeclaredFixtureOnly` is about an unedited executor. An edited function body
  in `meta.gooo.go` is accepted, because only its proofs are compared with the
  IR (section 6).
- `LaterLineWins` says what the parser does, for better or worse: a line that is
  declared once and written twice is silently overridden. An authority that is
  not zero may so stand in an admitted file. `OnlyRowsDefault` says which keys
  of an operation may be misspelt without an error: `requires` and `effects`,
  which then read as asking for nothing.
- `ReloadedUnlessEmptyCall` and `OneIRIsAccepted` together say when an IR just
  compiled is refused: when a typed expression that a proof keeps has a call
  without arguments (section 6).
- `ConformanceIsExact` speaks of the generated proofs of the source's cases. A
  proof under a key that is no case of the source is never asked for, and
  conformance does not notice it; `cmp` in the workflow does.
- `ExecutedAsDeclared` is weaker than `ConformanceIsExact`, because `execute`
  does not ask whose proof it has run: of two cases refused for the same reason
  it may run one for the other.
- `ApprovedIsExact` is about the workflow: `cmp` makes good what the lost error
  of main.go:218 and the exit code of `execute` let through.
- `GreenReleaseIsOfItsCommit` holds if the owner leaves the tag and the release
  alone while a job is between reading the tag and its end (`Quiet`); without
  that it does not (section 6).
- `InventoryIsExact` gives bounds; for a tree that changes there is no exact
  count. They agree for a tree that stays as it is.
- `ImplementsSnapshot` is checked for commands that follow each other, like
  `OneRunPerDirectory`.
- `OneRunPerDirectory` and `ClosedRunsKeepTheirFiles` are checked for runs that
  do not overlap. Two overlapping runs can mix their files: the directory is
  seen to be empty before the cases and written to after them.

## 6. Where the code differs from what the repository says

Runs that end in a counterexample:

| run | the repository says | the code does |
|---|---|---|
| says_polymorphic | a missing capability is UNKNOWN (docs/semantic-boundary.md:13,16) | a bare `$cap` operation is CLOSED, whatever is bound |
| says_generated | an executor that differs from the lowering is an error (main.go:219) | the error is dropped and the report is written |
| says_target | a release is of the commit that the job tested (release.yml:42) | the tag is compared before the build and may be another one when the release is made of it |

Differences that the modules state as the code has them:

- verify.go:20 refuses an IR that "differs from source lowering". It refuses one
  just compiled, too, if there is a call like `identity()` in a case that is CLOSED,
  or that only its target stage refutes (typecheck.go:33-36, which leaves the typed
  expression in the proof):
  ParseExpression gives it an empty list of arguments, which the file does not
  keep, and reflect.DeepEqual tells an empty list from none. See `Reloaded` in
  Binding, `Loaded` in Expression, `EmptyCalls` in Artifacts.
- README.md:4-6 says that preconditions are checked before an operation is
  executed. The typechecker compares no precondition with anything
  (`composeWork`, `leafWork`); the executor looks at that of `normalize` only,
  while executing (`StepNormalize`).
- docs/semantic-boundary.md:15 says that a generated-origin operation cannot
  capture caller origin. In an argument of a plain operation, which is ignored
  (`CheckOperation`), it may.

## 7. What is not modelled

Rendering (`RenderSummary`), the metrics of stages and memory and their units,
and the audit script, which greps the checked-in files and keeps no state: no
decision of the commands depends on them. Of the inventory, the list of
generated paths, of which the number is modelled. Of the source, decoding the
contract's JSON (a contract is given by the fields ValidateSource looks at),
quotes around values, lines longer than the 64 KiB that bufio.Scanner takes (a file
with one is refused), and a comment mark inside a field, without a blank before it
(the model hides whole fields). Which texts are numbers is a constant, `Atoi`. `TypecheckCase` is
given parsed expressions. Digests appear as what they digest. The error paths of
flag parsing and of path handling end a command before it touches a modelled
file, which `Crash` covers. Of the workflows, the upload of artifacts and the
shape of a tag's name.

## 8. Plan

Done: the modules of section 2 with their runs, and the proofs of section 4,
which leave no safety property of a passing run unproved. What is left:

1. **Two overlapping runs**: what can still be said of a directory that two runs
   share (each file in it was earned by one of them).
2. **Quotes** in the source: `strings.Trim` beyond the texts that occur.
