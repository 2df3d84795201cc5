--------------------------- MODULE TypecheckProofs ---------------------------
(***************************************************************************)
(* TypeOK /\ SoundState is an inductive invariant of TypecheckCase, and    *)
(* the proofs it issues are therefore safe: for every set of declarations, *)
(* every set of rules in force, every expression and every case.           *)
(*                                                                         *)
(* checkExpression, call by call, computes the judgement, for expressions  *)
(* of every depth: TypecheckCase implements module Judgement.  What the    *)
(* judgement says of UNKNOWN and of more capabilities is then shown by     *)
(* induction on the size of an expression.                                 *)
(***************************************************************************)
EXTENDS TypecheckRefinement, RecursionLemmas

-----------------------------------------------------------------------------
(* Every rule of checkExpression yields a sound work, given sound works of *)
(* its arguments.                                                          *)

Sound(result, caps) == result \in Work /\ SoundWork(result, caps)

(* The empty typing facts.                                                 *)
LEMMA EmptyTyping == NoTyping \in Typing /\ NoUnknown \in Unknown
<1> DEFINE none == <<>>
<1>1. none \in Seq(Text) /\ none \in Seq(PlanStep)
  BY EmptySeq
<1> HIDE DEF none
<1>2. [input |-> "", output |-> "", stage |-> 0, origin |-> "", required |-> none,
       effects |-> none, pre |-> none, post |-> none, plan |-> none,
       replay |-> FALSE] \in Typing
  BY <1>1 DEF Typing, Text
<1>3. [unknownClass |-> "", nextOperation |-> "", blockedBy |-> none] \in Unknown
  BY <1>1 DEF Unknown, Text
<1>4. QED
  BY <1>2, <1>3, Zenon DEF NoTyping, NoUnknown, none

(* A refuted work claims nothing: it is sound whatever is bound.           *)
LEMMA RefutedSound ==
  ASSUME NEW caps
  PROVE  Sound(refutedWork, caps)
<1>1. refutedWork \in Work
  BY EmptyTyping DEF refutedWork, Work, Decisions
<1>2. refutedWork.decision = "REFUTED"
  BY DEF refutedWork
<1>3. QED
  BY <1>1, <1>2 DEF Sound, SoundWork

(* A row of one element.                                                   *)
LEMMA Singleton ==
  ASSUME NEW S, NEW value \in S
  PROVE  <<value>> \in Seq(S) /\ <<value>> # <<>> /\ Range(<<value>>) = {value}
<1>1. Append(<<>>, value) \in Seq(S) /\ Len(Append(<<>>, value)) = 1
  BY EmptySeq, AppendProperties
<1>2. Append(<<>>, value) = <<value>>
  OBVIOUS
<1>3. Range(<<value>>) = {value}
  BY DEF Range
<1>4. QED
  BY <1>1, <1>2, <1>3

(* The tuple that capabilityUnknown builds is complete.                    *)
LEMMA UnknownSound ==
  ASSUME NEW capability \in Text, NEW caps
  PROVE  Sound(capabilityUnknown(capability), caps)
<1> DEFINE w == capabilityUnknown(capability)
           blocked == <<capability>>
           tuple == [unknownClass |-> "UNBOUND_CAPABILITY",
                     nextOperation |-> "BindCompilerFixture", blockedBy |-> blocked]
<1>1. blocked \in Seq(Text) /\ blocked # <<>>
  BY Singleton
<1>2. w = [decision |-> "UNKNOWN", typed |-> NoTyping, unknown |-> tuple]
  BY DEF capabilityUnknown
<1> HIDE DEF blocked, w
<1>3. tuple \in Unknown /\ Complete(tuple)
  BY <1>1 DEF Unknown, Complete, Text
<1> HIDE DEF tuple
<1>4. w \in Work /\ w.decision = "UNKNOWN" /\ w.unknown = tuple
  BY <1>2, <1>3, EmptyTyping DEF Work, Decisions
<1>5. QED
  BY <1>3, <1>4 DEF Sound, SoundWork, w

(* Closing a sound typing gives a sound work.                              *)
LEMMA ClosedSound ==
  ASSUME NEW typed \in Typing, NEW caps, SoundTyping(typed, caps)
  PROVE  Sound(closedWork(typed), caps)
<1>1. closedWork(typed) \in Work
  BY EmptyTyping DEF closedWork, Work, Decisions
<1>2. closedWork(typed).decision = "CLOSED" /\ closedWork(typed).typed = typed
  BY DEF closedWork
<1>3. QED
  BY <1>1, <1>2 DEF Sound, SoundWork

(* More capabilities do no harm.                                           *)
LEMMA SoundMonotone ==
  ASSUME NEW result, NEW caps, NEW more, caps \subseteq more, Sound(result, caps)
  PROVE  Sound(result, more)
BY DEF Sound, SoundWork, SoundTyping

(* An operation is declared with strings throughout.                       *)
LEMMA OperationFacts ==
  ASSUME NEW id \in DOMAIN Operations
  PROVE  /\ id \in Text /\ id # "replay"
         /\ Operations[id] \in OperationDecl
         /\ Operations[id].input \in Name /\ Operations[id].output \in Name
         /\ Operations[id].origin \in Text
         /\ Operations[id].pre \in Text /\ Operations[id].post \in Text
         /\ Operations[id].effects \in Seq(Text)
         /\ Operations[id].requires \in Seq(Capabilities \cup {"$cap"})
         /\ Stages[Operations[id].stage] \in Nat
<1>1. Operations[id] \in OperationDecl
  BY DeclarationsAssumption
<1>2. Operations[id].effects \in Seq(Name) /\ Name \subseteq Text
  BY <1>1 DEF OperationDecl, Name, Text
<1>3. Operations[id].effects \in Seq(Text)
  BY <1>2, SeqMonotonic
<1>4. QED
  BY <1>1, <1>3, DeclarationsAssumption, NoReplayOperation DEF OperationDecl, Name, Text

(* unique keeps the elements of its row.                                   *)
LEMMA UniqueLemma ==
  ASSUME NEW S, NEW values \in Seq(S)
  PROVE  unique(values) \in Seq(S) /\ Range(unique(values)) = Range(values)
<1> DEFINE none == <<>>
<1>1. none \in Seq(S) /\ Range(none) = {}
  BY EmptySeq DEF Range
<1> HIDE DEF none
<1>2. /\ union(values, none) \in Seq(S)
      /\ Range(union(values, none)) = Range(values) \cup Range(none)
  BY <1>1, UnionLemma
<1>3. unique(values) = union(values, none)
  BY DEF unique, none
<1>4. QED
  BY <1>1, <1>2, <1>3

(* A row is a list of whatever its members are in.                         *)
LEMMA RowOf ==
  ASSUME NEW S, NEW T, NEW values \in Seq(S), \A i \in DOMAIN values : values[i] \in T
  PROVE  values \in Seq(T)
<1>1. Len(values) \in Nat /\ values \in [1 .. Len(values) -> S] /\ DOMAIN values = 1 .. Len(values)
  BY LenProperties
<1>2. values \in [1 .. Len(values) -> T]
  BY <1>1
<1>3. QED
  BY <1>1, <1>2, SeqDef, Zenon

-----------------------------------------------------------------------------
(* Chains of operations.                                                   *)

(* A plan of one operation, with its own types and postcondition.          *)
LEMMA ChainOfOne ==
  ASSUME NEW typed, NEW step, step.operation # "replay", NEW last,
         typed.plan = <<step>>, typed.post = <<last>>,
         Operations[step.operation].input = typed.input,
         Operations[step.operation].output = typed.output,
         Operations[step.operation].post = last
  PROVE  Chained(typed)
<1> DEFINE plan == typed.plan
<1>1. DOMAIN plan = {1} /\ plan[1] = step /\ typed.post[Len(typed.post)] = last
  OBVIOUS
<1>2. OperationSteps(plan) = {1}
  BY <1>1 DEF OperationSteps
<1>3. First(plan, 1) /\ Last(plan, 1)
  BY <1>2 DEF First, Last
<1>4. \A i, j \in OperationSteps(plan) : ~Adjacent(plan, i, j)
  BY <1>2 DEF Adjacent
<1>5. OperationAt(plan, 1) = Operations[step.operation]
  BY <1>1 DEF OperationAt
<1>6. QED
  BY <1>1, <1>3, <1>4, <1>5 DEF Chained

(* The places of two rows in a row.                                        *)
LEMMA PlacesOfTwo ==
  ASSUME NEW S, NEW p \in Seq(S), NEW q \in Seq(S)
  PROVE  /\ Len(p) \in Nat /\ Len(q) \in Nat
         /\ DOMAIN p = 1 .. Len(p) /\ DOMAIN q = 1 .. Len(q)
         /\ DOMAIN (p \o q) = 1 .. Len(p) + Len(q)
         /\ \A i \in 1 .. Len(p) : (p \o q)[i] = p[i]
         /\ \A i \in 1 .. Len(q) : (p \o q)[Len(p) + i] = q[i]
<1> DEFINE m == Len(p)
           n == Len(q)
           pq == p \o q
<1>1. /\ m \in Nat /\ n \in Nat /\ DOMAIN p = 1 .. m /\ DOMAIN q = 1 .. n
      /\ DOMAIN pq = 1 .. m + n
      /\ \A i \in 1 .. m : pq[i] = p[i]
      /\ \A i \in 1 .. m + n : i > m => pq[i] = q[i - m]
  BY ConcatProperties, LenProperties
<1> HIDE DEF m, n, pq
<1>2. ASSUME NEW i \in 1 .. n PROVE pq[m + i] = q[i]
  <2>1. m + i \in 1 .. m + n /\ m + i > m /\ m + i - m = i
    BY <1>1
  <2>2. pq[m + i] = q[m + i - m]
    BY <1>1, <2>1
  <2>3. QED
    BY <2>1, <2>2
<1>3. QED
  BY <1>1, <1>2 DEF m, n, pq

(* Two chains of which the second consumes what the first produces.        *)
LEMMA ChainOfTwo ==
  ASSUME NEW left, NEW right, NEW both,
         left.plan \in Seq(PlanStep), right.plan \in Seq(PlanStep),
         left.post \in Seq(Text), right.post \in Seq(Text), right.post # <<>>,
         Chained(left), Chained(right), left.output = right.input,
         both.plan = left.plan \o right.plan, both.post = left.post \o right.post,
         both.input = left.input, both.output = right.output
  PROVE  Chained(both)
<1> DEFINE p == left.plan
           q == right.plan
           pq == both.plan
           m == Len(p)
           n == Len(q)
<1>1. /\ m \in Nat /\ n \in Nat /\ DOMAIN p = 1 .. m /\ DOMAIN q = 1 .. n
      /\ DOMAIN pq = 1 .. m + n
      /\ \A i \in 1 .. m : pq[i] = p[i]
      /\ \A i \in 1 .. n : pq[m + i] = q[i]
  <2>1. p \in Seq(PlanStep) /\ q \in Seq(PlanStep) /\ pq = p \o q
    OBVIOUS
  <2> HIDE DEF p, q, pq
  <2>2. QED
    BY <2>1, PlacesOfTwo
<1>2. both.post[Len(both.post)] = right.post[Len(right.post)]
  <2> DEFINE a == left.post
             b == right.post
  <2>1. a \in Seq(Text) /\ b \in Seq(Text) /\ Len(a) \in Nat /\ Len(b) \in Nat
        /\ Len(b) # 0 /\ both.post = a \o b
    BY EmptySeq, LenProperties
  <2> HIDE DEF a, b
  <2>2. Len(a \o b) = Len(a) + Len(b) /\ Len(a) + Len(b) > Len(a)
        /\ Len(a) + Len(b) - Len(a) = Len(b)
    BY <2>1, ConcatProperties
  <2>3. (a \o b)[Len(a) + Len(b)] = b[Len(a) + Len(b) - Len(a)]
    BY <2>1, <2>2, ConcatProperties
  <2>4. QED
    BY <2>1, <2>2, <2>3 DEF b
<1> HIDE DEF p, q, pq, m, n
<1>3. OperationSteps(pq) = OperationSteps(p) \cup {m + i : i \in OperationSteps(q)}
  <2>1. ASSUME NEW i \in OperationSteps(pq), i > m
        PROVE  i - m \in OperationSteps(q) /\ i = m + (i - m)
    BY <1>1, <2>1 DEF OperationSteps
  <2>2. ASSUME NEW i \in OperationSteps(pq), ~(i > m) PROVE i \in OperationSteps(p)
    <3>1. i \in DOMAIN pq /\ pq[i].operation # "replay"
      BY <2>2 DEF OperationSteps
    <3>2. i \in 1 .. m
      BY <1>1, <2>2, <3>1
    <3>3. pq[i] = p[i]
      BY <1>1, <3>2
    <3>4. QED
      BY <1>1, <3>1, <3>2, <3>3 DEF OperationSteps
  <2>3. OperationSteps(p) \subseteq OperationSteps(pq)
    BY <1>1 DEF OperationSteps
  <2>4. ASSUME NEW i \in OperationSteps(q) PROVE m + i \in OperationSteps(pq)
    BY <1>1, <2>4 DEF OperationSteps
  <2>5. QED
    BY <2>1, <2>2, <2>3, <2>4
<1>4. /\ OperationSteps(p) \subseteq 1 .. m /\ OperationSteps(q) \subseteq 1 .. n
      /\ \A i \in OperationSteps(p) : OperationAt(pq, i) = OperationAt(p, i)
      /\ \A i \in OperationSteps(q) : OperationAt(pq, m + i) = OperationAt(q, i)
  BY <1>1 DEF OperationSteps, OperationAt
<1>5. PICK first1 \in 1 .. m : First(p, first1) /\ OperationAt(p, first1).input = left.input
  BY <1>1 DEF Chained, p
<1>6. PICK last1 \in 1 .. m : Last(p, last1) /\ OperationAt(p, last1).output = left.output
  BY <1>1 DEF Chained, p
<1>7. PICK first2 \in 1 .. n : First(q, first2) /\ OperationAt(q, first2).input = right.input
  BY <1>1 DEF Chained, q
<1>8. PICK last2 \in 1 .. n : /\ Last(q, last2)
                              /\ OperationAt(q, last2).output = right.output
                              /\ OperationAt(q, last2).post = right.post[Len(right.post)]
  BY <1>1 DEF Chained, q
<1>9. First(pq, first1) /\ OperationAt(pq, first1).input = both.input
  BY <1>1, <1>3, <1>4, <1>5 DEF First
<1>10. /\ Last(pq, m + last2)
       /\ OperationAt(pq, m + last2).output = both.output
       /\ OperationAt(pq, m + last2).post = both.post[Len(both.post)]
  BY <1>1, <1>2, <1>3, <1>4, <1>8 DEF Last
<1>11. ASSUME NEW i \in OperationSteps(pq), NEW j \in OperationSteps(pq), Adjacent(pq, i, j)
       PROVE  OperationAt(pq, i).output = OperationAt(pq, j).input
  <2>1. CASE i \in OperationSteps(p) /\ j \in OperationSteps(p)
    <3>1. Adjacent(p, i, j)
      BY <1>3, <1>11, <2>1 DEF Adjacent
    <3>2. QED
      BY <1>4, <2>1, <3>1 DEF Chained, p
  <2>2. CASE \E k, l \in OperationSteps(q) : i = m + k /\ j = m + l
    <3>1. PICK k \in OperationSteps(q), l \in OperationSteps(q) : i = m + k /\ j = m + l
      BY <2>2
    <3>2. Adjacent(q, k, l)
      BY <1>1, <1>3, <1>4, <1>11, <3>1 DEF Adjacent
    <3>3. QED
      BY <1>4, <3>1, <3>2 DEF Chained, q
  <2>3. CASE i \in OperationSteps(p) /\ \E l \in OperationSteps(q) : j = m + l
    <3>1. PICK l \in OperationSteps(q) : j = m + l
      BY <2>3
    <3>2. i = last1
      BY <1>1, <1>3, <1>4, <1>6, <1>11, <2>3, <3>1 DEF Adjacent, Last
    <3>3. l = first2
      BY <1>1, <1>3, <1>4, <1>7, <1>11, <2>3, <3>1 DEF Adjacent, First
    <3>4. QED
      BY <1>4, <1>6, <1>7, <2>3, <3>1, <3>2, <3>3
  <2>4. ~(j \in OperationSteps(p) /\ \E k \in OperationSteps(q) : i = m + k)
    BY <1>1, <1>4, <1>11 DEF Adjacent
  <2>5. QED
    BY <1>3, <2>1, <2>2, <2>3, <2>4
<1>12. QED
  <2>1. first1 \in DOMAIN pq /\ m + last2 \in DOMAIN pq
    BY <1>1
  <2>2. QED
    BY <1>9, <1>10, <1>11, <2>1 DEF Chained, pq

(* A replay step does not break a chain.                                   *)
LEMMA ChainAndReplay ==
  ASSUME NEW typed, NEW more, typed.plan \in Seq(PlanStep), Chained(typed),
         more.plan = Append(typed.plan, replayStep), more.post = typed.post,
         more.input = typed.input, more.output = typed.output
  PROVE  Chained(more)
<1> DEFINE p == typed.plan
           ps == more.plan
           n == Len(p)
<1>1. /\ n \in Nat /\ DOMAIN p = 1 .. n /\ DOMAIN ps = 1 .. n + 1
      /\ \A i \in 1 .. n : ps[i] = p[i]
      /\ ps[n + 1].operation = "replay"
  <2>1. replayStep \in PlanStep /\ replayStep.operation = "replay"
    BY DEF replayStep, PlanStep, Text
  <2>2. QED
    BY <2>1, AppendProperties, LenProperties
<1> HIDE DEF p, ps, n
<1>2. OperationSteps(ps) = OperationSteps(p)
  BY <1>1 DEF OperationSteps
<1>3. \A i \in OperationSteps(p) : OperationAt(ps, i) = OperationAt(p, i)
  BY <1>1 DEF OperationSteps, OperationAt
<1>4. /\ \A i : First(p, i) => First(ps, i) /\ i \in OperationSteps(p)
      /\ \A i : Last(p, i) => Last(ps, i) /\ i \in OperationSteps(p)
      /\ \A i, j : Adjacent(ps, i, j) => Adjacent(p, i, j)
  BY <1>2 DEF First, Last, Adjacent
<1>5. DOMAIN p \subseteq DOMAIN ps
  BY <1>1
<1>6. /\ \E i \in DOMAIN ps : First(ps, i) /\ OperationAt(ps, i).input = typed.input
      /\ \E i \in DOMAIN ps :
           /\ Last(ps, i)
           /\ OperationAt(ps, i).output = typed.output
           /\ OperationAt(ps, i).post = typed.post[Len(typed.post)]
      /\ \A i, j \in OperationSteps(ps) :
           Adjacent(ps, i, j) => OperationAt(ps, i).output = OperationAt(ps, j).input
  BY <1>2, <1>3, <1>4, <1>5 DEF Chained, p
<1>7. QED
  BY <1>6 DEF Chained, ps

-----------------------------------------------------------------------------
(* An operation by itself is CLOSED only with its capabilities.            *)

(* When a required capability is not bound, leafWork stops at the first    *)
(* such one and names it.                                                  *)
LEMMA MissingSound ==
  ASSUME NEW id \in DOMAIN Operations, NEW caps, NEW instantiated,
         missing(Operations[id], caps) # {}
  PROVE  Sound(leafWork(id, instantiated, caps), caps)
<1> DEFINE requires == Operations[id].requires
           unbound  == missing(Operations[id], caps)
           earliest == CHOOSE i \in unbound : \A j \in unbound : i <= j
<1>1. requires \in Seq(Capabilities \cup {"$cap"})
  BY OperationFacts
<1>2. unbound \in SUBSET Nat /\ unbound # {}
  BY <1>1 DEF missing
<1> HIDE DEF unbound
<1>3. earliest \in unbound
  BY <1>2, LeastNatural
<1> HIDE DEF earliest
<1>4. earliest \in DOMAIN requires /\ requires[earliest] # "$cap"
  BY <1>3 DEF unbound, missing
<1>5. requires[earliest] \in Text
  <2>1. requires[earliest] \in Capabilities
    BY <1>1, <1>4, LenProperties
  <2>2. Capabilities \subseteq Text
    BY DeclarationsAssumption DEF Text
  <2>3. QED
    BY <2>1, <2>2
<1>6. leafWork(id, instantiated, caps) = capabilityUnknown(requires[earliest])
  BY DEF leafWork, unbound, earliest
<1> HIDE DEF requires
<1> QED
  BY <1>5, <1>6, UnknownSound

(* When all of them are bound, the one-step plan of leafWork accounts for  *)
(* the requirements, the stage and the effects of its operation.           *)
LEMMA BoundSound ==
  ASSUME NEW id \in DOMAIN Operations, NEW caps \in SUBSET Capabilities,
         NEW instantiated \in Seq(caps), missing(Operations[id], caps) = {}
  PROVE  Sound(leafWork(id, instantiated, caps), caps)
<1> DEFINE operation == Operations[id]
           required  == requirement(operation, instantiated)
           step      == [operation |-> id, capability |-> first(required)]
           plan      == <<step>>
           pre       == <<operation.pre>>
           post      == <<operation.post>>
           typed     == [input |-> operation.input, output |-> operation.output,
                         stage |-> Stages[operation.stage], origin |-> operation.origin,
                         required |-> unique(required), effects |-> unique(operation.effects),
                         pre |-> pre, post |-> post, plan |-> plan, replay |-> FALSE]
<1> HIDE DEF operation
<1>1. /\ operation.requires \in Seq(Capabilities \cup {"$cap"})
      /\ operation.effects \in Seq(Text)
      /\ operation.pre \in Text /\ operation.post \in Text
      /\ operation.input \in Text \ {""} /\ operation.output \in Text \ {""}
      /\ operation.origin \in Text /\ Stages[operation.stage] \in Nat
      /\ id \in Text /\ id # "replay"
  BY OperationFacts DEF operation, Name, Text
<1>2. \A i \in DOMAIN operation.requires : operation.requires[i] \in caps \cup {"$cap"}
  BY DEF missing, operation
<1>3. operation.requires \in Seq(caps \cup {"$cap"})
  <2> DEFINE requires == operation.requires
  <2>1. requires \in Seq(Capabilities \cup {"$cap"})
    BY <1>1
  <2>2. \A i \in DOMAIN requires : requires[i] \in caps \cup {"$cap"}
    BY <1>2
  <2> HIDE DEF requires
  <2>3. requires \in Seq(caps \cup {"$cap"})
    BY <2>1, <2>2, RowOf
  <2>4. QED
    BY <2>3 DEF requires
<1>4. required \in Seq(caps)
  BY <1>3, RequirementLemma
<1> HIDE DEF required
<1>5. first(required) \in caps \cup {""}
  <2>1. CASE required = <<>>
    BY <2>1 DEF first
  <2>2. CASE required # <<>>
    <3>1. 1 \in 1 .. Len(required)
      BY <1>4, <2>2, EmptySeq
    <3>2. required[1] \in caps
      BY <1>4, <3>1, ElementOfSeq
    <3>3. QED
      BY <2>2, <3>2 DEF first
  <2>3. QED
    BY <2>1, <2>2
<1>6. /\ unique(required) \in Seq(caps)
      /\ Range(unique(required)) \subseteq caps
  BY <1>4, UniqueLemma, RangeOfSeq
<1>7. /\ unique(operation.effects) \in Seq(Text)
      /\ Range(unique(operation.effects)) = Range(operation.effects)
  BY <1>1, UniqueLemma
<1>8. caps \subseteq Text
  BY DeclarationsAssumption DEF Text
<1>9. unique(required) \in Seq(Text)
  BY <1>6, <1>8, SeqMonotonic
<1>10. step \in PlanStep
  BY <1>5, <1>8 DEF PlanStep, Text
<1>11. /\ plan \in Seq(PlanStep) /\ pre \in Seq(Text) /\ post \in Seq(Text)
       /\ pre # <<>> /\ post # <<>> /\ Range(plan) = {step} /\ DOMAIN plan = {1}
  <2> HIDE DEF step
  <2>1. DOMAIN plan = {1}
    OBVIOUS
  <2>2. QED
    BY <1>1, <1>10, <2>1, Singleton
<1>12. /\ StepRequires(step) \subseteq caps
       /\ StepEffects(step) = Range(operation.effects)
       /\ StepStage(step) = Stages[operation.stage]
       /\ {step.capability} \ {""} \subseteq caps
  <2>1. Range(operation.requires) \ {"$cap"} \subseteq caps
    BY <1>3, RangeOfSeq
  <2>2. step.operation = id /\ step.capability = first(required)
    OBVIOUS
  <2> HIDE DEF step
  <2>3. QED
    BY <1>1, <1>5, <2>1, <2>2 DEF StepRequires, StepEffects, StepStage, operation
<1>13. DisjointSteps(plan)
  <2> HIDE DEF plan
  <2>1. QED
    BY <1>11 DEF DisjointSteps
<1>14. leafWork(id, instantiated, caps) = closedWork(typed)
  BY DEF leafWork, operation, required
<1> HIDE DEF plan, pre, post, step
<1>15. typed \in Typing
  BY <1>1, <1>7, <1>9, <1>11 DEF Typing
<1>16. SoundTyping(typed, caps)
  <2>1. UNION {StepEffects(s) : s \in Range(plan)} = StepEffects(step)
    BY <1>11
  <2>2. /\ typed.required = unique(required) /\ typed.effects = unique(operation.effects)
        /\ typed.plan = plan /\ typed.pre = pre /\ typed.post = post
        /\ typed.stage = Stages[operation.stage]
        /\ typed.input = operation.input /\ typed.output = operation.output
    OBVIOUS
  <2> HIDE DEF typed
  <2>3. \A s \in Range(typed.plan) :
          /\ StepRequires(s) \cup ({s.capability} \ {""}) \subseteq caps
          /\ StepStage(s) <= typed.stage
    <3>1. Range(typed.plan) = {step}
      BY <1>11, <2>2
    <3>2. StepStage(step) <= typed.stage
      <4> DEFINE n == Stages[operation.stage]
      <4>1. n \in Nat /\ StepStage(step) = n /\ typed.stage = n
        BY <1>1, <1>12, <2>2, Zenon
      <4> HIDE DEF n
      <4>2. QED
        BY <4>1
    <3>3. StepRequires(step) \cup ({step.capability} \ {""}) \subseteq caps
      BY <1>12
    <3>4. QED
      BY <3>1, <3>2, <3>3, Zenon
  <2>4. Range(typed.effects) = UNION {StepEffects(s) : s \in Range(typed.plan)}
    BY <1>7, <1>12, <2>1, <2>2
  <2>5. Chained(typed)
    <3>1. step.operation = id /\ typed.plan = <<step>> /\ typed.post = <<operation.post>>
      BY <2>2 DEF plan, step, post
    <3>2. /\ Operations[step.operation].input = typed.input
          /\ Operations[step.operation].output = typed.output
          /\ Operations[step.operation].post = operation.post
      BY <2>2, <3>1 DEF operation
    <3>3. QED
      BY <1>1, <3>1, <3>2, ChainOfOne
  <2>6. QED
    BY <1>1, <1>6, <1>11, <1>13, <2>2, <2>3, <2>4, <2>5 DEF SoundTyping
<1> HIDE DEF typed
<1>17. QED
  BY <1>14, <1>15, <1>16, ClosedSound

(* leafWork returns a sound work, whichever bound capabilities instantiate *)
(* the operation.                                                          *)
LEMMA LeafSound ==
  ASSUME NEW id \in DOMAIN Operations, NEW caps \in SUBSET Capabilities,
         NEW instantiated \in Seq(caps)
  PROVE  Sound(leafWork(id, instantiated, caps), caps)
BY MissingSound, BoundSound

-----------------------------------------------------------------------------
(* compose: two sound works in a row.                                      *)

(* Two plans without an effect in common, each of disjoint steps, make a   *)
(* plan of disjoint steps.                                                 *)
LEMMA ConcatDisjoint ==
  ASSUME NEW p \in Seq(PlanStep), NEW q \in Seq(PlanStep),
         DisjointSteps(p), DisjointSteps(q),
         \A s \in Range(p), t \in Range(q) : StepEffects(s) \cap StepEffects(t) = {}
  PROVE  DisjointSteps(p \o q)
<1> DEFINE m == Len(p)
           n == Len(q)
           pq == p \o q
<1>1. /\ m \in Nat /\ n \in Nat /\ DOMAIN p = 1 .. m /\ DOMAIN q = 1 .. n
      /\ DOMAIN pq = 1 .. m + n
      /\ \A i \in 1 .. m : pq[i] = p[i]
      /\ \A i \in 1 .. m + n : i > m => pq[i] = q[i - m]
  BY ConcatProperties, LenProperties
<1>2. /\ \A i \in 1 .. m : p[i] \in Range(p)
      /\ \A i \in 1 .. n : q[i] \in Range(q)
  BY <1>1 DEF Range
<1> HIDE DEF m, n, pq
<1>3. SUFFICES ASSUME NEW i \in 1 .. m + n, NEW j \in 1 .. m + n, i # j,
                      pq[i].operation # "replay", pq[j].operation # "replay"
               PROVE  StepEffects(pq[i]) \cap StepEffects(pq[j]) = {}
  BY <1>1 DEF DisjointSteps, pq
<1>4. CASE i <= m /\ j <= m
  <2>1. i \in 1 .. m /\ j \in 1 .. m
    BY <1>1, <1>4
  <2>2. pq[i] = p[i] /\ pq[j] = p[j]
    BY <1>1, <2>1
  <2>3. QED
    BY <1>1, <1>3, <2>1, <2>2, Zenon DEF DisjointSteps
<1>5. CASE i > m /\ j > m
  <2> DEFINE i1 == i - m
             j1 == j - m
  <2>1. i1 \in 1 .. n /\ j1 \in 1 .. n /\ i1 # j1
    BY <1>1, <1>3, <1>5
  <2>2. pq[i] = q[i1] /\ pq[j] = q[j1]
    BY <1>1, <1>5
  <2> HIDE DEF i1, j1
  <2>3. QED
    BY <1>1, <1>3, <2>1, <2>2, Zenon DEF DisjointSteps
<1>6. CASE i <= m /\ j > m
  <2> DEFINE j1 == j - m
  <2>1. i \in 1 .. m /\ j1 \in 1 .. n /\ pq[i] = p[i] /\ pq[j] = q[j1]
    BY <1>1, <1>6
  <2> HIDE DEF j1
  <2>2. p[i] \in Range(p) /\ q[j1] \in Range(q)
    BY <1>2, <2>1
  <2>3. QED
    BY <2>1, <2>2
<1>7. CASE i > m /\ j <= m
  <2> DEFINE i1 == i - m
  <2>1. j \in 1 .. m /\ i1 \in 1 .. n /\ pq[j] = p[j] /\ pq[i] = q[i1]
    BY <1>1, <1>7
  <2> HIDE DEF i1
  <2>2. p[j] \in Range(p) /\ q[i1] \in Range(q)
    BY <1>2, <2>1
  <2>3. QED
    BY <2>1, <2>2
<1>8. QED
  BY <1>1, <1>4, <1>5, <1>6, <1>7

(* What compose builds of two typings is a typing, and its rows hold what  *)
(* the rows of the two hold.                                               *)
LEMMA SequentialTyping ==
  ASSUME NEW left \in Typing, NEW right \in Typing
  PROVE  /\ Sequential(left, right) \in Typing
         /\ Range(union(left.required, right.required))
              = Range(left.required) \cup Range(right.required)
         /\ Range(union(left.effects, right.effects))
              = Range(left.effects) \cup Range(right.effects)
         /\ Range(left.plan \o right.plan) = Range(left.plan) \cup Range(right.plan)
         /\ left.pre # <<>> => left.pre \o right.pre # <<>>
         /\ left.post # <<>> => left.post \o right.post # <<>>
<1>1. /\ left.required \in Seq(Text) /\ right.required \in Seq(Text)
      /\ left.effects \in Seq(Text) /\ right.effects \in Seq(Text)
      /\ left.pre \in Seq(Text) /\ right.pre \in Seq(Text)
      /\ left.post \in Seq(Text) /\ right.post \in Seq(Text)
      /\ left.plan \in Seq(PlanStep) /\ right.plan \in Seq(PlanStep)
  BY DEF Typing
<1> DEFINE r1 == left.required
           r2 == right.required
           e1 == left.effects
           e2 == right.effects
           p1 == left.plan
           p2 == right.plan
<1> HIDE DEF r1, r2, e1, e2, p1, p2
<1>2. union(r1, r2) \in Seq(Text) /\ Range(union(r1, r2)) = Range(r1) \cup Range(r2)
  <2>1. r1 \in Seq(Text) /\ r2 \in Seq(Text)
    BY <1>1 DEF r1, r2
  <2>2. QED
    BY <2>1, UnionLemma
<1>3. union(e1, e2) \in Seq(Text) /\ Range(union(e1, e2)) = Range(e1) \cup Range(e2)
  <2>1. e1 \in Seq(Text) /\ e2 \in Seq(Text)
    BY <1>1 DEF e1, e2
  <2>2. QED
    BY <2>1, UnionLemma
<1>4. p1 \o p2 \in Seq(PlanStep) /\ Range(p1 \o p2) = Range(p1) \cup Range(p2)
  <2>1. p1 \in Seq(PlanStep) /\ p2 \in Seq(PlanStep)
    BY <1>1 DEF p1, p2
  <2>2. QED
    BY <2>1, ConcatProperties, RangeConcatenation
<1>5. /\ left.pre \o right.pre \in Seq(Text) /\ left.post \o right.post \in Seq(Text)
      /\ left.pre # <<>> => left.pre \o right.pre # <<>>
      /\ left.post # <<>> => left.post \o right.post # <<>>
  BY <1>1, ConcatProperties, ConcatSimplifications!concIsEmpty
<1>6. maxInt(left.stage, right.stage) \in Nat
  BY DEF maxInt, Typing
<1>7. left.replay \/ right.replay \in BOOLEAN
  BY DEF Typing
<1>8. Sequential(left, right) \in Typing
  <2> DEFINE rs == union(r1, r2)
             es == union(e1, e2)
             ps == p1 \o p2
             pre == left.pre \o right.pre
             post == left.post \o right.post
             st == maxInt(left.stage, right.stage)
             rep == left.replay \/ right.replay
             seq == [input |-> left.input, output |-> right.output, stage |-> st,
                     origin |-> right.origin, required |-> rs, effects |-> es,
                     pre |-> pre, post |-> post, plan |-> ps, replay |-> rep]
  <2>1. Sequential(left, right) = seq
    BY DEF Sequential, r1, r2, e1, e2, p1, p2
  <2>2. /\ rs \in Seq(Text) /\ es \in Seq(Text) /\ ps \in Seq(PlanStep)
        /\ pre \in Seq(Text) /\ post \in Seq(Text) /\ st \in Nat
        /\ left.input \in Text /\ right.output \in Text /\ right.origin \in Text
    BY <1>2, <1>3, <1>4, <1>5, <1>6 DEF Typing
  <2>3. rep \in BOOLEAN
    OBVIOUS
  <2> HIDE DEF rs, es, ps, pre, post, st, rep
  <2>4. seq \in Typing
    BY <2>2, <2>3 DEF Typing
  <2>5. QED
    BY <2>1, <2>4
<1>9. QED
  BY <1>2, <1>3, <1>4, <1>5, <1>8 DEF r1, r2, e1, e2, p1, p2

(* compose keeps typings sound: no capability, stage or effect of either   *)
(* side is lost.                                                           *)
LEMMA SequentialSound ==
  ASSUME NEW left \in Typing, NEW right \in Typing, NEW caps,
         SoundTyping(left, caps), SoundTyping(right, caps),
         ~overlaps(left.effects, right.effects), left.output = right.input
  PROVE  SoundTyping(Sequential(left, right), caps)
<1> DEFINE both == Sequential(left, right)
<1>1. /\ both.required = union(left.required, right.required)
      /\ both.effects = union(left.effects, right.effects)
      /\ both.plan = left.plan \o right.plan
      /\ both.pre = left.pre \o right.pre /\ both.post = left.post \o right.post
      /\ both.stage = maxInt(left.stage, right.stage)
      /\ both.input = left.input /\ both.output = right.output
  BY DEF Sequential
<1> HIDE DEF both
<1>2. Range(both.required) \subseteq caps
  <2>1. Range(both.required) = Range(left.required) \cup Range(right.required)
    BY <1>1, SequentialTyping
  <2>2. Range(left.required) \subseteq caps /\ Range(right.required) \subseteq caps
    BY DEF SoundTyping
  <2>3. QED
    BY <2>1, <2>2
<1>3. Range(both.plan) = Range(left.plan) \cup Range(right.plan)
  BY <1>1, SequentialTyping
<1>4. left.stage \in Nat /\ right.stage \in Nat
  BY DEF Typing
<1>5. both.stage >= left.stage /\ both.stage >= right.stage /\ both.stage \in Nat
  BY <1>1, <1>4 DEF maxInt
<1>6. ASSUME NEW step \in Range(both.plan)
      PROVE  /\ StepRequires(step) \cup ({step.capability} \ {""}) \subseteq caps
             /\ StepStage(step) <= both.stage
  <2>1. CASE step \in Range(left.plan)
    <3>1. /\ StepRequires(step) \cup ({step.capability} \ {""}) \subseteq caps
          /\ StepStage(step) <= left.stage
      BY <2>1 DEF SoundTyping
    <3>2. StepStage(step) \in Nat
      <4>1. step \in PlanStep
        BY <2>1, RangeOfSeq DEF Typing
      <4>2. QED
        BY <4>1, OperationFacts DEF PlanStep, StepStage
    <3> DEFINE s == StepStage(step)
    <3>3. StepStage(step) <= both.stage
      <4>1. s \in Nat
        BY <3>2
      <4>2. s <= left.stage
        BY <3>1
      <4> HIDE DEF s
      <4>3. s <= both.stage
        BY <1>4, <1>5, <4>1, <4>2
      <4>4. QED
        BY <4>3 DEF s
    <3>4. QED
      BY <3>1, <3>3
  <2>2. CASE step \in Range(right.plan)
    <3>1. /\ StepRequires(step) \cup ({step.capability} \ {""}) \subseteq caps
          /\ StepStage(step) <= right.stage
      BY <2>2 DEF SoundTyping
    <3>2. StepStage(step) \in Nat
      <4>1. step \in PlanStep
        BY <2>2, RangeOfSeq DEF Typing
      <4>2. QED
        BY <4>1, OperationFacts DEF PlanStep, StepStage
    <3> DEFINE s == StepStage(step)
    <3>3. StepStage(step) <= both.stage
      <4>1. s \in Nat
        BY <3>2
      <4>2. s <= right.stage
        BY <3>1
      <4> HIDE DEF s
      <4>3. s <= both.stage
        BY <1>4, <1>5, <4>1, <4>2
      <4>4. QED
        BY <4>3 DEF s
    <3>4. QED
      BY <3>1, <3>3
  <2>3. QED
    BY <1>3, <2>1, <2>2
<1>7. Range(both.effects) = UNION {StepEffects(step) : step \in Range(both.plan)}
  <2>1. Range(both.effects) = Range(left.effects) \cup Range(right.effects)
    BY <1>1, SequentialTyping
  <2>2. QED
    BY <1>3, <2>1 DEF SoundTyping
<1>8. DisjointSteps(both.plan)
  <2>1. \A s \in Range(left.plan) : StepEffects(s) \subseteq Range(left.effects)
    BY DEF SoundTyping
  <2>2. \A t \in Range(right.plan) : StepEffects(t) \subseteq Range(right.effects)
    BY DEF SoundTyping
  <2>3. \A s \in Range(left.plan), t \in Range(right.plan) :
          StepEffects(s) \cap StepEffects(t) = {}
    BY <2>1, <2>2 DEF overlaps
  <2> DEFINE p == left.plan
             q == right.plan
  <2>4. p \in Seq(PlanStep) /\ q \in Seq(PlanStep) /\ DisjointSteps(p) /\ DisjointSteps(q)
    BY DEF Typing, SoundTyping
  <2>5. \A s \in Range(p), t \in Range(q) : StepEffects(s) \cap StepEffects(t) = {}
    BY <2>3
  <2> HIDE DEF p, q
  <2>6. DisjointSteps(p \o q)
    BY <2>4, <2>5, ConcatDisjoint
  <2>7. QED
    BY <1>1, <2>6 DEF p, q
<1>9. /\ both.input # "" /\ both.output # "" /\ both.pre # <<>> /\ both.post # <<>>
  BY <1>1, SequentialTyping DEF SoundTyping
<1>10. Chained(both)
  <2>1. /\ left.plan \in Seq(PlanStep) /\ right.plan \in Seq(PlanStep)
        /\ left.post \in Seq(Text) /\ right.post \in Seq(Text)
    BY DEF Typing
  <2>2. right.post # <<>> /\ Chained(left) /\ Chained(right)
    BY DEF SoundTyping
  <2>3. QED
    BY <1>1, <2>1, <2>2, ChainOfTwo
<1>11. QED
  BY <1>2, <1>6, <1>7, <1>8, <1>9, <1>10 DEF SoundTyping, both

(* Every way out of the compose case returns a sound work.                 *)
LEMMA ComposeSound ==
  ASSUME NEW left, NEW right, NEW caps, NEW rs, Sound(left, caps), Sound(right, caps)
  PROVE  Sound(composeWork(left, right, rs), caps)
<1>1. CASE left.decision # "CLOSED" \/ right.decision # "CLOSED"
  BY <1>1 DEF composeWork, mergeNonClosed
<1>2. CASE left.decision = "CLOSED" /\ right.decision = "CLOSED"
  <2>1. CASE overlaps(left.typed.effects, right.typed.effects)
    BY <1>2, <2>1, RefutedSound DEF composeWork
  <2>2. CASE ~overlaps(left.typed.effects, right.typed.effects)
    <3> DEFINE l == left.typed
               r == right.typed
    <3>1. l \in Typing /\ r \in Typing /\ SoundTyping(l, caps) /\ SoundTyping(r, caps)
      BY <1>2 DEF Sound, SoundWork, Work
    <3>2. ~overlaps(l.effects, r.effects)
      BY <2>2
    <3>3. \/ composeWork(left, right, rs) = refutedWork
          \/ /\ composeWork(left, right, rs) = closedWork(Sequential(l, r))
             /\ l.output = r.input
      BY <1>2 DEF composeWork
    <3> HIDE DEF l, r
    <3>4. ASSUME l.output = r.input
          PROVE  Sequential(l, r) \in Typing /\ SoundTyping(Sequential(l, r), caps)
      BY <3>1, <3>2, <3>4, SequentialTyping, SequentialSound
    <3>5. QED
      BY <3>3, <3>4, ClosedSound, RefutedSound
  <2>3. QED
    BY <2>1, <2>2
<1>3. QED
  BY <1>1, <1>2

-----------------------------------------------------------------------------
(* The constructors whose arguments are names, and plain operations.       *)

(* The names of two arguments are strings.                                 *)
LEMMA ArgumentNames ==
  ASSUME NEW args \in Seq(Exprs), Len(args) = 2
  PROVE  args[1].name \in Text /\ args[2].name \in Text
<1>1. args[1] \in Exprs /\ args[2] \in Exprs
  <2>1. 1 \in 1 .. Len(args) /\ 2 \in 1 .. Len(args)
    OBVIOUS
  <2>2. QED
    BY <2>1, ElementOfSeq, Zenon
<1>2. QED
  BY <1>1, ExprsAssumption DEF Expr, Name, Text

(* leafWork without instantiation.                                         *)
LEMMA PlainSound ==
  ASSUME NEW id \in DOMAIN Operations, NEW caps \in SUBSET Capabilities
  PROVE  Sound(leafWork(id, <<>>, caps), caps)
<1> DEFINE none == <<>>
<1>1. none \in Seq(caps)
  BY EmptySeq
<1> HIDE DEF none
<1>2. Sound(leafWork(id, none, caps), caps)
  BY <1>1, LeafSound
<1>3. QED
  BY <1>2 DEF none

(* Every way out of the default case returns a sound work.                 *)
LEMMA OperationSound ==
  ASSUME NEW id, NEW caps \in SUBSET Capabilities
  PROVE  Sound(operationWork(id, caps), caps)
BY PlainSound, RefutedSound DEF operationWork

(* Every way out of the instantiate case returns a sound work: the         *)
(* capability it puts in for "$cap" is bound.                              *)
LEMMA InstantiateSound ==
  ASSUME NEW args \in Seq(Exprs), NEW caps \in SUBSET Capabilities, NEW rs
  PROVE  Sound(instantiateWork(args, caps, rs), caps)
<1> DEFINE w == instantiateWork(args, caps, rs)
           id == args[1].name
           capability == args[2].name
           with == <<capability>>
<1>1. \/ w = refutedWork
      \/ Len(args) = 2 /\ w = capabilityUnknown(capability)
      \/ /\ id \in DOMAIN Operations /\ capability \in caps
         /\ w = leafWork(id, with, caps)
  BY DEF instantiateWork
<1> HIDE DEF w, id, capability, with
<1>2. CASE w = refutedWork
  BY <1>2, RefutedSound DEF w
<1>3. CASE Len(args) = 2 /\ w = capabilityUnknown(capability)
  <2>1. capability \in Text
    BY <1>3, ArgumentNames DEF capability
  <2>2. QED
    BY <1>3, <2>1, UnknownSound DEF w
<1>4. CASE /\ id \in DOMAIN Operations /\ capability \in caps
           /\ w = leafWork(id, with, caps)
  <2>1. with \in Seq(caps)
    BY <1>4, Singleton DEF with
  <2>2. Sound(leafWork(id, with, caps), caps)
    BY <1>4, <2>1, LeafSound
  <2>3. QED
    BY <1>4, <2>2 DEF w
<1>5. QED
  BY <1>1, <1>2, <1>3, <1>4

(* Every way out of the stage_escape case returns a sound work.            *)
LEMMA StageEscapeSound ==
  ASSUME NEW args \in Seq(Exprs), NEW caps \in SUBSET Capabilities, NEW rs
  PROVE  Sound(stageEscapeWork(args, caps, rs), caps)
<1> DEFINE id == args[1].name
           leaf == leafWork(id, <<>>, caps)
<1>1. \/ stageEscapeWork(args, caps, rs) = refutedWork
      \/ id \in DOMAIN Operations /\ stageEscapeWork(args, caps, rs) = leaf
  BY DEF stageEscapeWork
<1>2. id \in DOMAIN Operations => Sound(leaf, caps)
  BY PlainSound
<1>3. QED
  BY <1>1, <1>2, RefutedSound

(* Every way out of the origin_capture case returns a sound work.          *)
LEMMA OriginCaptureSound ==
  ASSUME NEW args \in Seq(Exprs), NEW caps \in SUBSET Capabilities, NEW rs
  PROVE  Sound(originCaptureWork(args, caps, rs), caps)
<1> DEFINE id == args[1].name
           leaf == leafWork(id, <<>>, caps)
<1>1. \/ originCaptureWork(args, caps, rs) = refutedWork
      \/ id \in DOMAIN Operations /\ originCaptureWork(args, caps, rs) = leaf
  BY DEF originCaptureWork
<1>2. id \in DOMAIN Operations => Sound(leaf, caps)
  BY PlainSound
<1>3. QED
  BY <1>1, <1>2, RefutedSound

-----------------------------------------------------------------------------
(* replay: a sound work and one more step.                                 *)

(* What the step of the replay constructor needs and does.                 *)
LEMMA ReplayStepFacts ==
  /\ replayStep \in PlanStep
  /\ StepRequires(replayStep) = {"replay.fixture"}
  /\ StepEffects(replayStep) = {"replay.verify"}
  /\ StepStage(replayStep) = 0
  /\ replayStep.operation = "replay" /\ replayStep.capability = "replay.fixture"
BY DEF replayStep, PlanStep, StepRequires, StepEffects, StepStage, Text

(* What replay adds to a sound typing leaves it sound, once replay.fixture *)
(* is bound.                                                               *)
LEMMA ReplayTyping ==
  ASSUME NEW typed \in Typing, NEW caps, SoundTyping(typed, caps),
         "replay.fixture" \in caps
  PROVE  LET more == [typed EXCEPT !.effects  = union(@, <<"replay.verify">>),
                                   !.required = union(@, <<"replay.fixture">>),
                                   !.plan     = Append(@, replayStep),
                                   !.replay   = TRUE]
         IN  more \in Typing /\ SoundTyping(more, caps)
<1> DEFINE e0 == typed.effects
           r0 == typed.required
           p0 == typed.plan
           e1 == <<"replay.verify">>
           r1 == <<"replay.fixture">>
           p1 == <<replayStep>>
           es == union(e0, e1)
           rs == union(r0, r1)
           ps == Append(p0, replayStep)
           more == [typed EXCEPT !.effects = es, !.required = rs, !.plan = ps,
                                 !.replay = TRUE]
<1>1. e0 \in Seq(Text) /\ r0 \in Seq(Text) /\ p0 \in Seq(PlanStep)
  BY DEF Typing
<1>2. e1 \in Seq(Text) /\ Range(e1) = {"replay.verify"}
  BY Singleton DEF Text
<1>3. r1 \in Seq(Text) /\ Range(r1) = {"replay.fixture"}
  BY Singleton DEF Text
<1>4. p1 \in Seq(PlanStep) /\ Range(p1) = {replayStep}
  BY Singleton, ReplayStepFacts
<1>5. ps = p0 \o p1
  BY <1>1, ReplayStepFacts, AppendIsConcat
<1> HIDE DEF e0, r0, p0, e1, r1, p1
<1>6. es \in Seq(Text) /\ Range(es) = Range(e0) \cup {"replay.verify"}
  BY <1>1, <1>2, UnionLemma
<1>7. rs \in Seq(Text) /\ Range(rs) = Range(r0) \cup {"replay.fixture"}
  BY <1>1, <1>3, UnionLemma
<1>8. ps \in Seq(PlanStep) /\ Range(ps) = Range(p0) \cup {replayStep}
  BY <1>1, <1>4, <1>5, ConcatProperties, RangeConcatenation
<1>9. DisjointSteps(ps)
  <2>1. DisjointSteps(p0)
    BY DEF SoundTyping, p0
  <2>2. DisjointSteps(p1)
    BY DEF DisjointSteps, p1
  <2>3. /\ Len(p0) \in Nat /\ DOMAIN p0 = 1 .. Len(p0) /\ DOMAIN ps = 1 .. Len(p0) + 1
        /\ \A i \in 1 .. Len(p0) : ps[i] = p0[i]
        /\ ps[Len(p0) + 1] = replayStep
    BY <1>1, ReplayStepFacts, AppendProperties, LenProperties
  <2>4. ASSUME NEW i \in DOMAIN ps, ps[i].operation # "replay"
        PROVE  i \in DOMAIN p0 /\ ps[i] = p0[i]
    BY <2>3, <2>4, ReplayStepFacts
  <2> HIDE DEF ps
  <2>5. QED
    BY <2>1, <2>4, Zenon DEF DisjointSteps
<1> HIDE DEF es, rs, ps
<1>10. more \in Typing
  BY <1>6, <1>7, <1>8 DEF Typing
<1>11. /\ more.required = rs /\ more.effects = es /\ more.plan = ps
       /\ more.stage = typed.stage /\ more.input = typed.input /\ more.output = typed.output
       /\ more.pre = typed.pre /\ more.post = typed.post
  BY DEF Typing
<1> HIDE DEF more
<1>12. Range(more.required) \subseteq caps
  BY <1>7, <1>11 DEF SoundTyping, r0
<1>13. ASSUME NEW step \in Range(more.plan)
       PROVE  /\ StepRequires(step) \cup ({step.capability} \ {""}) \subseteq caps
              /\ StepStage(step) <= more.stage
  <2>1. CASE step = replayStep
    <3>1. typed.stage \in Nat
      BY DEF Typing
    <3>2. StepStage(step) <= more.stage
      BY <1>11, <2>1, <3>1, ReplayStepFacts
    <3>3. QED
      BY <2>1, <3>2, ReplayStepFacts
  <2>2. CASE step \in Range(p0)
    BY <1>11, <2>2 DEF SoundTyping, p0
  <2>3. QED
    BY <1>8, <1>11, <2>1, <2>2
<1>14. Range(more.effects) = UNION {StepEffects(step) : step \in Range(more.plan)}
  <2>1. Range(e0) = UNION {StepEffects(step) : step \in Range(p0)}
    BY DEF SoundTyping, e0, p0
  <2>2. QED
    BY <1>6, <1>8, <1>11, <2>1, ReplayStepFacts
<1>15. SoundTyping(more, caps)
  <2>1. Chained(more)
    <3>1. Chained(typed) /\ typed.plan \in Seq(PlanStep)
      BY DEF SoundTyping, Typing
    <3>2. QED
      BY <1>11, <3>1, ChainAndReplay DEF ps, p0
  <2>2. QED
    BY <1>9, <1>11, <1>12, <1>13, <1>14, <2>1 DEF SoundTyping
<1>16. QED
  BY <1>10, <1>15 DEF more, es, rs, ps, e0, r0, p0, e1, r1

(* Every way out of the replay case returns a sound work.                  *)
LEMMA ReplaySound ==
  ASSUME NEW result, NEW caps, NEW rs, Sound(result, caps), "replay.fixture" \in caps
  PROVE  Sound(replayWork(result, rs), caps)
<1>1. CASE result.decision # "CLOSED" \/ "replay" \notin rs
  BY <1>1, RefutedSound DEF replayWork
<1>2. CASE result.decision = "CLOSED" /\ "replay" \in rs
  <2> DEFINE typed == result.typed
             more == [typed EXCEPT !.effects  = union(@, <<"replay.verify">>),
                                   !.required = union(@, <<"replay.fixture">>),
                                   !.plan     = Append(@, replayStep),
                                   !.replay   = TRUE]
  <2>1. typed \in Typing /\ SoundTyping(typed, caps)
    BY <1>2 DEF Sound, SoundWork, Work
  <2>2. replayWork(result, rs) = closedWork(more)
    BY <1>2 DEF replayWork
  <2> HIDE DEF typed
  <2>3. more \in Typing /\ SoundTyping(more, caps)
    BY <2>1, ReplayTyping
  <2> HIDE DEF more
  <2>4. QED
    BY <2>2, <2>3, ClosedSound
<1>3. QED
  BY <1>1, <1>2

-----------------------------------------------------------------------------
(* The steps of TypecheckCase.                                             *)

Inv == TypeOK /\ SoundState

(* What checkExpression leaves alone.                                      *)
Local == UNCHANGED <<caseDecl, rules, verdict, proof>>

-----------------------------------------------------------------------------
(* The innermost call.                                                     *)
LEMMA TopFacts ==
  ASSUME Inv, stack # <<>>
  PROVE  /\ Len(stack) \in Nat \ {0} /\ DOMAIN stack = 1 .. Len(stack)
         /\ Top \in FrameType /\ Top.expr.args \in Seq(Exprs)
         /\ Top.caps \in SUBSET Capabilities
         /\ \A i \in DOMAIN Top.works : Sound(Top.works[i], Top.caps)
<1> DEFINE n == Len(stack)
<1>1. n \in Nat \ {0} /\ DOMAIN stack = 1 .. n /\ stack \in Seq(FrameType)
  BY EmptySeq, LenProperties DEF Inv, TypeOK
<1>2. n \in 1 .. n
  BY <1>1
<1>3. Top \in FrameType
  BY <1>1, <1>2, ElementOfSeq DEF Top
<1>4. Top.expr \in Exprs /\ Top.caps \in SUBSET Capabilities /\ Top.works \in Seq(Work)
  BY <1>3 DEF FrameType
<1>5. Top.expr.args \in Seq(Exprs)
  BY <1>4, ExprsAssumption DEF Expr
<1>6. ASSUME NEW i \in DOMAIN Top.works PROVE Sound(Top.works[i], Top.caps)
  <2>1. Top.works[i] \in Work
    BY <1>4, LenProperties
  <2>2. SoundWork(Top.works[i], Top.caps)
    BY <1>1, <1>2 DEF Top, Inv, SoundState, SoundCalls
  <2>3. QED
    BY <2>1, <2>2 DEF Sound
<1>7. QED
  BY <1>1, <1>3, <1>4, <1>5, <1>6

(* The part of Inv that a step of checkExpression does not disturb.        *)
LEMMA LocalFacts ==
  ASSUME Inv, Local
  PROVE  /\ caseDecl' \in CaseDecls /\ rules' \in RuleSets
         /\ verdict' \in Decisions \cup {"pending", "error"}
         /\ proof' \in Proof \cup {NoProof}
         /\ SoundProof' /\ (Declared <=> Declared')
BY DEF Inv, Local, TypeOK, SoundState, SoundProof, Declared, Closed, SoundWork, SoundTyping

-----------------------------------------------------------------------------
(* A call with the capabilities of its caller, or with fewer.              *)
LEMMA CallPreserves ==
  ASSUME Inv, Local, Declared, NEW expr \in Exprs, NEW caps \in SUBSET Capabilities,
         caps \subseteq (IF stack = <<>> THEN caseDecl.bound ELSE Top.caps),
         Call(expr, caps)
  PROVE  Inv'
<1> DEFINE n == Len(stack)
           none == <<>>
           frame == [expr |-> expr, caps |-> caps, works |-> none]
<1>1. stack \in Seq(FrameType)
  BY DEF Inv, TypeOK
<1>2. none \in Seq(Work) /\ DOMAIN none = {}
  BY EmptySeq
<1>3. stack' = Append(stack, frame) /\ work' = work /\ caseDecl' = caseDecl
  BY DEF Call, Local
<1> HIDE DEF none
<1>4. frame \in FrameType
  BY <1>2 DEF FrameType
<1>5. frame.caps = caps /\ DOMAIN frame.works = {}
  BY <1>2
<1> HIDE DEF frame
<1>6. /\ n \in Nat /\ DOMAIN stack = 1 .. n
      /\ stack' \in Seq(FrameType) /\ DOMAIN stack' = 1 .. n + 1
      /\ \A k \in 1 .. n : stack'[k] = stack[k]
      /\ stack'[n + 1] = frame
  BY <1>1, <1>3, <1>4, AppendProperties, LenProperties
<1>7. TypeOK'
  BY <1>3, <1>6, LocalFacts DEF Inv, TypeOK
<1>8. ASSUME NEW k \in DOMAIN stack'
      PROVE  /\ stack'[k].caps \subseteq CallerCaps(k)'
             /\ \A i \in DOMAIN stack'[k].works : SoundWork(stack'[k].works[i], stack'[k].caps)
  <2>1. CASE k \in 1 .. n
    <3>1. stack'[k] = stack[k] /\ (k # 1 => stack'[k - 1] = stack[k - 1])
      BY <1>6, <2>1
    <3>2. CallerCaps(k)' = CallerCaps(k)
      BY <1>3, <3>1 DEF CallerCaps
    <3>3. /\ stack[k].caps \subseteq CallerCaps(k)
          /\ \A i \in DOMAIN stack[k].works : SoundWork(stack[k].works[i], stack[k].caps)
      BY <1>6, <2>1 DEF Inv, SoundState, SoundCalls
    <3>4. QED
      BY <3>1, <3>2, <3>3
  <2>2. CASE k = n + 1
    <3>1. stack'[k].caps = caps /\ DOMAIN stack'[k].works = {}
      BY <1>5, <1>6, <2>2
    <3>2. CASE n = 0
      <4>1. stack = <<>> /\ CallerCaps(k)' = caseDecl.bound
        BY <1>1, <1>3, <2>2, <3>2, EmptySeq DEF CallerCaps
      <4>2. QED
        BY <3>1, <4>1
    <3>3. CASE n # 0
      <4>1. stack # <<>>
        BY <3>3, EmptySeq
      <4>2. k # 1 /\ k - 1 = n /\ n \in 1 .. n
        BY <1>6, <2>2, <3>3
      <4>3. CallerCaps(k)' = stack[n].caps
        BY <1>6, <4>2 DEF CallerCaps
      <4>4. QED
        BY <3>1, <4>1, <4>3 DEF Top
    <3>4. QED
      BY <3>2, <3>3
  <2>3. QED
    BY <1>6, <2>1, <2>2
<1>9. SoundCalls'
  BY <1>8 DEF SoundCalls
<1>10. work' # NoWork => SoundWork(work, caseDecl.bound)'
  BY <1>3 DEF Inv, SoundState, SoundWork, SoundTyping
<1>11. QED
  BY <1>7, <1>9, <1>10, LocalFacts DEF Inv, SoundState

(* What a return does to the stack: the outermost call ends, or the caller *)
(* gets the result.                                                        *)
Given(result, m, l) ==
  /\ stack' \in Seq(FrameType) /\ DOMAIN stack' = 1 .. m
  /\ \A k \in 1 .. m : k # m => stack'[k] = stack[k]
  /\ stack'[m].expr = stack[m].expr /\ stack'[m].caps = stack[m].caps
  /\ l \in Nat /\ DOMAIN stack[m].works = 1 .. l /\ DOMAIN stack'[m].works = 1 .. l + 1
  /\ \A i \in 1 .. l : stack'[m].works[i] = stack[m].works[i]
  /\ stack'[m].works[l + 1] = result
  /\ work' = work

Returned(result, n, m) ==
  /\ n \in Nat \ {0} /\ n \in 1 .. n /\ DOMAIN stack = 1 .. n
  /\ n = 1 => stack' = <<>> /\ work' = result
  /\ n # 1 => /\ m \in Nat /\ m \in 1 .. m /\ m + 1 = n /\ 1 .. m \subseteq 1 .. n
              /\ Given(result, m, Len(stack[m].works))

LEMMA ReturnFacts ==
  ASSUME Inv, stack # <<>>, NEW result \in Work, Return(result),
         NEW n, n = Len(stack), NEW m, m = n - 1
  PROVE  Returned(result, n, m)
<1> DEFINE callers == SubSeq(stack, 1, n - 1)
<1>1. /\ n \in Nat \ {0} /\ DOMAIN stack = 1 .. n /\ n \in 1 .. n
      /\ stack \in Seq(FrameType)
  BY TopFacts DEF Inv, TypeOK
<1>2. /\ callers \in Seq(FrameType) /\ Len(callers) = n - 1
      /\ \A k \in 1 .. n - 1 : callers[k] = stack[k]
  <2>1. \A k \in 1 .. n - 1 : stack[k] \in FrameType
    BY <1>1, ElementOfSeq
  <2>2. n - 1 \in Int /\ 1 \in Int
    BY <1>1
  <2>3. /\ SubSeq(stack, 1, n - 1) \in Seq(FrameType)
        /\ Len(SubSeq(stack, 1, n - 1)) = IF 1 <= n - 1 THEN n - 1 - 1 + 1 ELSE 0
        /\ \A k \in 1 .. n - 1 - 1 + 1 : SubSeq(stack, 1, n - 1)[k] = stack[1 + k - 1]
    BY <2>1, <2>2, SubSeqProperties
  <2>4. QED
    BY <1>1, <2>3
<1>3. CASE n = 1
  <2>1. callers = <<>>
    BY <1>2, <1>3, EmptySeq
  <2>2. stack' = <<>> /\ work' = result
    BY <2>1 DEF Return
  <2>3. QED
    BY <1>1, <1>3, <2>2 DEF Returned
<1>4. CASE n # 1
  <2> DEFINE grown == Append(callers[m].works, result)
             caller == [callers[m] EXCEPT !.works = grown]
  <2>1. m \in 1 .. m /\ m \in Nat /\ m + 1 = n /\ m # 0 /\ 1 .. m \subseteq 1 .. n
    BY <1>1, <1>4
  <2>2. callers # <<>> /\ Len(callers) = m
    <3>1. Len(callers) = m
      BY <1>2
    <3> HIDE DEF callers
    <3>2. QED
      BY <2>1, <3>1, EmptySeq
  <2>3. stack' = [callers EXCEPT ![m] = caller] /\ work' = work
    BY <2>2 DEF Return
  <2>4. stack[m] \in FrameType /\ callers[m] = stack[m]
    BY <1>1, <1>2, <2>1, ElementOfSeq
  <2>5. /\ grown \in Seq(Work)
        /\ DOMAIN stack[m].works = 1 .. Len(stack[m].works)
        /\ Len(stack[m].works) \in Nat
        /\ DOMAIN grown = 1 .. Len(stack[m].works) + 1
        /\ \A i \in 1 .. Len(stack[m].works) : grown[i] = stack[m].works[i]
        /\ grown[Len(stack[m].works) + 1] = result
    <3> DEFINE old == stack[m].works
    <3>1. old \in Seq(Work)
      BY <2>4 DEF FrameType
    <3>2. grown = Append(old, result)
      BY <2>4
    <3> HIDE DEF old, grown
    <3>3. QED
      BY <3>1, <3>2, AppendProperties, LenProperties DEF old
  <2>6. /\ caller \in FrameType /\ caller.expr = stack[m].expr
        /\ caller.caps = stack[m].caps /\ caller.works = grown
    <3> HIDE DEF grown
    <3>1. QED
      BY <2>4, <2>5 DEF FrameType
  <2> HIDE DEF caller, grown
  <2>7. /\ stack' \in Seq(FrameType) /\ DOMAIN stack' = 1 .. m
        /\ \A k \in 1 .. m : stack'[k] = IF k = m THEN caller ELSE stack[k]
    <3> DEFINE st == callers
               st2 == [st EXCEPT ![m] = caller]
    <3>1. st \in Seq(FrameType) /\ Len(st) = m /\ m \in 1 .. Len(st)
      BY <1>2, <2>1
    <3> HIDE DEF st
    <3>2. /\ st2 \in Seq(FrameType) /\ Len(st2) = Len(st)
          /\ \A j \in 1 .. Len(st) : st2[j] = IF j = m THEN caller ELSE st[j]
      BY <2>6, <3>1, ExceptSeq
    <3>3. stack' = st2
      BY <2>3 DEF st
    <3> HIDE DEF st2
    <3>4. QED
      BY <1>2, <3>1, <3>2, <3>3, LenProperties DEF st
  <2>8. stack'[m] = caller
    BY <2>1, <2>7
  <2>9. \A k \in 1 .. m : k # m => stack'[k] = stack[k]
    BY <2>7
  <2>10. QED
    BY <1>1, <1>4, <2>1, <2>3, <2>5, <2>6, <2>7, <2>8, <2>9 DEF Returned, Given
<1>5. QED
  BY <1>3, <1>4

(* A return of a work that is sound for the capabilities of its call.      *)
LEMMA ReturnPreserves ==
  ASSUME Inv, Local, stack # <<>>, NEW result, Sound(result, Top.caps), Return(result)
  PROVE  Inv'
<1> DEFINE n == Len(stack)
           m == n - 1
<1>1. /\ n \in Nat \ {0} /\ DOMAIN stack = 1 .. n /\ n \in 1 .. n
  BY TopFacts
<1>2. Sound(result, CallerCaps(n)) /\ result \in Work
  <2>1. Top.caps \subseteq CallerCaps(n)
    BY <1>1 DEF Inv, SoundState, SoundCalls, Top
  <2>2. QED
    BY <2>1, SoundMonotone DEF Sound
<1>3. result # NoWork
  BY <1>2 DEF Work, NoWork, Decisions
<1>4. Declared
  BY DEF Inv, SoundState
<1>5. Returned(result, n, m)
  BY <1>2, ReturnFacts
<1>6. caseDecl' = caseDecl
  BY DEF Local
<1>7. CASE n = 1
  <2>2. stack' = <<>> /\ work' = result
    BY <1>7, <1>5 DEF Returned
  <2>3. TypeOK'
    BY <1>2, <2>2, LocalFacts, EmptySeq DEF TypeOK
  <2>4. SoundCalls'
    <3>1. DOMAIN stack' = {}
      BY <2>2
    <3>2. QED
      BY <3>1 DEF SoundCalls
  <2>5. SoundWork(work, caseDecl.bound)'
    <3>1. SoundWork(result, caseDecl.bound)
      BY <1>2, <1>7 DEF Sound, CallerCaps
    <3>2. QED
      BY <1>6, <2>2, <3>1 DEF SoundWork, SoundTyping
  <2>6. QED
    BY <1>4, <2>3, <2>4, <2>5, LocalFacts DEF Inv, SoundState
<1>8. CASE n # 1
  <2> DEFINE grown == stack'[m].works
             l == Len(stack[m].works)
  <2>1. /\ m \in 1 .. m /\ m \in Nat /\ m + 1 = n
        /\ Given(result, m, l)
    BY <1>8, <1>5 DEF Returned
  <2>3. 1 .. m \subseteq 1 .. n
    BY <1>8, <1>5 DEF Returned
  <2>2. work' = work
    BY <2>1 DEF Given
  <2>4. /\ DOMAIN stack[m].works = 1 .. l /\ l \in Nat
        /\ DOMAIN grown = 1 .. l + 1
        /\ \A i \in 1 .. l : grown[i] = stack[m].works[i]
        /\ grown[l + 1] = result
    BY <2>1 DEF Given
  <2>5. stack'[m].caps = stack[m].caps
    BY <2>1 DEF Given
  <2>6. /\ stack' \in Seq(FrameType) /\ DOMAIN stack' = 1 .. m
        /\ \A k \in 1 .. m : k # m => stack'[k] = stack[k]
    BY <2>1 DEF Given
  <2> HIDE DEF grown, l
  <2>7. TypeOK'
    BY <2>2, <2>6, LocalFacts DEF Inv, TypeOK
  <2>8. ASSUME NEW k \in DOMAIN stack'
        PROVE  /\ stack'[k].caps = stack[k].caps
               /\ CallerCaps(k)' = CallerCaps(k)
               /\ \A i \in DOMAIN stack'[k].works : SoundWork(stack'[k].works[i], stack[k].caps)
    <3>1. k \in 1 .. m /\ k \in 1 .. n
      BY <2>6, <2>3
    <3>2. stack'[k].caps = stack[k].caps
      BY <2>5, <2>6, <3>1
    <3>3. CallerCaps(k)' = CallerCaps(k)
      <4>1. CASE k = 1
        BY <1>6, <4>1 DEF CallerCaps
      <4>2. CASE k # 1
        <5>1. k - 1 \in 1 .. m /\ k - 1 # m
          BY <2>1, <3>1, <4>2
        <5>2. stack'[k - 1] = stack[k - 1]
          BY <2>6, <5>1
        <5>3. QED
          BY <4>2, <5>2 DEF CallerCaps
      <4>3. QED
        BY <4>1, <4>2
    <3>4. \A i \in DOMAIN stack[k].works : SoundWork(stack[k].works[i], stack[k].caps)
      BY <1>1, <3>1 DEF Inv, SoundState, SoundCalls
    <3>5. ASSUME NEW i \in DOMAIN stack'[k].works
          PROVE  SoundWork(stack'[k].works[i], stack[k].caps)
      <4>1. CASE k # m
        <5>1. stack'[k] = stack[k]
          BY <2>6, <3>1, <4>1
        <5>2. QED
          BY <3>4, <5>1
      <4>2. CASE k = m
        <5>1. stack'[k].works = grown
          BY <4>2 DEF grown
        <5>2. CASE i \in DOMAIN stack[k].works
          BY <2>4, <3>4, <4>2, <5>1, <5>2
        <5>3. CASE i \notin DOMAIN stack[k].works
          <6>1. grown[i] = result
            BY <2>4, <4>2, <5>1, <5>3
          <6>2. CallerCaps(n) = stack[k].caps
            BY <1>1, <1>8, <2>1, <4>2 DEF CallerCaps
          <6>3. QED
            BY <1>2, <5>1, <6>1, <6>2 DEF Sound
        <5>4. QED
          BY <5>2, <5>3
      <4>3. QED
        BY <4>1, <4>2
    <3>6. QED
      BY <3>2, <3>3, <3>5
  <2>9. SoundCalls'
    <3>1. ASSUME NEW k \in DOMAIN stack'
          PROVE  /\ stack'[k].caps \subseteq CallerCaps(k)'
                 /\ \A i \in DOMAIN stack'[k].works :
                      SoundWork(stack'[k].works[i], stack'[k].caps)
      <4>1. k \in DOMAIN stack
        BY <1>1, <2>6, <2>3
      <4>2. stack[k].caps \subseteq CallerCaps(k)
        BY <4>1 DEF Inv, SoundState, SoundCalls
      <4>3. QED
        BY <2>8, <4>2
    <3>2. QED
      BY <3>1 DEF SoundCalls
  <2>10. work' # NoWork => SoundWork(work, caseDecl.bound)'
    BY <1>6, <2>2 DEF Inv, SoundState, SoundWork, SoundTyping
  <2>11. QED
    BY <1>4, <2>7, <2>9, <2>10, LocalFacts DEF Inv, SoundState
<1>9. QED
  BY <1>7, <1>8

-----------------------------------------------------------------------------
(* The invariant holds initially and every action preserves it.            *)
LEMMA InitInv == Init => Inv
<1>1. SUFFICES ASSUME Init PROVE Inv
  OBVIOUS
<1>2. TypeOK
  BY <1>1, EmptySeq DEF Init, TypeOK
<1>3. SoundState
  BY <1>1 DEF Init, SoundState, SoundCalls, SoundProof, Decisions
<1>4. QED
  BY <1>2, <1>3 DEF Inv

(* A step of checkExpression is local.                                     *)
LEMMA CheckingLocal ==
  ASSUME NEW constructor, Checking(constructor)
  PROVE  Local /\ stack # <<>>
BY DEF Checking, Local

(* One lemma for each action of Typecheck, the first for the early returns *)
(* of TypecheckCase.                                                       *)
LEMMA RejectCasePreserves == Inv /\ RejectCase => Inv'
<1>1. SUFFICES ASSUME Inv, RejectCase PROVE Inv'
  OBVIOUS
<1>2. /\ stack = <<>> /\ work = NoWork /\ verdict' = "error"
      /\ caseDecl' = caseDecl /\ rules' = rules
      /\ stack' = stack /\ work' = work /\ proof' = proof
  BY <1>1 DEF RejectCase, Starting
<1>3. TypeOK'
  BY <1>1, <1>2 DEF Inv, TypeOK
<1>4. SoundState'
  BY <1>2 DEF SoundState, SoundCalls, SoundProof, Decisions
<1>5. QED
  BY <1>3, <1>4 DEF Inv

(* The outermost call has the capabilities of the case.                    *)
LEMMA StartCasePreserves == Inv /\ StartCase => Inv'
<1>1. SUFFICES ASSUME Inv, StartCase PROVE Inv'
  OBVIOUS
<1>2. /\ stack = <<>> /\ Declared /\ Local
      /\ Call(caseDecl.expression, caseDecl.bound)
  BY <1>1 DEF StartCase, Starting, Local
<1>3. caseDecl.expression \in Exprs
  BY <1>1, CasesAssumption DEF Inv, TypeOK, CaseDecl
<1>4. caseDecl.bound \in SUBSET Capabilities
  BY <1>2 DEF Declared
<1>5. QED
  BY <1>1, <1>2, <1>3, <1>4, CallPreserves

(* compose checks both arguments with its own capabilities.                *)
LEMMA CheckComposePreserves == Inv /\ CheckCompose => Inv'
<1>1. SUFFICES ASSUME Inv, CheckCompose PROVE Inv'
  OBVIOUS
<1> DEFINE args == Top.expr.args
<1>2. Local /\ stack # <<>>
  BY <1>1, CheckingLocal DEF CheckCompose
<1>3. args \in Seq(Exprs) /\ Top.caps \in SUBSET Capabilities /\ Top \in FrameType
  BY <1>1, <1>2, TopFacts
<1>4. CASE Return(refutedWork)
  BY <1>1, <1>2, <1>4, ReturnPreserves, RefutedSound
<1>5. CASE /\ Len(args) = 2 /\ Len(Top.works) < 2
           /\ Call(args[Len(Top.works) + 1], Top.caps)
  <2> DEFINE expr == args[Len(Top.works) + 1]
  <2>1. Len(Top.works) \in Nat
    BY <1>3, LenProperties DEF FrameType
  <2>2. Len(Top.works) + 1 \in 1 .. Len(args)
    BY <1>5, <2>1
  <2>3. expr \in Exprs
    BY <1>3, <2>2, ElementOfSeq
  <2>4. Declared
    BY <1>1, <1>2 DEF Inv, SoundState
  <2> HIDE DEF expr
  <2>5. Call(expr, Top.caps)
    BY <1>5 DEF expr
  <2>6. QED
    BY <1>1, <1>2, <1>3, <2>3, <2>4, <2>5, CallPreserves
<1>6. CASE /\ Len(Top.works) = 2
           /\ Return(composeWork(Top.works[1], Top.works[2], rules))
  <2> DEFINE left == Top.works[1]
             right == Top.works[2]
  <2>1. 1 \in DOMAIN Top.works /\ 2 \in DOMAIN Top.works
    BY <1>3, <1>6, LenProperties DEF FrameType
  <2>2. Sound(left, Top.caps) /\ Sound(right, Top.caps)
    BY <1>1, <1>2, <2>1, TopFacts
  <2>3. Sound(composeWork(left, right, rules), Top.caps)
    BY <2>2, ComposeSound
  <2>4. QED
    BY <1>1, <1>2, <1>6, <2>3, ReturnPreserves
<1>7. QED
  BY <1>1, <1>4, <1>5, <1>6 DEF CheckCompose

(* instantiate returns at once.                                            *)
LEMMA CheckInstantiatePreserves == Inv /\ CheckInstantiate => Inv'
<1>1. SUFFICES ASSUME Inv, CheckInstantiate PROVE Inv'
  OBVIOUS
<1>2. /\ Local /\ stack # <<>>
      /\ Return(instantiateWork(Top.expr.args, Top.caps, rules))
  BY <1>1, CheckingLocal DEF CheckInstantiate
<1>3. Sound(instantiateWork(Top.expr.args, Top.caps, rules), Top.caps)
  BY <1>1, <1>2, TopFacts, InstantiateSound
<1>4. QED
  BY <1>1, <1>2, <1>3, ReturnPreserves

(* stage_escape returns at once.                                           *)
LEMMA CheckStageEscapePreserves == Inv /\ CheckStageEscape => Inv'
<1>1. SUFFICES ASSUME Inv, CheckStageEscape PROVE Inv'
  OBVIOUS
<1>2. /\ Local /\ stack # <<>>
      /\ Return(stageEscapeWork(Top.expr.args, Top.caps, rules))
  BY <1>1, CheckingLocal DEF CheckStageEscape
<1>3. Sound(stageEscapeWork(Top.expr.args, Top.caps, rules), Top.caps)
  BY <1>1, <1>2, TopFacts, StageEscapeSound
<1>4. QED
  BY <1>1, <1>2, <1>3, ReturnPreserves

(* origin_capture returns at once.                                         *)
LEMMA CheckOriginCapturePreserves == Inv /\ CheckOriginCapture => Inv'
<1>1. SUFFICES ASSUME Inv, CheckOriginCapture PROVE Inv'
  OBVIOUS
<1>2. /\ Local /\ stack # <<>>
      /\ Return(originCaptureWork(Top.expr.args, Top.caps, rules))
  BY <1>1, CheckingLocal DEF CheckOriginCapture
<1>3. Sound(originCaptureWork(Top.expr.args, Top.caps, rules), Top.caps)
  BY <1>1, <1>2, TopFacts, OriginCaptureSound
<1>4. QED
  BY <1>1, <1>2, <1>3, ReturnPreserves

(* The work of the argument, checked without capabilities, is sound for    *)
(* the capabilities of the call as well: it has none to lose.              *)
LEMMA CheckUnboundPreserves == Inv /\ CheckUnbound => Inv'
<1>1. SUFFICES ASSUME Inv, CheckUnbound PROVE Inv'
  OBVIOUS
<1> DEFINE args == Top.expr.args
<1>2. Local /\ stack # <<>>
  BY <1>1, CheckingLocal DEF CheckUnbound
<1>3. args \in Seq(Exprs) /\ Top \in FrameType
  BY <1>1, <1>2, TopFacts
<1>4. CASE Return(refutedWork)
  BY <1>1, <1>2, <1>4, ReturnPreserves, RefutedSound
<1>5. CASE Len(args) = 1 /\ Call(args[1], {})
  <2> DEFINE expr == args[1]
             none == {}
  <2>1. 1 \in 1 .. Len(args)
    BY <1>5
  <2>2. expr \in Exprs
    BY <1>3, <2>1, ElementOfSeq
  <2>3. Declared
    BY <1>1, <1>2 DEF Inv, SoundState
  <2>4. /\ none \in SUBSET Capabilities
        /\ none \subseteq (IF stack = <<>> THEN caseDecl.bound ELSE Top.caps)
    OBVIOUS
  <2>5. Call(expr, none)
    BY <1>5
  <2> HIDE DEF expr, none
  <2>6. QED
    BY <1>1, <1>2, <2>2, <2>3, <2>4, <2>5, CallPreserves
<1>6. CASE Top.works # <<>> /\ Return(Top.works[1])
  <2>1. 1 \in DOMAIN Top.works
    BY <1>3, <1>6, EmptySeq, LenProperties DEF FrameType
  <2>2. Sound(Top.works[1], Top.caps)
    BY <1>1, <1>2, <2>1, TopFacts
  <2>3. QED
    BY <1>1, <1>2, <1>6, <2>2, ReturnPreserves
<1>7. QED
  BY <1>1, <1>4, <1>5, <1>6 DEF CheckUnbound

(* replay checks its argument only if replay.fixture is bound.             *)
LEMMA CheckReplayPreserves == Inv /\ CheckReplay => Inv'
<1>1. SUFFICES ASSUME Inv, CheckReplay PROVE Inv'
  OBVIOUS
<1> DEFINE args == Top.expr.args
           result == Top.works[1]
<1>2. Local /\ stack # <<>>
  BY <1>1, CheckingLocal DEF CheckReplay
<1>3. /\ args \in Seq(Exprs) /\ Top \in FrameType /\ Top.caps \in SUBSET Capabilities
  BY <1>1, <1>2, TopFacts
<1>4. CASE Return(refutedWork)
  BY <1>1, <1>2, <1>4, ReturnPreserves, RefutedSound
<1>5. CASE Return(capabilityUnknown("replay.fixture"))
  <2>1. "replay.fixture" \in Text
    BY DEF Text
  <2>2. QED
    BY <1>1, <1>2, <1>5, <2>1, ReturnPreserves, UnknownSound
<1>6. CASE Len(args) = 1 /\ Call(args[1], Top.caps)
  <2> DEFINE expr == args[1]
  <2>1. 1 \in 1 .. Len(args)
    BY <1>6
  <2>2. expr \in Exprs
    BY <1>3, <2>1, ElementOfSeq
  <2>3. Declared
    BY <1>1, <1>2 DEF Inv, SoundState
  <2>4. Call(expr, Top.caps)
    BY <1>6
  <2> HIDE DEF expr
  <2>5. QED
    BY <1>1, <1>2, <1>3, <2>2, <2>3, <2>4, CallPreserves
<1>7. CASE /\ "replay.fixture" \in Top.caps /\ Top.works # <<>>
           /\ Return(replayWork(result, rules))
  <2>1. 1 \in DOMAIN Top.works
    BY <1>3, <1>7, EmptySeq, LenProperties DEF FrameType
  <2>2. Sound(result, Top.caps)
    BY <1>1, <1>2, <2>1, TopFacts
  <2>3. Sound(replayWork(result, rules), Top.caps)
    BY <1>7, <2>2, ReplaySound
  <2>4. QED
    BY <1>1, <1>2, <1>7, <2>3, ReturnPreserves
<1>8. QED
  BY <1>1, <1>4, <1>5, <1>6, <1>7 DEF CheckReplay

(* An operation returns at once.                                           *)
LEMMA CheckOperationPreserves == Inv /\ CheckOperation => Inv'
<1>1. SUFFICES ASSUME Inv, CheckOperation PROVE Inv'
  OBVIOUS
<1>2. /\ Local /\ stack # <<>>
      /\ Return(operationWork(Top.expr.name, Top.caps))
  BY <1>1, CheckingLocal DEF CheckOperation
<1>3. Sound(operationWork(Top.expr.name, Top.caps), Top.caps)
  BY <1>1, <1>2, TopFacts, OperationSound
<1>4. QED
  BY <1>1, <1>2, <1>3, ReturnPreserves

(* A work refuted by the target stage is sound whatever typing it keeps.   *)
LEMMA ConcludedFacts ==
  ASSUME NEW result \in Work, NEW target \in Nat, NEW caps, SoundWork(result, caps)
  PROVE  LET final == concluded(result, target)
         IN  /\ final \in Work /\ SoundWork(final, caps)
             /\ final.decision = "CLOSED" => final.typed.stage <= target
<1> DEFINE final == concluded(result, target)
<1>1. CASE result.decision = "CLOSED" /\ result.typed.stage > target
  <2>1. final = [result EXCEPT !.decision = "REFUTED"]
    BY <1>1 DEF concluded
  <2>2. final \in Work /\ final.decision = "REFUTED"
    BY <2>1 DEF Work, Decisions
  <2> HIDE DEF final
  <2>3. QED
    BY <2>2 DEF SoundWork, final
<1>2. CASE ~(result.decision = "CLOSED" /\ result.typed.stage > target)
  <2>1. final = result
    BY <1>2 DEF concluded
  <2>2. result.typed.stage \in Nat
    BY DEF Work, Typing
  <2>3. QED
    BY <1>2, <2>1, <2>2
<1>3. QED
  BY <1>1, <1>2

(* The proof that is issued is that of the work of the outermost call.     *)
LEMMA FinishCasePreserves == Inv /\ FinishCase => Inv'
<1>1. SUFFICES ASSUME Inv, FinishCase PROVE Inv'
  OBVIOUS
<1> DEFINE target == Stages[caseDecl.target]
           final  == concluded(work, target)
<1>2. /\ work # NoWork /\ caseDecl' = caseDecl /\ rules' = rules
      /\ stack' = stack /\ work' = work
  BY <1>1 DEF FinishCase, Finishing
<1>3. /\ Declared /\ SoundCalls /\ SoundWork(work, caseDecl.bound) /\ work \in Work
  BY <1>1, <1>2 DEF Inv, SoundState, TypeOK
<1>4. target \in Nat
  BY <1>3, DeclarationsAssumption DEF Declared
<1> HIDE DEF target
<1>5. /\ final \in Work /\ SoundWork(final, caseDecl.bound)
      /\ final.decision = "CLOSED" => final.typed.stage <= target
  BY <1>3, <1>4, ConcludedFacts
<1>6. PICK expected \in Expectations :
        IF accepted(final, expected)
        THEN verdict' = final.decision /\ proof' = ProofOf(final, expected, target)
        ELSE verdict' = "error" /\ UNCHANGED proof
  BY <1>1 DEF FinishCase, target
<1> HIDE DEF final
<1>7. expected.effects \in Seq(Text) /\ expected.post \in Text
  BY CasesAssumption DEF Expectation
<1>8. SoundCalls' /\ (Declared <=> Declared')
  BY <1>2, <1>3 DEF SoundCalls, CallerCaps, Declared
<1>9. SoundWork(work, caseDecl.bound)'
  BY <1>2, <1>3 DEF SoundWork, SoundTyping
<1>10. CASE accepted(final, expected)
  <2> DEFINE issued == ProofOf(final, expected, target)
  <2>1. verdict' = final.decision /\ proof' = issued
    BY <1>6, <1>10
  <2>2. /\ issued.decision = final.decision /\ issued.typed = final.typed
        /\ issued.unknown = final.unknown /\ issued.effects = expected.effects
        /\ issued.post = expected.post
        /\ issued.target = target
    BY DEF ProofOf
  <2>3. issued \in Proof
    BY <1>4, <1>5, <1>7 DEF ProofOf, Proof, Work
  <2>4. final.decision = "CLOSED" =>
          /\ expected.effects = final.typed.effects
          /\ expected.post = final.typed.post[Len(final.typed.post)]
    BY <1>5, <1>10 DEF accepted, SoundWork, SoundTyping
  <2>5. final.decision \in Decisions
    BY <1>5 DEF Work
  <2> HIDE DEF issued
  <2>6. SoundWork(issued, caseDecl.bound)
    BY <1>5, <2>2 DEF SoundWork
  <2>7. SoundProof'
    BY <1>2, <1>5, <2>1, <2>2, <2>3, <2>4, <2>6 DEF SoundProof, Closed, SoundWork, SoundTyping
  <2>8. TypeOK'
    BY <1>1, <1>2, <2>1, <2>3, <2>5 DEF Inv, TypeOK
  <2>9. QED
    BY <1>3, <1>8, <1>9, <2>7, <2>8 DEF Inv, SoundState
<1>11. CASE ~accepted(final, expected)
  <2>1. verdict' = "error" /\ proof' = proof
    BY <1>6, <1>11
  <2>2. TypeOK'
    BY <1>1, <1>2, <2>1 DEF Inv, TypeOK
  <2>3. SoundProof'
    BY <2>1 DEF SoundProof, Decisions
  <2>4. QED
    BY <1>3, <1>8, <1>9, <2>2, <2>3 DEF Inv, SoundState
<1>12. QED
  BY <1>10, <1>11

(* Inv is inductive.                                                       *)
LEMMA NextInv == Inv /\ [Next]_vars => Inv'
<1>1. SUFFICES ASSUME Inv, [Next]_vars PROVE Inv'
  OBVIOUS
<1>2. CASE UNCHANGED vars
  <2>1. /\ caseDecl' = caseDecl /\ rules' = rules /\ stack' = stack
        /\ work' = work /\ verdict' = verdict /\ proof' = proof
    BY <1>2 DEF vars
  <2>2. Local
    BY <2>1 DEF Local
  <2>3. TypeOK'
    BY <1>1, <2>1 DEF Inv, TypeOK
  <2>4. SoundCalls'
    BY <1>1, <2>1 DEF Inv, SoundState, SoundCalls, CallerCaps
  <2>5. work' # NoWork => SoundWork(work, caseDecl.bound)'
    BY <1>1, <2>1 DEF Inv, SoundState, SoundWork, SoundTyping
  <2>6. (stack' # <<>> \/ work' # NoWork) => Declared'
    BY <1>1, <2>1 DEF Inv, SoundState, Declared
  <2>7. QED
    BY <1>1, <2>2, <2>3, <2>4, <2>5, <2>6, LocalFacts DEF Inv, SoundState
<1>3. CASE Check
  BY <1>1, <1>3, CheckComposePreserves, CheckInstantiatePreserves,
     CheckStageEscapePreserves, CheckOriginCapturePreserves, CheckUnboundPreserves,
     CheckReplayPreserves, CheckOperationPreserves DEF Check
<1>4. CASE RejectCase \/ StartCase \/ FinishCase
  BY <1>1, <1>4, RejectCasePreserves, StartCasePreserves, FinishCasePreserves
<1>5. QED
  BY <1>1, <1>2, <1>3, <1>4 DEF Next, Typechecking, Finished

(* Inv is an invariant of TypecheckCase.                                   *)
LEMMA InvAlways == SafeSpec => []Inv
BY InitInv, NextInv, PTL DEF SafeSpec

-----------------------------------------------------------------------------
(* Every variable keeps its shape.                                         *)
THEOREM TypeCorrect == SafeSpec => []TypeOK
<1>1. Inv => TypeOK
  BY DEF Inv
<1>2. QED
  BY <1>1, InvAlways, PTL

(* What any call of checkExpression holds is sound for the capabilities of *)
(* that call.                                                              *)
THEOREM StateSound == SafeSpec => []SoundState
<1>1. Inv => SoundState
  BY DEF Inv
<1>2. QED
  BY <1>1, InvAlways, PTL

(* What Inv says of a CLOSED proof.                                        *)
LEMMA ClosedProof ==
  ASSUME Inv, Closed
  PROVE  /\ proof \in Proof /\ SoundTyping(proof.typed, caseDecl.bound)
         /\ proof.typed.stage <= proof.target /\ proof.effects = proof.typed.effects
         /\ proof.post = proof.typed.post[Len(proof.typed.post)]
BY DEF Inv, SoundState, SoundProof, SoundWork, Closed, Decisions

(* A CLOSED proof uses no capability that its case does not bind, however  *)
(* deep compose, replay, instantiate and unbound are nested.               *)
THEOREM CapabilitiesAreBound == SafeSpec => []CapabilitySafety
<1>1. Inv => CapabilitySafety
  BY ClosedProof DEF CapabilitySafety, SoundTyping, Plan
<1>2. QED
  BY <1>1, InvAlways, PTL

(* No step of a CLOSED proof belongs to a later stage than its target.     *)
THEOREM StagesAreReached == SafeSpec => []StageSafety
<1>1. ASSUME Inv, Closed, NEW step \in Range(Plan) PROVE StepStage(step) <= proof.target
  <2>1. /\ proof.typed \in Typing /\ proof.target \in Nat
        /\ proof.typed.stage <= proof.target /\ SoundTyping(proof.typed, caseDecl.bound)
    BY <1>1, ClosedProof DEF Proof
  <2>2. proof.typed.stage \in Nat /\ proof.typed.plan \in Seq(PlanStep)
    BY <2>1 DEF Typing
  <2>3. StepStage(step) <= proof.typed.stage
    BY <1>1, <2>1 DEF SoundTyping, Plan
  <2>4. StepStage(step) \in Nat
    <3>1. step \in PlanStep
      BY <1>1, <2>2, RangeOfSeq DEF Plan
    <3>2. QED
      BY <3>1, OperationFacts DEF PlanStep, StepStage
  <2> DEFINE s == StepStage(step)
             t == proof.typed.stage
             u == proof.target
  <2>5. s \in Nat /\ t \in Nat /\ u \in Nat /\ s <= t /\ t <= u
    BY <2>1, <2>2, <2>3, <2>4
  <2> HIDE DEF s, t, u
  <2>6. s <= u
    BY <2>5
  <2>7. QED
    BY <2>6 DEF s, u
<1>2. Inv => StageSafety
  BY <1>1 DEF StageSafety
<1>3. QED
  BY <1>2, InvAlways, PTL

(* The effects declared for a case are those of the steps of its proof,    *)
(* and no two operations of a plan have one in common.                     *)
THEOREM EffectsAreAccounted == SafeSpec => []EffectAccounting
<1>1. Inv => EffectAccounting
  BY ClosedProof DEF EffectAccounting, SoundTyping, Plan
<1>2. QED
  BY <1>1, InvAlways, PTL

(* Each operation of a CLOSED plan consumes what the operation before it   *)
(* produces, from the input type of the proof to its output type, and the  *)
(* postcondition of the proof is that of the last operation.               *)
THEOREM PlansAreChains == SafeSpec => []TypeChain
<1>1. Inv => TypeChain
  BY ClosedProof DEF TypeChain, SoundTyping
<1>2. QED
  BY <1>1, InvAlways, PTL

-----------------------------------------------------------------------------
(* Judgement has the rules of Checker for its own: they are the same.      *)
LEMMA SameRows ==
  /\ \A left, right : Atomic!union(left, right) = union(left, right)
  /\ \A values : Atomic!unique(values) = unique(values)
  /\ \A left, right : Atomic!overlaps(left, right) = overlaps(left, right)
  /\ \A operation, instantiated :
       Atomic!requirement(operation, instantiated) = requirement(operation, instantiated)
  /\ \A operation, caps : Atomic!missing(operation, caps) = missing(operation, caps)
BY DEF Atomic!Range, Range, Atomic!appendUnique, appendUnique, Atomic!union, union,
   Atomic!unique, unique, Atomic!overlaps, overlaps, Atomic!requirement, requirement,
   Atomic!missing, missing

(* The works that are the same everywhere.                                 *)
LEMMA SameWorks ==
  /\ Atomic!refutedWork = refutedWork
  /\ \A typed : Atomic!closedWork(typed) = closedWork(typed)
  /\ \A capability : Atomic!capabilityUnknown(capability) = capabilityUnknown(capability)
  /\ \A left, right : Atomic!mergeNonClosed(left, right) = mergeNonClosed(left, right)
BY DEF Atomic!refutedWork, refutedWork, Atomic!closedWork, closedWork,
   Atomic!capabilityUnknown, capabilityUnknown, Atomic!mergeNonClosed, mergeNonClosed,
   Atomic!decisionBefore, decisionBefore, Atomic!Precedence, Precedence,
   Atomic!NoTyping, NoTyping, Atomic!NoUnknown, NoUnknown

(* A single operation.                                                     *)
LEMMA SameLeaf ==
  \A id, instantiated, caps :
    Atomic!leafWork(id, instantiated, caps) = leafWork(id, instantiated, caps)
<1>1. SUFFICES ASSUME NEW id, NEW instantiated, NEW caps
               PROVE  Atomic!leafWork(id, instantiated, caps) = leafWork(id, instantiated, caps)
  OBVIOUS
<1> DEFINE operation == Operations[id]
           required  == requirement(operation, instantiated)
           unbound   == missing(operation, caps)
           earliest  == CHOOSE i \in unbound : \A j \in unbound : i <= j
           first1    == CHOOSE i \in Atomic!missing(operation, caps) :
                          \A j \in Atomic!missing(operation, caps) : i <= j
           row1      == Atomic!requirement(operation, instantiated)
<1>2. first1 = earliest
  BY DEF Atomic!missing, missing
<1>3. row1 = required /\ Atomic!missing(operation, caps) = unbound
  BY SameRows
<1>4. Atomic!first(required) = first(required)
  BY DEF Atomic!first, first
<1>5. Atomic!leafWork(id, instantiated, caps) =
        IF Atomic!missing(operation, caps) # {}
        THEN Atomic!capabilityUnknown(operation.requires[first1])
        ELSE Atomic!closedWork(
          [input |-> operation.input, output |-> operation.output,
           stage |-> Stages[operation.stage], origin |-> operation.origin,
           required |-> Atomic!unique(row1), effects |-> Atomic!unique(operation.effects),
           pre |-> <<operation.pre>>, post |-> <<operation.post>>,
           plan |-> <<[operation |-> id, capability |-> Atomic!first(row1)]>>,
           replay |-> FALSE])
  BY DEF Atomic!leafWork
<1>6. leafWork(id, instantiated, caps) =
        IF unbound # {} THEN capabilityUnknown(operation.requires[earliest])
        ELSE closedWork(
          [input |-> operation.input, output |-> operation.output,
           stage |-> Stages[operation.stage], origin |-> operation.origin,
           required |-> unique(required), effects |-> unique(operation.effects),
           pre |-> <<operation.pre>>, post |-> <<operation.post>>,
           plan |-> <<[operation |-> id, capability |-> first(required)]>>,
           replay |-> FALSE])
  BY DEF leafWork
<1> HIDE DEF operation, required, unbound, earliest, first1, row1
<1>7. QED
  BY <1>2, <1>3, <1>4, <1>5, <1>6, SameRows, SameWorks

(* The cases of checkExpression.                                           *)
LEMMA SameRules ==
  /\ \A left, right, rs : Atomic!composeWork(left, right, rs) = composeWork(left, right, rs)
  /\ \A args, caps, rs :
       /\ Atomic!instantiateWork(args, caps, rs) = instantiateWork(args, caps, rs)
       /\ Atomic!stageEscapeWork(args, caps, rs) = stageEscapeWork(args, caps, rs)
       /\ Atomic!originCaptureWork(args, caps, rs) = originCaptureWork(args, caps, rs)
  /\ \A result, rs : Atomic!replayWork(result, rs) = replayWork(result, rs)
  /\ \A name, caps : Atomic!operationWork(name, caps) = operationWork(name, caps)
<1>1. \A left, right : Atomic!Sequential(left, right) = Sequential(left, right)
  BY SameRows DEF Atomic!Sequential, Sequential, Atomic!maxInt, maxInt
<1>2. \A left, right, rs : Atomic!composeWork(left, right, rs) = composeWork(left, right, rs)
  BY <1>1, SameRows, SameWorks DEF Atomic!composeWork, composeWork
<1>3. \A args, caps, rs : Atomic!instantiateWork(args, caps, rs) = instantiateWork(args, caps, rs)
  BY SameLeaf, SameWorks DEF Atomic!instantiateWork, instantiateWork, Atomic!Range, Range
<1>4. \A args, caps, rs : Atomic!stageEscapeWork(args, caps, rs) = stageEscapeWork(args, caps, rs)
  BY SameLeaf, SameWorks DEF Atomic!stageEscapeWork, stageEscapeWork
<1>5. \A args, caps, rs :
        Atomic!originCaptureWork(args, caps, rs) = originCaptureWork(args, caps, rs)
  BY SameLeaf, SameWorks DEF Atomic!originCaptureWork, originCaptureWork
<1>6. \A result, rs : Atomic!replayWork(result, rs) = replayWork(result, rs)
  BY SameRows, SameWorks DEF Atomic!replayWork, replayWork, Atomic!replayStep, replayStep
<1>7. \A name, caps : Atomic!operationWork(name, caps) = operationWork(name, caps)
  BY SameLeaf, SameWorks DEF Atomic!operationWork, operationWork
<1>8. QED
  BY <1>2, <1>3, <1>4, <1>5, <1>6, <1>7

(* The end of TypecheckCase.                                               *)
LEMMA SameEnds ==
  /\ \A result, target : Atomic!concluded(result, target) = concluded(result, target)
  /\ \A result, expected : Atomic!accepted(result, expected) = accepted(result, expected)
  /\ \A result, expected, target :
       Atomic!ProofOf(result, expected, target) = ProofOf(result, expected, target)
  /\ Atomic!NoProof = NoProof /\ Atomic!Declared = Declared
BY DEF Atomic!concluded, concluded, Atomic!accepted, accepted, Atomic!Complete, Complete,
   Atomic!ProofOf, ProofOf, Atomic!NoProof, NoProof, Atomic!Declared, Declared,
   Atomic!NoTyping, NoTyping, Atomic!NoUnknown, NoUnknown

-----------------------------------------------------------------------------
(* The judgement of an expression, from those of its arguments.            *)

Calls == Atomic!Calls

At(expr, caps, rs) == [expr |-> expr, caps |-> caps, rules |-> rs]

LEMMA ArgsAreExprs ==
  ASSUME NEW expr \in Exprs, NEW i \in DOMAIN expr.args
  PROVE  expr.args[i] \in Exprs
<1> DEFINE args == expr.args
<1>1. args \in Seq(Exprs)
  BY ExprsAssumption DEF Expr
<1> HIDE DEF args
<1>2. \A j \in DOMAIN args : args[j] \in Exprs
  BY <1>1, LenProperties
<1>3. QED
  BY <1>2 DEF args

LEMMA CallFacts ==
  ASSUME NEW call \in Calls
  PROVE  /\ call.expr \in Exprs /\ call.expr.args \in Seq(Exprs)
         /\ call.caps \in SUBSET Capabilities /\ call.rules \in SUBSET RuleIds
         /\ call = At(call.expr, call.caps, call.rules)
         /\ \A i \in DOMAIN call.expr.args :
              /\ call.expr.args[i] \in Exprs
              /\ At(call.expr.args[i], call.caps, call.rules) \in Calls
              /\ At(call.expr.args[i], {}, call.rules) \in Calls
<1>1. /\ call.expr \in Exprs /\ call.caps \in SUBSET Capabilities
      /\ call.rules \in SUBSET RuleIds /\ call = At(call.expr, call.caps, call.rules)
  BY DEF Calls, Atomic!Calls, At, Atomic!RuleIds, RuleIds
<1>2. call.expr.args \in Seq(Exprs)
  BY <1>1, ExprsAssumption DEF Expr
<1>3. \A i \in DOMAIN call.expr.args : call.expr.args[i] \in Exprs
  BY <1>1, ArgsAreExprs
<1>4. QED
  BY <1>1, <1>2, <1>3 DEF Calls, Atomic!Calls, At, Atomic!RuleIds, RuleIds

(* The cases of the switch, one conjunct each.                             *)
LEMMA JudgeCases ==
  ASSUME NEW f, NEW call \in Calls
  PROVE  LET name  == call.expr.name
             args  == call.expr.args
             on(i) == f[At(args[i], call.caps, call.rules)]
             j     == Atomic!judge(f, call)
         IN  /\ name = "compose" =>
                  j = IF Len(args) # 2 THEN refutedWork
                      ELSE composeWork(on(1), on(2), call.rules)
             /\ name = "instantiate" => j = instantiateWork(args, call.caps, call.rules)
             /\ name = "stage_escape" => j = stageEscapeWork(args, call.caps, call.rules)
             /\ name = "origin_capture" => j = originCaptureWork(args, call.caps, call.rules)
             /\ name = "unbound" =>
                  j = IF Len(args) # 1 THEN refutedWork
                      ELSE f[At(args[1], {}, call.rules)]
             /\ name = "replay" =>
                  j = IF Len(args) # 1 THEN refutedWork
                      ELSE IF "replay.fixture" \in call.caps THEN replayWork(on(1), call.rules)
                      ELSE capabilityUnknown("replay.fixture")
             /\ name \notin Constructors => j = operationWork(name, call.caps)
<1> DEFINE name  == call.expr.name
           args  == call.expr.args
           j     == Atomic!judge(f, call)
<1>1. /\ \A e : [call EXCEPT !.expr = e] = At(e, call.caps, call.rules)
      /\ \A e : [call EXCEPT !.expr = e, !.caps = {}] = At(e, {}, call.rules)
  <2>1. PICK x \in Exprs, c \in SUBSET Capabilities, rs \in SUBSET RuleIds :
          call = At(x, c, rs)
    BY CallFacts
  <2>2. call.caps = c /\ call.rules = rs
    BY <2>1 DEF At
  <2>3. ASSUME NEW e
        PROVE  [At(x, c, rs) EXCEPT !.expr = e] = At(e, c, rs)
    BY DEF At
  <2>4. ASSUME NEW e
        PROVE  [At(x, c, rs) EXCEPT !.expr = e, !.caps = {}] = At(e, {}, rs)
    <3>1. [At(x, c, rs) EXCEPT !.expr = e, !.caps = {}] = [At(e, c, rs) EXCEPT !.caps = {}]
      BY <2>3
    <3>2. [At(e, c, rs) EXCEPT !.caps = {}] = At(e, {}, rs)
      BY DEF At
    <3>3. QED
      BY <3>1, <3>2
  <2>5. QED
    BY <2>1, <2>2, <2>3, <2>4
<1>2. CASE name = "compose"
  BY <1>1, <1>2, SameWorks, SameRules DEF Atomic!judge, Constructors
<1>3. CASE name \in {"instantiate", "stage_escape", "origin_capture"}
  BY <1>3, SameRules DEF Atomic!judge, Constructors
<1>4. CASE name = "unbound"
  BY <1>1, <1>4, SameWorks DEF Atomic!judge, Constructors
<1>5. CASE name = "replay"
  BY <1>1, <1>5, SameWorks, SameRules DEF Atomic!judge, Constructors
<1>6. CASE name \notin Constructors
  BY <1>6, SameRules DEF Atomic!judge, Constructors
<1>7. QED
  BY <1>2, <1>3, <1>4, <1>5, <1>6 DEF Constructors

(* What the rules make of works is a work.                                 *)
LEMMA ComposeTyped ==
  ASSUME NEW left \in Work, NEW right \in Work, NEW rs
  PROVE  composeWork(left, right, rs) \in Work
<1>1. CASE left.decision # "CLOSED" \/ right.decision # "CLOSED"
  BY <1>1 DEF composeWork, mergeNonClosed
<1>2. CASE left.decision = "CLOSED" /\ right.decision = "CLOSED"
  <2>1. left.typed \in Typing /\ right.typed \in Typing
    BY DEF Work
  <2>2. closedWork(Sequential(left.typed, right.typed)) \in Work
    BY <2>1, SequentialTyping, EmptyTyping DEF closedWork, Work, Decisions
  <2>3. refutedWork \in Work
    BY RefutedSound DEF Sound
  <2>4. QED
    BY <1>2, <2>2, <2>3 DEF composeWork
<1>3. QED
  BY <1>1, <1>2

LEMMA ReplayTyped ==
  ASSUME NEW result \in Work, NEW rs
  PROVE  replayWork(result, rs) \in Work
<1> DEFINE typed == result.typed
           e0 == typed.effects
           r0 == typed.required
           p0 == typed.plan
           e1 == <<"replay.verify">>
           r1 == <<"replay.fixture">>
           es == union(e0, e1)
           rows == union(r0, r1)
           ps == Append(p0, replayStep)
           more == [typed EXCEPT !.effects = es, !.required = rows, !.plan = ps,
                                 !.replay = TRUE]
<1>1. /\ typed \in Typing /\ e0 \in Seq(Text) /\ r0 \in Seq(Text)
      /\ p0 \in Seq(PlanStep)
  BY DEF Work, Typing
<1>2. e1 \in Seq(Text) /\ r1 \in Seq(Text)
  BY Singleton DEF Text
<1>3. \/ replayWork(result, rs) = result \/ replayWork(result, rs) = refutedWork
      \/ replayWork(result, rs) = closedWork(more)
  BY DEF replayWork
<1> HIDE DEF typed, e0, r0, p0, e1, r1
<1>4. es \in Seq(Text) /\ rows \in Seq(Text)
  BY <1>1, <1>2, UnionLemma
<1>5. ps \in Seq(PlanStep)
  BY <1>1, ReplayStepFacts, AppendProperties
<1> HIDE DEF es, rows, ps
<1>6. more \in Typing
  BY <1>1, <1>4, <1>5 DEF Typing
<1> HIDE DEF more
<1>7. closedWork(more) \in Work
  BY <1>6, EmptyTyping DEF closedWork, Work, Decisions
<1>8. refutedWork \in Work
  BY RefutedSound DEF Sound
<1>9. QED
  BY <1>3, <1>7, <1>8 DEF more, es, rows, ps, e0, r0, p0, e1, r1, typed

LEMMA JudgeTyped ==
  ASSUME NEW f \in [Calls -> Work], NEW call \in Calls
  PROVE  Atomic!judge(f, call) \in Work
<1> DEFINE name  == call.expr.name
           args  == call.expr.args
           j     == Atomic!judge(f, call)
<1>1. /\ args \in Seq(Exprs) /\ call.caps \in SUBSET Capabilities
      /\ Len(args) \in Nat /\ DOMAIN args = 1 .. Len(args)
  BY CallFacts, LenProperties
<1>2. /\ refutedWork \in Work /\ capabilityUnknown("replay.fixture") \in Work
      /\ instantiateWork(args, call.caps, call.rules) \in Work
      /\ stageEscapeWork(args, call.caps, call.rules) \in Work
      /\ originCaptureWork(args, call.caps, call.rules) \in Work
      /\ operationWork(name, call.caps) \in Work
  <2>1. "replay.fixture" \in Text
    BY DEF Text
  <2>2. QED
    BY <1>1, <2>1, RefutedSound, UnknownSound, InstantiateSound, StageEscapeSound,
       OriginCaptureSound, OperationSound DEF Sound
<1>3. CASE name = "compose"
  <2>1. CASE Len(args) # 2
    BY <1>2, <1>3, <2>1, JudgeCases
  <2>2. CASE Len(args) = 2
    <3>1. 1 \in DOMAIN args /\ 2 \in DOMAIN args
      BY <1>1, <2>2
    <3> DEFINE left == f[At(args[1], call.caps, call.rules)]
               right == f[At(args[2], call.caps, call.rules)]
    <3>2. left \in Work /\ right \in Work
      BY <3>1, CallFacts
    <3>3. j = composeWork(left, right, call.rules)
      BY <1>3, <2>2, JudgeCases
    <3> HIDE DEF left, right
    <3>4. QED
      BY <3>2, <3>3, ComposeTyped
  <2>3. QED
    BY <2>1, <2>2
<1>4. CASE name = "unbound"
  <2>1. CASE Len(args) # 1
    BY <1>2, <1>4, <2>1, JudgeCases
  <2>2. CASE Len(args) = 1
    <3>1. 1 \in DOMAIN args
      BY <1>1, <2>2
    <3>2. f[At(args[1], {}, call.rules)] \in Work
      BY <3>1, CallFacts
    <3>3. QED
      BY <1>4, <2>2, <3>2, JudgeCases
  <2>3. QED
    BY <2>1, <2>2
<1>5. CASE name = "replay"
  <2>1. CASE Len(args) # 1 \/ "replay.fixture" \notin call.caps
    BY <1>2, <1>5, <2>1, JudgeCases
  <2>2. CASE Len(args) = 1 /\ "replay.fixture" \in call.caps
    <3>1. 1 \in DOMAIN args
      BY <1>1, <2>2
    <3> DEFINE result == f[At(args[1], call.caps, call.rules)]
    <3>2. result \in Work
      BY <3>1, CallFacts
    <3>3. j = replayWork(result, call.rules)
      BY <1>5, <2>2, JudgeCases
    <3> HIDE DEF result
    <3>4. QED
      BY <3>2, <3>3, ReplayTyped
  <2>3. QED
    BY <2>1, <2>2
<1>6. CASE name \in {"instantiate", "stage_escape", "origin_capture"}
  BY <1>2, <1>6, JudgeCases
<1>7. CASE name \notin Constructors
  BY <1>2, <1>7, JudgeCases
<1>8. QED
  BY <1>3, <1>4, <1>5, <1>6, <1>7 DEF Constructors

(* It looks at the judgements of the arguments only.                       *)
LEMMA JudgeLocal ==
  ASSUME NEW f, NEW g, NEW call \in Calls,
         \A i \in DOMAIN call.expr.args : \A caps \in {call.caps, {}} :
           f[At(call.expr.args[i], caps, call.rules)] = g[At(call.expr.args[i], caps, call.rules)]
  PROVE  Atomic!judge(f, call) = Atomic!judge(g, call)
<1> DEFINE name  == call.expr.name
           args  == call.expr.args
<1>1. Len(args) \in Nat /\ DOMAIN args = 1 .. Len(args)
  BY CallFacts, LenProperties
<1>2. CASE name = "compose"
  <2>1. Len(args) = 2 =>
          /\ f[At(args[1], call.caps, call.rules)] = g[At(args[1], call.caps, call.rules)]
          /\ f[At(args[2], call.caps, call.rules)] = g[At(args[2], call.caps, call.rules)]
    BY <1>1
  <2>2. QED
    BY <1>2, <2>1, JudgeCases
<1>3. CASE name \in {"unbound", "replay"}
  <2>1. Len(args) = 1 =>
          /\ f[At(args[1], call.caps, call.rules)] = g[At(args[1], call.caps, call.rules)]
          /\ f[At(args[1], {}, call.rules)] = g[At(args[1], {}, call.rules)]
    BY <1>1
  <2>2. QED
    BY <1>3, <2>1, JudgeCases
<1>4. CASE name \in {"instantiate", "stage_escape", "origin_capture"}
  BY <1>4, JudgeCases
<1>5. CASE name \notin Constructors
  BY <1>5, JudgeCases
<1>6. QED
  BY <1>2, <1>3, <1>4, <1>5 DEF Constructors

(* There is a function that satisfies the definition of judgement, so that *)
(* judgement does.                                                         *)
LEMMA JudgementIs ==
  ASSUME NEW size, Measures(size)
  PROVE  /\ Atomic!judgement \in [Calls -> Work]
         /\ \A call \in Calls :
              Atomic!judgement[call] = Atomic!judge(Atomic!judgement, call)
<1> DEFINE depth == [call \in Calls |-> size[call.expr]]
           step == [x \in [Calls -> Work] \X Calls |-> Atomic!judge(x[1], x[2])]
           fix(f) == f = [call \in Calls |-> Atomic!judge(f, call)]
<1>1. /\ depth \in [Calls -> Nat]
      /\ \A call \in Calls : depth[call] = size[call.expr]
  BY CallFacts DEF Measures
<1>2. \A f \in [Calls -> Work], call \in Calls : step[<<f, call>>] = Atomic!judge(f, call)
  OBVIOUS
<1>3. step \in [[Calls -> Work] \X Calls -> Work]
  BY JudgeTyped
<1> HIDE DEF step, depth
<1>4. LooksBelow(Calls, Work, depth, step)
  <2>1. SUFFICES ASSUME NEW call \in Calls, NEW f \in [Calls -> Work],
                        NEW g \in [Calls -> Work],
                        \A d \in Calls : depth[d] < depth[call] => f[d] = g[d]
                 PROVE  step[<<f, call>>] = step[<<g, call>>]
    BY DEF LooksBelow
  <2>2. ASSUME NEW i \in DOMAIN call.expr.args, NEW caps \in {call.caps, {}}
        PROVE  f[At(call.expr.args[i], caps, call.rules)] =
               g[At(call.expr.args[i], caps, call.rules)]
    <3> DEFINE d == At(call.expr.args[i], caps, call.rules)
    <3>1. d \in Calls /\ call.expr \in Exprs
      BY CallFacts
    <3>2. d.expr = call.expr.args[i]
      BY DEF At
    <3>3. depth[d] < depth[call]
      BY <1>1, <3>1, <3>2 DEF Measures
    <3>4. QED
      BY <2>1, <3>1, <3>3
  <2>3. Atomic!judge(f, call) = Atomic!judge(g, call)
    BY <2>2, JudgeLocal
  <2>4. QED
    BY <1>2, <2>3
<1>5. PICK f \in [Calls -> Work] : Follows(f, Calls, step)
  <2>1. refutedWork \in Work
    BY RefutedSound DEF Sound
  <2>2. QED
    BY <1>1, <1>3, <1>4, <2>1, RecursionExists
<1>6. f = [call \in Calls |-> Atomic!judge(f, call)]
  BY <1>2, <1>5 DEF Follows
<1>7. \E h : fix(h)
  BY <1>6
<1>8. Atomic!judgement = CHOOSE h : fix(h)
  BY DEF Atomic!judgement, Calls
<1>9. fix(Atomic!judgement)
  <2> HIDE DEF fix
  <2>1. QED
    BY <1>7, <1>8
<1> DEFINE h == Atomic!judgement
<1>10. h = [call \in Calls |-> Atomic!judge(h, call)]
  BY <1>9
<1> HIDE DEF h, fix
<1>11. \A call \in Calls : h[call] = Atomic!judge(h, call)
  BY <1>10
<1> DEFINE S == {n \in Nat : \A call \in Calls : depth[call] < n => h[call] = f[call]}
<1>12. 0 \in S
  BY <1>1
<1>13. ASSUME NEW n \in Nat, n \in S PROVE n + 1 \in S
  <2>1. ASSUME NEW call \in Calls, depth[call] < n + 1 PROVE h[call] = f[call]
    <3>1. ASSUME NEW i \in DOMAIN call.expr.args, NEW caps \in {call.caps, {}}
          PROVE  h[At(call.expr.args[i], caps, call.rules)] =
                 f[At(call.expr.args[i], caps, call.rules)]
      <4> DEFINE d == At(call.expr.args[i], caps, call.rules)
      <4>1. d \in Calls /\ call.expr \in Exprs
        BY CallFacts
      <4>2. d.expr = call.expr.args[i]
        BY DEF At
      <4>3. depth[d] < depth[call] /\ depth[d] \in Nat /\ depth[call] \in Nat
        BY <1>1, <4>1, <4>2 DEF Measures
      <4> HIDE DEF d
      <4>4. depth[d] < n
        BY <2>1, <4>3
      <4>5. h[d] = f[d]
        BY <1>13, <4>1, <4>4
      <4>6. QED
        BY <4>5 DEF d
    <3>2. Atomic!judge(h, call) = Atomic!judge(f, call)
      BY <3>1, JudgeLocal
    <3>3. f[call] = Atomic!judge(f, call)
      BY <1>2, <1>5 DEF Follows
    <3>4. QED
      BY <1>11, <3>2, <3>3
  <2>2. QED
    BY <2>1
<1> HIDE DEF S
<1>14. Nat \subseteq S
  BY <1>12, <1>13, NaturalInduction
<1>15. ASSUME NEW call \in Calls PROVE h[call] = f[call]
  <2>1. depth[call] + 1 \in Nat /\ depth[call] < depth[call] + 1
    BY <1>1
  <2>2. depth[call] + 1 \in S
    BY <1>14, <2>1
  <2>3. QED
    BY <2>1, <2>2 DEF S
<1>16. h \in [Calls -> Work]
  <2>1. \A call \in Calls : h[call] \in Work
    BY <1>15
  <2>2. h = [call \in Calls |-> h[call]]
    BY <1>10
  <2>3. QED
    BY <2>1, <2>2
<1>17. QED
  BY <1>11, <1>16 DEF h

-----------------------------------------------------------------------------
(* checkExpression evaluates what the judgement judges.                    *)

Value(expr, caps, rs) == Atomic!judgement[At(expr, caps, rs)]

(* What a call hands down to the calls that it makes.                      *)
Handed(frame) == IF frame.expr.name = "unbound" THEN {} ELSE frame.caps

(* A call is for the next argument of its caller.                          *)
Called(caller, frame) ==
  /\ frame.expr = caller.expr.args[Len(caller.works) + 1]
  /\ frame.caps = Handed(caller)

(* What a call holds are the values of its first arguments.                *)
Evaluated(frame, rs) ==
  \A i \in DOMAIN frame.works :
    frame.works[i] = Value(frame.expr.args[i], Handed(frame), rs)

Outermost(frame) ==
  frame.expr = caseDecl.expression /\ frame.caps = caseDecl.bound

Evaluating ==
  /\ \A k \in DOMAIN stack :
       /\ IF k = 1 THEN Outermost(stack[k]) ELSE Called(stack[k - 1], stack[k])
       /\ Evaluated(stack[k], rules)
  /\ work # NoWork => work = Value(caseDecl.expression, caseDecl.bound, rules)

(* A call.                                                                 *)
LEMMA CallEvaluates ==
  ASSUME Inv, Local, Evaluating, NEW expr \in Exprs, NEW caps \in SUBSET Capabilities,
         Call(expr, caps),
         IF stack = <<>> THEN expr = caseDecl.expression /\ caps = caseDecl.bound
         ELSE expr = Top.expr.args[Len(Top.works) + 1] /\ caps = Handed(Top)
  PROVE  Evaluating'
<1> DEFINE n == Len(stack)
           none == <<>>
           frame == [expr |-> expr, caps |-> caps, works |-> none]
<1>1. stack \in Seq(FrameType)
  BY DEF Inv, TypeOK
<1>2. none \in Seq(Work) /\ DOMAIN none = {}
  BY EmptySeq
<1>3. /\ stack' = Append(stack, frame) /\ work' = work
      /\ caseDecl' = caseDecl /\ rules' = rules
  BY DEF Call, Local
<1> HIDE DEF none
<1>4. frame \in FrameType
  BY <1>2 DEF FrameType
<1>5. frame.expr = expr /\ frame.caps = caps /\ DOMAIN frame.works = {}
  BY <1>2
<1> HIDE DEF frame
<1>6. /\ n \in Nat /\ DOMAIN stack = 1 .. n
      /\ DOMAIN stack' = 1 .. n + 1
      /\ \A k \in 1 .. n : stack'[k] = stack[k]
      /\ stack'[n + 1] = frame
  BY <1>1, <1>3, <1>4, AppendProperties, LenProperties
<1>7. ASSUME NEW k \in DOMAIN stack'
      PROVE  /\ IF k = 1 THEN Outermost(stack'[k]) ELSE Called(stack'[k - 1], stack'[k])
             /\ Evaluated(stack'[k], rules)
  <2>1. CASE k \in 1 .. n
    <3>1. stack'[k] = stack[k] /\ (k # 1 => stack'[k - 1] = stack[k - 1])
      BY <1>6, <2>1
    <3>2. QED
      BY <1>6, <2>1, <3>1 DEF Evaluating
  <2>2. CASE k = n + 1
    <3>1. Evaluated(stack'[k], rules)
      BY <1>5, <1>6, <2>2 DEF Evaluated
    <3>2. CASE n = 0
      <4>1. stack = <<>> /\ k = 1
        BY <1>1, <2>2, <3>2, EmptySeq
      <4>2. QED
        BY <1>5, <1>6, <2>2, <3>1, <4>1 DEF Outermost
    <3>3. CASE n # 0
      <4>1. stack # <<>>
        BY <3>3, EmptySeq
      <4>2. k # 1 /\ k - 1 = n /\ n \in 1 .. n
        BY <1>6, <2>2, <3>3
      <4>3. stack'[k - 1] = Top /\ stack'[k] = frame
        BY <1>6, <2>2, <4>2 DEF Top
      <4>4. Called(Top, frame)
        BY <1>5, <4>1 DEF Called
      <4>5. QED
        BY <3>1, <4>2, <4>3, <4>4
    <3>4. QED
      BY <3>2, <3>3
  <2>3. QED
    BY <1>6, <2>1, <2>2
<1>8. work' # NoWork =>
        work' = Value(caseDecl.expression, caseDecl.bound, rules)
  BY <1>3 DEF Evaluating
<1>9. QED
  BY <1>3, <1>7, <1>8 DEF Evaluating, Outermost, Evaluated, Value

(* A return of the value of the call.                                      *)
LEMMA ReturnEvaluates ==
  ASSUME Inv, Local, Evaluating, stack # <<>>, NEW result \in Work, Return(result),
         result = Value(Top.expr, Top.caps, rules)
  PROVE  Evaluating'
<1> DEFINE n == Len(stack)
           m == n - 1
<1>1. Returned(result, n, m)
  BY ReturnFacts
<1>2. Top = stack[n] /\ caseDecl' = caseDecl /\ rules' = rules
  BY DEF Top, Local
<1>3. CASE n = 1
  <2>1. stack' = <<>> /\ work' = result
    BY <1>1, <1>3 DEF Returned
  <2>2. DOMAIN stack' = {}
    BY <2>1
  <2>3. Outermost(Top)
    BY <1>1, <1>2, <1>3 DEF Evaluating, Returned
  <2>4. work' = Value(caseDecl.expression, caseDecl.bound, rules)
    BY <2>1, <2>3 DEF Outermost
  <2>5. QED
    BY <1>2, <2>2, <2>4 DEF Evaluating, Value
<1>4. CASE n # 1
  <2> DEFINE l == Len(stack[m].works)
             caller == stack[m]
             grown == stack'[m]
  <2>1. /\ n \in Nat \ {0} /\ n \in 1 .. n /\ DOMAIN stack = 1 .. n
        /\ m \in Nat /\ m \in 1 .. m /\ m + 1 = n /\ 1 .. m \subseteq 1 .. n
        /\ Given(result, m, l)
    BY <1>1, <1>4 DEF Returned
  <2>2. /\ DOMAIN stack' = 1 .. m
        /\ \A k \in 1 .. m : k # m => stack'[k] = stack[k]
        /\ grown.expr = caller.expr /\ grown.caps = caller.caps
        /\ work' = work
    BY <2>1 DEF Given
  <2>3. /\ l \in Nat /\ DOMAIN caller.works = 1 .. l /\ DOMAIN grown.works = 1 .. l + 1
        /\ \A i \in 1 .. l : grown.works[i] = caller.works[i]
        /\ grown.works[l + 1] = result
    BY <2>1 DEF Given
  <2>4. Called(caller, Top)
    BY <1>2, <1>4, <2>1 DEF Evaluating
  <2>5. Evaluated(grown, rules)
    <3>1. Evaluated(caller, rules)
      BY <2>1 DEF Evaluating
    <3>2. Handed(grown) = Handed(caller)
      BY <2>2 DEF Handed
    <3>3. result = Value(caller.expr.args[l + 1], Handed(caller), rules)
      BY <2>4 DEF Called
    <3> HIDE DEF l, caller, grown
    <3>4. ASSUME NEW i \in DOMAIN grown.works
          PROVE  grown.works[i] = Value(grown.expr.args[i], Handed(grown), rules)
      <4>1. i \in 1 .. l \/ i = l + 1
        BY <2>3
      <4>2. CASE i \in 1 .. l
        BY <2>2, <2>3, <3>1, <3>2, <4>2 DEF Evaluated
      <4>3. CASE i = l + 1
        BY <2>2, <2>3, <3>2, <3>3, <4>3
      <4>4. QED
        BY <4>1, <4>2, <4>3
    <3>5. QED
      BY <3>4 DEF Evaluated
  <2>6. ASSUME NEW k \in DOMAIN stack'
        PROVE  /\ IF k = 1 THEN Outermost(stack'[k]) ELSE Called(stack'[k - 1], stack'[k])
               /\ Evaluated(stack'[k], rules)
    <3>1. k \in 1 .. m /\ k \in DOMAIN stack
      BY <2>1, <2>2
    <3>2. stack'[k].expr = stack[k].expr /\ stack'[k].caps = stack[k].caps
      BY <2>2, <3>1
    <3>3. k # 1 => stack'[k - 1] = stack[k - 1]
      <4>1. k # 1 => k - 1 \in 1 .. m /\ k - 1 # m
        BY <2>1, <3>1
      <4>2. QED
        BY <2>2, <4>1
    <3>4. IF k = 1 THEN Outermost(stack'[k]) ELSE Called(stack'[k - 1], stack'[k])
      BY <3>1, <3>2, <3>3 DEF Evaluating, Outermost, Called
    <3>5. CASE k = m
      BY <2>5, <3>4, <3>5
    <3>6. CASE k # m
      BY <2>2, <3>1, <3>4, <3>6 DEF Evaluating
    <3>7. QED
      BY <3>5, <3>6
  <2>7. QED
    BY <1>2, <2>2, <2>6 DEF Evaluating, Outermost, Evaluated, Value
<1>5. QED
  BY <1>3, <1>4

(* The value of an expression, from those of its arguments.                *)
Judged(expr, caps, rs) ==
  LET name  == expr.name
      args  == expr.args
      on(i) == Value(args[i], caps, rs)
      value == Value(expr, caps, rs)
  IN  /\ name = "compose" =>
           value = IF Len(args) # 2 THEN refutedWork ELSE composeWork(on(1), on(2), rs)
      /\ name = "instantiate" => value = instantiateWork(args, caps, rs)
      /\ name = "stage_escape" => value = stageEscapeWork(args, caps, rs)
      /\ name = "origin_capture" => value = originCaptureWork(args, caps, rs)
      /\ name = "unbound" =>
           value = IF Len(args) # 1 THEN refutedWork ELSE Value(args[1], {}, rs)
      /\ name = "replay" =>
           value = IF Len(args) # 1 THEN refutedWork
                   ELSE IF "replay.fixture" \in caps THEN replayWork(on(1), rs)
                   ELSE capabilityUnknown("replay.fixture")
      /\ name \notin Constructors => value = operationWork(name, caps)

LEMMA ValueIs ==
  ASSUME NEW size, Measures(size),
         NEW expr \in Exprs, NEW caps \in SUBSET Capabilities, NEW rs \in SUBSET RuleIds
  PROVE  Value(expr, caps, rs) \in Work /\ Judged(expr, caps, rs)
<1> DEFINE call == At(expr, caps, rs)
<1>1. call \in Calls
  BY DEF At, Calls, Atomic!Calls, Atomic!RuleIds, RuleIds
<1>2. call.expr = expr /\ call.caps = caps /\ call.rules = rs
  BY DEF At
<1> HIDE DEF call
<1>3. Value(expr, caps, rs) = Atomic!judge(Atomic!judgement, call)
  BY <1>1, JudgementIs DEF Value, call
<1>4. Value(expr, caps, rs) \in Work
  BY <1>1, JudgementIs DEF Value, call
<1>5. Judged(expr, caps, rs)
  BY <1>1, <1>2, <1>3, JudgeCases DEF Judged, Value
<1>6. QED
  BY <1>4, <1>5

-----------------------------------------------------------------------------
(* Every step of checkExpression is a call for the next argument or the    *)
(* return of the value of the call.                                        *)
Stepping ==
  \/ \E expr \in Exprs, caps \in SUBSET Capabilities :
       /\ expr = Top.expr.args[Len(Top.works) + 1] /\ caps = Handed(Top)
       /\ Call(expr, caps)
  \/ Return(Value(Top.expr, Top.caps, rules))

LEMMA CheckSteps ==
  ASSUME NEW size, Measures(size), Inv, Evaluating, Check
  PROVE  Local /\ stack # <<>> /\ Stepping
<1> DEFINE expr == Top.expr
           args == expr.args
           caps == Top.caps
           works == Top.works
           value == Value(expr, caps, rules)
<1>1. Local /\ stack # <<>>
  BY CheckingLocal DEF Check, CheckCompose, CheckInstantiate, CheckStageEscape,
     CheckOriginCapture, CheckUnbound, CheckReplay, CheckOperation
<1>2. /\ expr \in Exprs /\ args \in Seq(Exprs) /\ caps \in SUBSET Capabilities
      /\ works \in Seq(Work) /\ rules \in SUBSET RuleIds
  BY <1>1, TopFacts, CasesAssumption DEF FrameType, Inv, TypeOK
<1>3. Judged(expr, caps, rules)
  BY <1>2, ValueIs
<1>4. Len(works) \in Nat /\ DOMAIN works = 1 .. Len(works)
  BY <1>2, LenProperties
<1>5. \A i \in 1 .. Len(works) : works[i] = Value(args[i], Handed(Top), rules)
  BY <1>1, <1>4, TopFacts DEF Evaluating, Evaluated, Top
<1>6. ASSUME NEW i, i \in 1 .. Len(args), i = Len(works) + 1,
             NEW handed \in SUBSET Capabilities, handed = Handed(Top), Call(args[i], handed)
      PROVE  Stepping
  <2> DEFINE next == args[i]
  <2>1. next \in Exprs
    BY <1>2, <1>6, ElementOfSeq
  <2> HIDE DEF next
  <2>2. next = Top.expr.args[Len(Top.works) + 1] /\ Call(next, handed)
    BY <1>6 DEF next
  <2>3. QED
    BY <1>6, <2>1, <2>2 DEF Stepping
<1>7. ASSUME CheckCompose PROVE Stepping
  <2>1. expr.name = "compose" /\ Handed(Top) = caps
    BY <1>7 DEF CheckCompose, Checking, Handed
  <2>2. CASE Len(args) # 2 /\ Return(refutedWork)
    BY <1>3, <2>1, <2>2 DEF Judged, Stepping
  <2>3. CASE /\ Len(args) = 2 /\ Len(works) < 2 /\ Call(args[Len(works) + 1], caps)
    <3>1. Len(works) + 1 \in 1 .. Len(args)
      BY <1>4, <2>3
    <3>2. QED
      BY <1>2, <1>6, <2>1, <2>3, <3>1
  <2>4. CASE /\ Len(args) = 2 /\ Len(works) = 2
             /\ Return(composeWork(works[1], works[2], rules))
    <3>1. works[1] = Value(args[1], caps, rules) /\ works[2] = Value(args[2], caps, rules)
      BY <1>5, <2>1, <2>4
    <3>2. value = composeWork(works[1], works[2], rules)
      BY <1>3, <2>1, <2>4, <3>1 DEF Judged
    <3>3. QED
      BY <2>4, <3>2 DEF Stepping
  <2>5. QED
    BY <1>7, <2>2, <2>3, <2>4 DEF CheckCompose
<1>8. ASSUME CheckInstantiate \/ CheckStageEscape \/ CheckOriginCapture PROVE Stepping
  BY <1>3, <1>8
     DEF CheckInstantiate, CheckStageEscape, CheckOriginCapture, Checking, Judged, Stepping
<1>9. ASSUME Len(works) = 0, Len(args) = 1,
             NEW handed \in SUBSET Capabilities, handed = Handed(Top), Call(args[1], handed)
      PROVE  Stepping
  <2>1. 1 \in 1 .. Len(args) /\ 1 = Len(works) + 1
    BY <1>9
  <2>2. QED
    BY <1>6, <1>9, <2>1
<1>10. works = <<>> <=> Len(works) = 0
  <2> HIDE DEF works
  <2>1. QED
    BY <1>2, EmptySeq
<1>11. works # <<>> => works[1] = Value(args[1], Handed(Top), rules)
  <2>1. works # <<>> => 1 \in 1 .. Len(works)
    BY <1>4, <1>10
  <2>2. QED
    BY <1>5, <2>1
<1>12. ASSUME CheckUnbound PROVE Stepping
  <2>1. expr.name = "unbound" /\ Handed(Top) = {}
    BY <1>12 DEF CheckUnbound, Checking, Handed
  <2>2. CASE Len(args) # 1 /\ Return(refutedWork)
    BY <1>3, <2>1, <2>2 DEF Judged, Stepping
  <2>3. CASE Len(args) = 1 /\ works = <<>> /\ Call(args[1], {})
    BY <1>9, <1>10, <2>1, <2>3
  <2>4. CASE Len(args) = 1 /\ works # <<>> /\ Return(works[1])
    <3>1. value = works[1]
      BY <1>3, <1>11, <2>1, <2>4 DEF Judged
    <3>2. QED
      BY <2>4, <3>1 DEF Stepping
  <2>5. QED
    BY <1>12, <2>2, <2>3, <2>4 DEF CheckUnbound
<1>13. ASSUME CheckReplay PROVE Stepping
  <2>1. expr.name = "replay" /\ Handed(Top) = caps
    BY <1>13 DEF CheckReplay, Checking, Handed
  <2>2. CASE Len(args) # 1 /\ Return(refutedWork)
    BY <1>3, <2>1, <2>2 DEF Judged, Stepping
  <2>3. CASE /\ Len(args) = 1 /\ "replay.fixture" \notin caps
             /\ Return(capabilityUnknown("replay.fixture"))
    BY <1>3, <2>1, <2>3 DEF Judged, Stepping
  <2>4. CASE Len(args) = 1 /\ works = <<>> /\ Call(args[1], caps)
    BY <1>2, <1>9, <1>10, <2>1, <2>4
  <2>5. CASE /\ Len(args) = 1 /\ "replay.fixture" \in caps /\ works # <<>>
             /\ Return(replayWork(works[1], rules))
    <3>1. value = replayWork(works[1], rules)
      BY <1>3, <1>11, <2>1, <2>5 DEF Judged
    <3>2. QED
      BY <2>5, <3>1 DEF Stepping
  <2>6. QED
    BY <1>13, <2>2, <2>3, <2>4, <2>5 DEF CheckReplay
<1>14. ASSUME CheckOperation PROVE Stepping
  BY <1>3, <1>14 DEF CheckOperation, Judged, Stepping
<1>15. QED
  BY <1>1, <1>7, <1>8, <1>12, <1>13, <1>14 DEF Check

LEMMA InitEvaluates == Init => Evaluating
BY DEF Init, Evaluating

(* Beside Inv, Evaluating is inductive.                                    *)
LEMMA NextEvaluates ==
  ASSUME NEW size, Measures(size)
  PROVE  Inv /\ Evaluating /\ [Next]_vars => Evaluating'
<1>1. SUFFICES ASSUME Inv, Evaluating, [Next]_vars PROVE Evaluating'
  OBVIOUS
<1>2. CASE Check
  <2>1. Local /\ stack # <<>> /\ Stepping
    BY <1>1, <1>2, CheckSteps
  <2>2. ASSUME NEW expr \in Exprs, NEW caps \in SUBSET Capabilities,
               expr = Top.expr.args[Len(Top.works) + 1], caps = Handed(Top),
               Call(expr, caps)
        PROVE  Evaluating'
    BY <1>1, <2>1, <2>2, CallEvaluates
  <2>3. ASSUME Return(Value(Top.expr, Top.caps, rules)) PROVE Evaluating'
    <3> DEFINE value == Value(Top.expr, Top.caps, rules)
    <3>1. /\ Top.expr \in Exprs /\ Top.caps \in SUBSET Capabilities
          /\ rules \in SUBSET RuleIds
      BY <1>1, <2>1, TopFacts, CasesAssumption DEF FrameType, Inv, TypeOK
    <3>2. value \in Work
      BY <3>1, ValueIs
    <3>3. QED
      BY <1>1, <2>1, <2>3, <3>2, ReturnEvaluates
  <2>4. QED
    BY <2>1, <2>2, <2>3 DEF Stepping
<1>3. CASE StartCase
  <2>1. /\ stack = <<>> /\ Declared /\ Local
        /\ Call(caseDecl.expression, caseDecl.bound)
    BY <1>3 DEF StartCase, Starting, Local
  <2>2. caseDecl.expression \in Exprs /\ caseDecl.bound \in SUBSET Capabilities
    BY <1>1, <2>1, CasesAssumption DEF Inv, TypeOK, CaseDecl, Declared
  <2>3. QED
    BY <1>1, <2>1, <2>2, CallEvaluates
<1>4. CASE RejectCase \/ FinishCase \/ UNCHANGED vars
  <2>1. /\ stack' = stack /\ work' = work /\ caseDecl' = caseDecl /\ rules' = rules
    BY <1>4 DEF RejectCase, FinishCase, vars
  <2>2. QED
    BY <1>1, <2>1 DEF Evaluating, Outermost, Called, Evaluated, Value
<1>5. QED
  BY <1>1, <1>2, <1>3, <1>4 DEF Next, Typechecking, Finished

(* The verdict of a case is that of the judgement of its expression, and a *)
(* case is decided once: with the stack hidden, TypecheckCase does what    *)
(* module Judgement does.                                                  *)
THEOREM DecidesAsJudged ==
  ASSUME NEW size, Measures(size)
  PROVE  SafeSpec => Atomic!DecidedOnce
<1>1. Init => Atomic!Init
  BY SameEnds DEF Init, Atomic!Init
<1>2. ASSUME Inv, Evaluating, [Next]_vars PROVE [Atomic!Next]_(Atomic!vars)
  <2>1. CASE RejectCase
    BY <2>1, SameEnds DEF RejectCase, Starting, Atomic!Next, Atomic!Reject
  <2>2. CASE FinishCase
    <3> DEFINE target == Stages[caseDecl.target]
               call == [expr |-> caseDecl.expression, caps |-> caseDecl.bound, rules |-> rules]
    <3>1. /\ verdict = "pending" /\ work # NoWork
          /\ caseDecl' = caseDecl /\ rules' = rules
          /\ \E expected \in Expectations :
               IF accepted(concluded(work, target), expected)
               THEN /\ verdict' = concluded(work, target).decision
                    /\ proof' = ProofOf(concluded(work, target), expected, target)
               ELSE verdict' = "error" /\ UNCHANGED proof
      BY <2>2 DEF FinishCase, Finishing
    <3>2. Declared
      BY <1>2, <3>1 DEF Inv, SoundState
    <3>3. work = Atomic!judgement[Atomic!CaseCall]
      BY <1>2, <3>1 DEF Evaluating, Value, At, Atomic!CaseCall
    <3>4. Atomic!Decide
      BY <3>1, <3>3, SameEnds DEF Atomic!Decide
    <3>5. QED
      BY <3>1, <3>2, <3>4, SameEnds DEF Atomic!Next
  <2>3. CASE StartCase \/ Check \/ Finished
    <3>1. Local
      BY <2>3, CheckingLocal DEF StartCase, Finished, vars, Local, Check, CheckCompose,
         CheckInstantiate, CheckStageEscape, CheckOriginCapture, CheckUnbound, CheckReplay,
         CheckOperation
    <3>2. QED
      BY <3>1 DEF Local, Atomic!vars
  <2>4. QED
    BY <1>2, <2>1, <2>2, <2>3 DEF Next, Typechecking, vars, Atomic!vars
<1>3. Init => Inv /\ Evaluating
  BY InitInv, InitEvaluates
<1>4. Inv /\ Evaluating /\ [Next]_vars => (Inv /\ Evaluating)'
  BY NextInv, NextEvaluates
<1>5. QED
  BY <1>1, <1>2, <1>3, <1>4, PTL DEF SafeSpec, Atomic!DecidedOnce

-----------------------------------------------------------------------------
(* What may become of a work when more capabilities are bound.             *)
Grows(result, more) ==
  /\ result.decision = "CLOSED" => more = result
  /\ result.decision = "REFUTED" => more.decision = "REFUTED"

(* What an UNKNOWN work asks for is not bound.                             *)
Actionable(result, caps) ==
  result.decision = "UNKNOWN" => Range(result.unknown.blockedBy) \cap caps = {}

LEMMA UnknownFacts ==
  ASSUME NEW capability, NEW caps, capability \notin caps
  PROVE  /\ capabilityUnknown(capability).decision = "UNKNOWN"
         /\ Actionable(capabilityUnknown(capability), caps)
<1>1. capabilityUnknown(capability).unknown.blockedBy = <<capability>>
  BY DEF capabilityUnknown
<1>2. Range(<<capability>>) = {capability}
  BY DEF Range
<1>3. QED
  BY <1>1, <1>2 DEF capabilityUnknown, Actionable

LEMMA RefutedFacts ==
  /\ refutedWork.decision = "REFUTED"
  /\ \A more : more = refutedWork => Grows(refutedWork, more)
  /\ \A caps : Actionable(refutedWork, caps)
BY DEF refutedWork, Grows, Actionable

(* An operation: CLOSED when nothing is missing, whatever else is bound,   *)
(* and UNKNOWN for want of a capability otherwise.                         *)
LEMMA LeafFacts ==
  ASSUME NEW id \in DOMAIN Operations, NEW instantiated, NEW caps, NEW more,
         caps \subseteq more
  PROVE  /\ leafWork(id, instantiated, caps).decision \in {"CLOSED", "UNKNOWN"}
         /\ Grows(leafWork(id, instantiated, caps), leafWork(id, instantiated, more))
         /\ Actionable(leafWork(id, instantiated, caps), caps)
<1> DEFINE operation == Operations[id]
           unbound   == missing(operation, caps)
           later     == missing(operation, more)
           closed    == leafWork(id, instantiated, caps)
<1>1. CASE unbound = {}
  <2>1. later = {}
    BY <1>1 DEF missing
  <2>2. leafWork(id, instantiated, more) = leafWork(id, instantiated, caps)
    BY <1>1, <2>1 DEF leafWork
  <2>3. leafWork(id, instantiated, caps).decision = "CLOSED"
    BY <1>1 DEF leafWork, closedWork
  <2>4. QED
    BY <2>2, <2>3 DEF Grows, Actionable
<1>2. CASE unbound # {}
  <2> DEFINE earliest == CHOOSE i \in unbound : \A j \in unbound : i <= j
             blocked == operation.requires[earliest]
  <2>1. unbound \in SUBSET Nat
    BY OperationFacts, LenProperties DEF missing
  <2>2. earliest \in unbound
    <3>1. \E i \in unbound : \A j \in unbound : i <= j
      BY <1>2, <2>1, LeastNatural
    <3>2. QED
      BY <3>1
  <2>3. blocked \notin caps
    BY <2>2 DEF missing
  <2>4. leafWork(id, instantiated, caps) = capabilityUnknown(blocked)
    BY <1>2 DEF leafWork
  <2> HIDE DEF blocked
  <2>5. QED
    BY <2>3, <2>4, UnknownFacts DEF Grows
<1>3. QED
  BY <1>1, <1>2

(* REFUTED comes before UNKNOWN.                                           *)
LEMMA MergeFacts ==
  ASSUME NEW left \in Work, NEW right \in Work,
         left.decision # "CLOSED" \/ right.decision # "CLOSED"
  PROVE  LET merged == mergeNonClosed(left, right)
         IN  /\ merged \in {left, right} /\ merged.decision # "CLOSED"
             /\ merged.decision = "REFUTED" <=>
                  left.decision = "REFUTED" \/ right.decision = "REFUTED"
<1> DEFINE index(decision) == CHOOSE i \in 1 .. 3 : Precedence[i] = decision
<1>1. index("REFUTED") = 1 /\ index("UNKNOWN") = 2
  BY DEF Precedence
<1>2. /\ left.decision \in {"CLOSED", "REFUTED", "UNKNOWN"}
      /\ right.decision \in {"CLOSED", "REFUTED", "UNKNOWN"}
  BY DEF Work, Decisions
<1>3. /\ decisionBefore("REFUTED", "UNKNOWN") /\ ~decisionBefore("UNKNOWN", "REFUTED")
      /\ decisionBefore("REFUTED", "REFUTED")
  <2>1. \A l, r : decisionBefore(l, r) <=> index(l) <= index(r)
    BY DEF decisionBefore
  <2> HIDE DEF index
  <2>2. QED
    BY <1>1, <2>1
<1>4. QED
  BY <1>2, <1>3 DEF mergeNonClosed

(* compose, with more capabilities for both arguments.                     *)
LEMMA ComposeGrows ==
  ASSUME NEW left \in Work, NEW right \in Work, NEW left1 \in Work, NEW right1 \in Work,
         NEW rs, Grows(left, left1), Grows(right, right1)
  PROVE  Grows(composeWork(left, right, rs), composeWork(left1, right1, rs))
<1> DEFINE before == composeWork(left, right, rs)
           after  == composeWork(left1, right1, rs)
<1>1. CASE left.decision = "CLOSED" /\ right.decision = "CLOSED"
  <2>1. after = before
    BY <1>1 DEF Grows
  <2>2. QED
    BY <2>1 DEF Grows
<1>2. CASE ~(left.decision = "CLOSED" /\ right.decision = "CLOSED")
  <2>1. before = mergeNonClosed(left, right)
    BY <1>2 DEF composeWork
  <2>2. before.decision # "CLOSED"
    BY <1>2, <2>1, MergeFacts
  <2>3. ASSUME before.decision = "REFUTED" PROVE after.decision = "REFUTED"
    <3>1. left.decision = "REFUTED" \/ right.decision = "REFUTED"
      BY <1>2, <2>1, <2>3, MergeFacts
    <3>2. left1.decision = "REFUTED" \/ right1.decision = "REFUTED"
      BY <3>1 DEF Grows
    <3>3. left1.decision # "CLOSED" \/ right1.decision # "CLOSED"
      BY <3>2
    <3>4. after = mergeNonClosed(left1, right1)
      BY <3>3 DEF composeWork
    <3>5. QED
      BY <3>2, <3>3, <3>4, MergeFacts
  <2>4. QED
    BY <2>2, <2>3 DEF Grows
<1>3. QED
  BY <1>1, <1>2

LEMMA ComposeActionable ==
  ASSUME NEW left \in Work, NEW right \in Work, NEW rs, NEW caps,
         Actionable(left, caps), Actionable(right, caps)
  PROVE  Actionable(composeWork(left, right, rs), caps)
<1> DEFINE result == composeWork(left, right, rs)
<1>1. CASE left.decision = "CLOSED" /\ right.decision = "CLOSED"
  <2>1. result.decision # "UNKNOWN"
    BY <1>1 DEF composeWork, refutedWork, closedWork
  <2>2. QED
    BY <2>1 DEF Actionable
<1>2. CASE ~(left.decision = "CLOSED" /\ right.decision = "CLOSED")
  <2>1. result = mergeNonClosed(left, right)
    BY <1>2 DEF composeWork
  <2>2. QED
    BY <1>2, <2>1, MergeFacts
<1>3. QED
  BY <1>1, <1>2

(* replay, with more capabilities for its argument.                        *)
LEMMA ReplayGrows ==
  ASSUME NEW result, NEW result1, NEW rs, Grows(result, result1)
  PROVE  Grows(replayWork(result, rs), replayWork(result1, rs))
<1>1. CASE result.decision = "CLOSED"
  <2>1. replayWork(result1, rs) = replayWork(result, rs)
    BY <1>1 DEF Grows
  <2>2. QED
    BY <2>1 DEF Grows
<1>2. CASE result.decision # "CLOSED"
  <2>1. replayWork(result, rs) = result
    BY <1>2 DEF replayWork
  <2>2. result1.decision = "REFUTED" => replayWork(result1, rs) = result1
    BY DEF replayWork
  <2>3. QED
    BY <1>2, <2>1, <2>2 DEF Grows
<1>3. QED
  BY <1>1, <1>2

LEMMA ReplayActionable ==
  ASSUME NEW result, NEW rs, NEW caps, Actionable(result, caps)
  PROVE  Actionable(replayWork(result, rs), caps)
<1>1. \/ replayWork(result, rs) = result
      \/ replayWork(result, rs).decision # "UNKNOWN"
  BY DEF replayWork, refutedWork, closedWork
<1>2. QED
  BY <1>1 DEF Actionable

(* The other cases of the switch.                                          *)
LEMMA NamesGrow ==
  ASSUME NEW args \in Seq(Exprs), NEW name, NEW rs,
         NEW caps \in SUBSET Capabilities, NEW more \in SUBSET Capabilities,
         caps \subseteq more
  PROVE  /\ Grows(instantiateWork(args, caps, rs), instantiateWork(args, more, rs))
         /\ Grows(stageEscapeWork(args, caps, rs), stageEscapeWork(args, more, rs))
         /\ Grows(originCaptureWork(args, caps, rs), originCaptureWork(args, more, rs))
         /\ Grows(operationWork(name, caps), operationWork(name, more))
         /\ Actionable(instantiateWork(args, caps, rs), caps)
         /\ Actionable(stageEscapeWork(args, caps, rs), caps)
         /\ Actionable(originCaptureWork(args, caps, rs), caps)
         /\ Actionable(operationWork(name, caps), caps)
<1> DEFINE id == args[1].name
           capability == args[2].name
           leaf == leafWork(id, <<>>, caps)
           leaf1 == leafWork(id, <<>>, more)
<1>1. id \in DOMAIN Operations =>
        /\ leaf.decision \in {"CLOSED", "UNKNOWN"} /\ Grows(leaf, leaf1)
        /\ Actionable(leaf, caps)
  <2> DEFINE none == <<>>
  <2>1. id \in DOMAIN Operations =>
          /\ leafWork(id, none, caps).decision \in {"CLOSED", "UNKNOWN"}
          /\ Grows(leafWork(id, none, caps), leafWork(id, none, more))
          /\ Actionable(leafWork(id, none, caps), caps)
    <3> HIDE DEF none, id
    <3>1. QED
      BY LeafFacts
  <2>2. QED
    BY <2>1
<1>2. refutedWork.decision = "REFUTED"
  BY RefutedFacts
<1>3. /\ Grows(stageEscapeWork(args, caps, rs), stageEscapeWork(args, more, rs))
      /\ Actionable(stageEscapeWork(args, caps, rs), caps)
  <2>1. CASE Len(args) # 2 \/ id \notin DOMAIN Operations
    BY <2>1, RefutedFacts DEF stageEscapeWork
  <2>2. CASE Len(args) = 2 /\ id \in DOMAIN Operations
    <3>1. CASE leaf.decision = "CLOSED"
      <4>1. leaf1 = leaf
        BY <1>1, <2>2, <3>1 DEF Grows
      <4> HIDE DEF leaf, leaf1, id
      <4>2. stageEscapeWork(args, caps, rs) \in {refutedWork, leaf}
        BY <2>2 DEF stageEscapeWork, leaf, id
      <4>3. stageEscapeWork(args, more, rs) = stageEscapeWork(args, caps, rs)
        BY <2>2, <4>1 DEF stageEscapeWork, leaf, leaf1, id
      <4>4. QED
        BY <1>1, <2>2, <4>2, <4>3, RefutedFacts DEF Grows
    <3>2. CASE leaf.decision = "UNKNOWN"
      <4>1. stageEscapeWork(args, caps, rs) = leaf
        BY <2>2, <3>2 DEF stageEscapeWork
      <4> HIDE DEF leaf, leaf1, id
      <4>2. QED
        BY <1>1, <2>2, <3>2, <4>1 DEF Grows
    <3>3. QED
      BY <1>1, <2>2, <3>1, <3>2
  <2>3. QED
    BY <2>1, <2>2
<1>4. /\ Grows(originCaptureWork(args, caps, rs), originCaptureWork(args, more, rs))
      /\ Actionable(originCaptureWork(args, caps, rs), caps)
  <2>1. CASE Len(args) # 2 \/ id \notin DOMAIN Operations
    BY <2>1, RefutedFacts DEF originCaptureWork
  <2>2. CASE Len(args) = 2 /\ id \in DOMAIN Operations
    <3>1. CASE leaf.decision = "CLOSED"
      <4>1. leaf1 = leaf
        BY <1>1, <2>2, <3>1 DEF Grows
      <4> HIDE DEF leaf, leaf1, id
      <4>2. originCaptureWork(args, caps, rs) \in {refutedWork, leaf}
        BY <2>2 DEF originCaptureWork, leaf, id
      <4>3. originCaptureWork(args, more, rs) = originCaptureWork(args, caps, rs)
        BY <2>2, <4>1 DEF originCaptureWork, leaf, leaf1, id
      <4>4. QED
        BY <1>1, <2>2, <4>2, <4>3, RefutedFacts DEF Grows
    <3>2. CASE leaf.decision = "UNKNOWN"
      <4>1. originCaptureWork(args, caps, rs) = leaf
        BY <2>2, <3>2 DEF originCaptureWork
      <4> HIDE DEF leaf, leaf1, id
      <4>2. QED
        BY <1>1, <2>2, <3>2, <4>1 DEF Grows
    <3>3. QED
      BY <1>1, <2>2, <3>1, <3>2
  <2>3. QED
    BY <2>1, <2>2
<1>5. /\ Grows(instantiateWork(args, caps, rs), instantiateWork(args, more, rs))
      /\ Actionable(instantiateWork(args, caps, rs), caps)
  <2> DEFINE outside == \/ Len(args) # 2 \/ args[1].args # <<>> \/ args[2].args # <<>>
                        \/ id \notin DOMAIN Operations \/ "capability_binding" \notin rs
             with == <<capability>>
  <2>1. CASE outside
    BY <2>1, RefutedFacts DEF instantiateWork
  <2>2. CASE ~outside /\ capability \notin Capabilities \cap caps
    <3>1. instantiateWork(args, caps, rs) = capabilityUnknown(capability)
      BY <2>2 DEF instantiateWork
    <3>2. capability \notin caps
      BY <2>2
    <3> HIDE DEF capability
    <3>3. QED
      BY <3>1, <3>2, UnknownFacts DEF Grows
  <2>3. CASE ~outside /\ capability \in Capabilities \cap caps
    <3>1. CASE "$cap" \notin Range(Operations[id].requires)
      BY <2>3, <3>1, RefutedFacts DEF instantiateWork
    <3>2. CASE "$cap" \in Range(Operations[id].requires)
      <4>1. /\ instantiateWork(args, caps, rs) = leafWork(id, with, caps)
            /\ instantiateWork(args, more, rs) = leafWork(id, with, more)
            /\ id \in DOMAIN Operations
        BY <2>3, <3>2 DEF instantiateWork
      <4> HIDE DEF id, with
      <4>2. QED
        BY <4>1, LeafFacts
    <3>3. QED
      BY <3>1, <3>2
  <2>4. QED
    BY <2>1, <2>2, <2>3
<1>6. /\ Grows(operationWork(name, caps), operationWork(name, more))
      /\ Actionable(operationWork(name, caps), caps)
  <2>1. CASE name \notin DOMAIN Operations
    BY <2>1, RefutedFacts DEF operationWork
  <2>2. CASE name \in DOMAIN Operations
    <3> DEFINE none == <<>>
    <3>1. /\ operationWork(name, caps) = leafWork(name, none, caps)
          /\ operationWork(name, more) = leafWork(name, none, more)
      BY <2>2 DEF operationWork
    <3> HIDE DEF none
    <3>2. QED
      BY <2>2, <3>1, LeafFacts
  <2>3. QED
    BY <2>1, <2>2
<1>7. QED
  BY <1>3, <1>4, <1>5, <1>6

(* unbound is somewhere in an expression.                                  *)
LEMMA WithdrawsIs ==
  ASSUME NEW size, Measures(size)
  PROVE  \A expr \in Exprs :
           Withdraws[expr] <=>
             expr.name = "unbound" \/ \E i \in DOMAIN expr.args : Withdraws[expr.args[i]]
<1> DEFINE says(f, expr) == expr.name = "unbound" \/ \E i \in DOMAIN expr.args : f[expr.args[i]]
           step == [x \in [Exprs -> BOOLEAN] \X Exprs |-> says(x[1], x[2])]
           fix(f) == f = [expr \in Exprs |-> says(f, expr)]
<1>1. \A f \in [Exprs -> BOOLEAN], expr \in Exprs : step[<<f, expr>>] = says(f, expr)
  OBVIOUS
<1>2. step \in [[Exprs -> BOOLEAN] \X Exprs -> BOOLEAN]
  OBVIOUS
<1> HIDE DEF step
<1>3. LooksBelow(Exprs, BOOLEAN, size, step)
  <2>1. SUFFICES ASSUME NEW expr \in Exprs, NEW f \in [Exprs -> BOOLEAN],
                        NEW g \in [Exprs -> BOOLEAN],
                        \A d \in Exprs : size[d] < size[expr] => f[d] = g[d]
                 PROVE  step[<<f, expr>>] = step[<<g, expr>>]
    BY DEF LooksBelow
  <2>2. ASSUME NEW i \in DOMAIN expr.args PROVE f[expr.args[i]] = g[expr.args[i]]
    <3>1. expr.args[i] \in Exprs
      BY ArgsAreExprs
    <3>2. QED
      BY <2>1, <3>1 DEF Measures
  <2>3. says(f, expr) = says(g, expr)
    BY <2>2
  <2>4. QED
    BY <1>1, <2>3
<1>4. PICK f \in [Exprs -> BOOLEAN] : Follows(f, Exprs, step)
  <2>1. TRUE \in BOOLEAN /\ size \in [Exprs -> Nat]
    BY DEF Measures
  <2>2. QED
    BY <1>2, <1>3, <2>1, RecursionExists
<1>5. \E h : fix(h)
  <2> DEFINE g == [expr \in Exprs |-> says(f, expr)]
  <2>1. \A expr \in Exprs : f[expr] = step[<<f, expr>>]
    BY <1>4 DEF Follows
  <2>2. \A expr \in Exprs : step[<<f, expr>>] = says(f, expr)
    BY <1>1, Zenon
  <2>3. \A expr \in Exprs : g[expr] = says(f, expr)
    BY Zenon
  <2>4. \A expr \in Exprs : f[expr] = g[expr]
    BY <2>1, <2>2, <2>3, Zenon
  <2>5. f = [expr \in Exprs |-> f[expr]] /\ g = [expr \in Exprs |-> g[expr]]
    OBVIOUS
  <2> HIDE DEF g
  <2>6. f = g
    BY <2>4, <2>5
  <2>7. fix(f)
    BY <2>6, Zenon DEF g
  <2>8. QED
    BY <2>7, Zenon
<1>6. Withdraws = CHOOSE h : fix(h)
  BY DEF Withdraws
<1>7. fix(Withdraws)
  <2> HIDE DEF fix
  <2>1. QED
    BY <1>5, <1>6
<1> DEFINE h == Withdraws
<1>8. h = [expr \in Exprs |-> says(h, expr)]
  BY <1>7
<1> HIDE DEF h, fix
<1>9. \A expr \in Exprs : h[expr] <=> says(h, expr)
  BY <1>8
<1>10. QED
  BY <1>9 DEF h

-----------------------------------------------------------------------------
(* By induction on the size of an expression: its value grows with the     *)
(* capabilities, and what it asks for is not bound.                        *)
Grown(expr) ==
  \A rs \in SUBSET RuleIds : \A caps, more \in SUBSET Capabilities :
    /\ caps \subseteq more => Grows(Value(expr, caps, rs), Value(expr, more, rs))
    /\ Withdraws[expr] \/ Actionable(Value(expr, caps, rs), caps)

LEMMA ValuesGrow ==
  ASSUME NEW size, Measures(size), NEW expr \in Exprs,
         \A i \in DOMAIN expr.args : Grown(expr.args[i])
  PROVE  Grown(expr)
<1> SUFFICES ASSUME NEW rs \in SUBSET RuleIds,
                    NEW caps \in SUBSET Capabilities, NEW more \in SUBSET Capabilities
             PROVE  /\ caps \subseteq more => Grows(Value(expr, caps, rs), Value(expr, more, rs))
                    /\ Withdraws[expr] \/ Actionable(Value(expr, caps, rs), caps)
  BY DEF Grown
<1> DEFINE name == expr.name
           args == expr.args
           value == Value(expr, caps, rs)
           later == Value(expr, more, rs)
<1>1. Judged(expr, caps, rs) /\ Judged(expr, more, rs)
  BY ValueIs
<1>2. Len(args) \in Nat /\ DOMAIN args = 1 .. Len(args) /\ args \in Seq(Exprs)
  BY ExprsAssumption, LenProperties DEF Expr
<1>3. ASSUME NEW i \in DOMAIN args
      PROVE  /\ Value(args[i], caps, rs) \in Work /\ Value(args[i], more, rs) \in Work
             /\ caps \subseteq more => Grows(Value(args[i], caps, rs), Value(args[i], more, rs))
             /\ Withdraws[expr] \/ Actionable(Value(args[i], caps, rs), caps)
  <2>1. args[i] \in Exprs
    BY ArgsAreExprs
  <2>2. Value(args[i], caps, rs) \in Work /\ Value(args[i], more, rs) \in Work
    BY <2>1, ValueIs
  <2>3. Withdraws[args[i]] => Withdraws[expr]
    BY WithdrawsIs
  <2>4. QED
    BY <2>2, <2>3 DEF Grown
<1>4. CASE name = "compose"
  <2>1. CASE Len(args) # 2
    BY <1>1, <1>4, <2>1, RefutedFacts DEF Judged
  <2>2. CASE Len(args) = 2
    <3> DEFINE left == Value(args[1], caps, rs)
               right == Value(args[2], caps, rs)
               left1 == Value(args[1], more, rs)
               right1 == Value(args[2], more, rs)
    <3>1. 1 \in DOMAIN args /\ 2 \in DOMAIN args
      BY <1>2, <2>2
    <3>2. value = composeWork(left, right, rs) /\ later = composeWork(left1, right1, rs)
      BY <1>1, <1>4, <2>2 DEF Judged
    <3>3. /\ left \in Work /\ left1 \in Work
          /\ caps \subseteq more => Grows(left, left1)
          /\ Withdraws[expr] \/ Actionable(left, caps)
      BY <1>3, <3>1
    <3>4. /\ right \in Work /\ right1 \in Work
          /\ caps \subseteq more => Grows(right, right1)
          /\ Withdraws[expr] \/ Actionable(right, caps)
      BY <1>3, <3>1
    <3> HIDE DEF left, right, left1, right1, value, later
    <3>5. caps \subseteq more => Grows(value, later)
      BY <3>2, <3>3, <3>4, ComposeGrows
    <3>6. Withdraws[expr] \/ Actionable(value, caps)
      BY <3>2, <3>3, <3>4, ComposeActionable
    <3>7. QED
      BY <3>5, <3>6 DEF value, later
  <2>3. QED
    BY <2>1, <2>2
<1>5. CASE name = "unbound"
  <2>1. later = value
    BY <1>1, <1>5 DEF Judged
  <2>2. Withdraws[expr]
    BY <1>5, WithdrawsIs
  <2>3. QED
    BY <2>1, <2>2 DEF Grows
<1>6. CASE name = "replay"
  <2>1. CASE Len(args) # 1
    BY <1>1, <1>6, <2>1, RefutedFacts DEF Judged
  <2>2. CASE Len(args) = 1 /\ "replay.fixture" \notin caps
    <3>1. value = capabilityUnknown("replay.fixture")
      BY <1>1, <1>6, <2>2 DEF Judged
    <3>2. QED
      BY <2>2, <3>1, UnknownFacts DEF Grows
  <2>3. CASE Len(args) = 1 /\ "replay.fixture" \in caps
    <3> DEFINE result == Value(args[1], caps, rs)
               result1 == Value(args[1], more, rs)
    <3>1. 1 \in DOMAIN args
      BY <1>2, <2>3
    <3>2. /\ value = replayWork(result, rs)
          /\ caps \subseteq more => later = replayWork(result1, rs)
      BY <1>1, <1>6, <2>3 DEF Judged
    <3>3. /\ caps \subseteq more => Grows(result, result1)
          /\ Withdraws[expr] \/ Actionable(result, caps)
      BY <1>3, <3>1
    <3> HIDE DEF result, result1, value, later
    <3>4. caps \subseteq more => Grows(value, later)
      BY <3>2, <3>3, ReplayGrows
    <3>5. Withdraws[expr] \/ Actionable(value, caps)
      BY <3>2, <3>3, ReplayActionable
    <3>6. QED
      BY <3>4, <3>5 DEF value, later
  <2>4. QED
    BY <2>1, <2>2, <2>3
<1>7. CASE name \in {"instantiate", "stage_escape", "origin_capture"}
  BY <1>1, <1>2, <1>7, NamesGrow DEF Judged
<1>8. CASE name \notin Constructors
  BY <1>1, <1>2, <1>8, NamesGrow DEF Judged
<1>9. QED
  BY <1>4, <1>5, <1>6, <1>7, <1>8 DEF Constructors

LEMMA AllGrow ==
  ASSUME NEW size, Measures(size)
  PROVE  \A expr \in Exprs : Grown(expr)
<1> DEFINE S == {n \in Nat : \A expr \in Exprs : size[expr] < n => Grown(expr)}
<1>1. \A expr \in Exprs : size[expr] \in Nat
  BY DEF Measures
<1>2. 0 \in S
  BY <1>1
<1>3. ASSUME NEW n \in Nat, n \in S PROVE n + 1 \in S
  <2>1. ASSUME NEW expr \in Exprs, size[expr] < n + 1 PROVE Grown(expr)
    <3>1. ASSUME NEW i \in DOMAIN expr.args PROVE Grown(expr.args[i])
      <4>1. expr.args[i] \in Exprs
        BY ArgsAreExprs
      <4>2. size[expr.args[i]] < size[expr]
        BY DEF Measures
      <4>3. size[expr.args[i]] < n
        BY <1>1, <2>1, <4>1, <4>2
      <4>4. QED
        BY <1>3, <4>1, <4>3
    <3>2. QED
      BY <3>1, ValuesGrow
  <2>2. QED
    BY <2>1
<1> HIDE DEF S
<1>4. Nat \subseteq S
  BY <1>2, <1>3, NaturalInduction
<1>5. ASSUME NEW expr \in Exprs PROVE Grown(expr)
  <2>1. size[expr] + 1 \in S /\ size[expr] < size[expr] + 1
    BY <1>1, <1>4
  <2>2. QED
    BY <2>1 DEF S
<1>6. QED
  BY <1>5

-----------------------------------------------------------------------------
(* An UNKNOWN verdict comes with what the judgement asks for.              *)
Asking ==
  verdict = "UNKNOWN" =>
    LET value == Value(caseDecl.expression, caseDecl.bound, rules)
    IN  Declared /\ value.decision = "UNKNOWN" /\ proof.unknown = value.unknown

LEMMA NextAsks == Inv /\ Evaluating /\ Asking /\ [Next]_vars => Asking'
<1>1. SUFFICES ASSUME Inv, Evaluating, Asking, [Next]_vars PROVE Asking'
  OBVIOUS
<1>2. CASE RejectCase
  BY <1>2 DEF RejectCase, Asking
<1>3. CASE FinishCase
  <2> DEFINE target == Stages[caseDecl.target]
             final  == concluded(work, target)
  <2>1. /\ work # NoWork /\ caseDecl' = caseDecl /\ rules' = rules
    BY <1>3 DEF FinishCase, Finishing
  <2>2. Declared /\ Declared'
    BY <1>1, <2>1 DEF Inv, SoundState, Declared
  <2>3. work = Value(caseDecl.expression, caseDecl.bound, rules)
    BY <1>1, <2>1 DEF Evaluating
  <2>4. \/ verdict' = "error"
        \/ verdict' = final.decision /\ proof'.unknown = final.unknown
    BY <1>3 DEF FinishCase, ProofOf
  <2>5. final.decision = "UNKNOWN" => final = work
    <3>1. work \in Work
      BY <1>1, <2>1 DEF Inv, TypeOK
    <3>2. [work EXCEPT !.decision = "REFUTED"].decision = "REFUTED"
      BY <3>1 DEF Work
    <3>3. QED
      BY <3>2 DEF concluded
  <2> HIDE DEF final
  <2>6. ASSUME verdict' = "UNKNOWN"
        PROVE  work.decision = "UNKNOWN" /\ proof'.unknown = work.unknown
    BY <2>4, <2>5, <2>6
  <2>7. QED
    BY <2>1, <2>2, <2>3, <2>6 DEF Asking, Value
<1>4. CASE StartCase \/ Check \/ Finished \/ UNCHANGED vars
  <2>1. Local
    BY <1>4, CheckingLocal DEF StartCase, Finished, vars, Local, Check, CheckCompose,
       CheckInstantiate, CheckStageEscape, CheckOriginCapture, CheckUnbound, CheckReplay,
       CheckOperation
  <2>2. QED
    BY <1>1, <2>1 DEF Local, Asking, Declared, Value
<1>5. QED
  BY <1>1, <1>2, <1>3, <1>4 DEF Next, Typechecking

(* All that is known of the states of TypecheckCase.                       *)
LEMMA KnownAlways ==
  ASSUME NEW size, Measures(size)
  PROVE  SafeSpec => [](Inv /\ Evaluating /\ Asking)
<1>1. Init => Inv /\ Evaluating /\ Asking
  BY InitInv, InitEvaluates DEF Init, Asking
<1>2. Inv /\ Evaluating /\ Asking /\ [Next]_vars => (Inv /\ Evaluating /\ Asking)'
  BY NextInv, NextEvaluates, NextAsks
<1>3. QED
  BY <1>1, <1>2, PTL DEF SafeSpec

(* Binding more capabilities never takes a verdict back: what was CLOSED   *)
(* stays as it is, with its typing, and what was REFUTED stays REFUTED.    *)
THEOREM VerdictsOnlyGrow ==
  ASSUME NEW size, Measures(size)
  PROVE  SafeSpec => []MoreCapabilities
<1>1. ASSUME Inv, Evaluating, Finishing, NEW extra \in SUBSET (Capabilities \ caseDecl.bound)
      PROVE  LET more == Atomic!judgement[[Atomic!CaseCall EXCEPT !.caps = @ \cup extra]]
             IN  Grows(work, more)
  <2> DEFINE expr == caseDecl.expression
             caps == caseDecl.bound
             larger == caps \cup extra
  <2>1. work # NoWork /\ Declared
    BY <1>1 DEF Finishing, Inv, SoundState
  <2>2. /\ expr \in Exprs /\ caps \in SUBSET Capabilities /\ rules \in SUBSET RuleIds
        /\ larger \in SUBSET Capabilities /\ caps \subseteq larger
    BY <1>1, <2>1, CasesAssumption DEF Inv, TypeOK, CaseDecl, Declared
  <2>3. [Atomic!CaseCall EXCEPT !.caps = @ \cup extra] = At(expr, larger, rules)
    BY DEF Atomic!CaseCall, At
  <2>4. work = Value(expr, caps, rules)
    BY <1>1, <2>1 DEF Evaluating
  <2>5. Grown(expr)
    BY <2>2, AllGrow
  <2>6. Grows(work, Value(expr, larger, rules))
    BY <2>2, <2>4, <2>5 DEF Grown
  <2>7. QED
    BY <2>3, <2>6 DEF Value
<1>2. Inv /\ Evaluating => MoreCapabilities
  BY <1>1 DEF MoreCapabilities, Grows
<1>3. QED
  BY <1>2, KnownAlways, PTL

(* An UNKNOWN proof tells what to bind, unless the expression withdraws    *)
(* capabilities itself: the tuple is complete and what it names is not     *)
(* bound already.                                                          *)
THEOREM UnknownAsksForMore ==
  ASSUME NEW size, Measures(size)
  PROVE  SafeSpec => []UnknownIsActionable
<1>1. ASSUME Inv, Asking, verdict = "UNKNOWN"
      PROVE  /\ Complete(proof.unknown)
             /\ Withdraws[caseDecl.expression]
                \/ Range(proof.unknown.blockedBy) \cap caseDecl.bound = {}
  <2> DEFINE expr == caseDecl.expression
             caps == caseDecl.bound
             value == Value(expr, caps, rules)
  <2>1. Complete(proof.unknown)
    BY <1>1 DEF Inv, SoundState, SoundProof, SoundWork, Decisions
  <2>2. Declared /\ value.decision = "UNKNOWN" /\ proof.unknown = value.unknown
    BY <1>1 DEF Asking
  <2>3. expr \in Exprs /\ caps \in SUBSET Capabilities /\ rules \in SUBSET RuleIds
    BY <1>1, <2>2, CasesAssumption DEF Inv, TypeOK, CaseDecl, Declared
  <2>4. Withdraws[expr] \/ Actionable(value, caps)
    BY <2>3, AllGrow DEF Grown
  <2>5. QED
    BY <2>1, <2>2, <2>4 DEF Actionable
<1>2. Inv /\ Asking => UnknownIsActionable
  BY <1>1 DEF UnknownIsActionable
<1>3. QED
  BY <1>2, KnownAlways, PTL
=============================================================================
