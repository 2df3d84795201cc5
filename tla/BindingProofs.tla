--------------------------- MODULE BindingProofs ---------------------------
(***************************************************************************)
(* What Binding promises, for any number of sources, contracts, cases and  *)
(* edits: the comparisons of verify.go accept what compile makes of the    *)
(* source and the contract, and nothing else.                              *)
(*                                                                         *)
(* The argument is in three parts: what a lowering is, field by field;     *)
(* what an edited file still is (BindingInv); and what passes the          *)
(* comparisons then.                                                       *)
(***************************************************************************)
EXTENDS Binding, SequenceTheorems, TLAPS

(* Records with the fields of an IR, of a proof and of the facts.          *)
IsIR(ir) ==
  ir = [schema |-> ir.schema, version |-> ir.version, sourceDigest |-> ir.sourceDigest,
        contractDigest |-> ir.contractDigest, fixed |-> ir.fixed, declared |-> ir.declared,
        cases |-> ir.cases, proofs |-> ir.proofs, irDigest |-> ir.irDigest]

IsProof(p) ==
  p = [schema |-> p.schema, caseID |-> p.caseID, decision |-> p.decision, reason |-> p.reason,
       facts |-> p.facts, sourceDigest |-> p.sourceDigest, contractDigest |-> p.contractDigest,
       irDigest |-> p.irDigest]

Facts == [of : STRING, args : {"some", "none", "empty"}]

(* Facts that come back from JSON as they are.                             *)
OnFile(facts) == facts \in Facts /\ Reloaded(facts) = facts

IsList(list) == list \in Seq(ToSet(list))

-----------------------------------------------------------------------------
(* Lists and records.                                                      *)

LEMMA ListDomain ==
  ASSUME NEW list, IsList(list)
  PROVE  /\ Len(list) \in Nat /\ DOMAIN list = 1 .. Len(list)
         /\ list = [i \in DOMAIN list |-> list[i]]
  BY LenProperties DEF IsList

(* What has the positions of a list and a value at each is a list.         *)
LEMMA ListOf ==
  ASSUME NEW list, IsList(list), NEW other, other = [i \in DOMAIN list |-> other[i]]
  PROVE  IsList(other) /\ DOMAIN other = DOMAIN list /\ Len(other) = Len(list)
<1> DEFINE S == ToSet(other)
           n == Len(list)
<1>1. n \in Nat /\ DOMAIN list = 1 .. n
  BY ListDomain
<1>2. \A i \in 1 .. n : other[i] \in S
  BY <1>1 DEF ToSet
<1>3. other = [i \in 1 .. n |-> other[i]]
  BY <1>1
<1> HIDE DEF S, n
<1>4. other \in Seq(S)
  BY <1>1, <1>2, <1>3, IsASeq
<1>5. Len(other) = n
  BY <1>1, <1>3, <1>4, LenProperties
<1> QED
  BY <1>1, <1>3, <1>4, <1>5 DEF S, n, IsList

(* Without its first entry, a list is a list of the others.                *)
LEMMA ListRest ==
  ASSUME NEW list, IsList(list), NEW rest, rest = SubSeq(list, 2, Len(list))
  PROVE  /\ IsList(rest)
         /\ \A i \in DOMAIN rest : i + 1 \in DOMAIN list /\ rest[i] = list[i + 1]
<1> DEFINE S == ToSet(list)
           n == Len(list)
<1>1. n \in Nat /\ DOMAIN list = 1 .. n /\ \A i \in 2 .. n : list[i] \in S
  BY ListDomain DEF ToSet
<1> HIDE DEF S, n
<1>2. /\ SubSeq(list, 2, n) \in Seq(S)
      /\ Len(SubSeq(list, 2, n)) = IF 2 <= n THEN n - 2 + 1 ELSE 0
      /\ \A i \in 1 .. n - 2 + 1 : SubSeq(list, 2, n)[i] = list[2 + i - 1]
  <2> 2 \in Int /\ n \in Int
    BY <1>1
  <2> QED
    BY <1>1, SubSeqProperties
<1>3. rest = SubSeq(list, 2, n)
  BY DEF n
<1>4. rest \in Seq(S) /\ DOMAIN rest = 1 .. Len(rest) /\ rest = [i \in 1 .. Len(rest) |-> rest[i]]
      /\ Len(rest) \in Nat
  BY <1>2, <1>3, LenProperties
<1>5. \A i \in DOMAIN rest : i + 1 \in DOMAIN list /\ rest[i] = list[i + 1]
  BY <1>1, <1>2, <1>3, <1>4
<1>6. \A i \in 1 .. Len(rest) : rest[i] \in ToSet(rest)
  BY <1>4 DEF ToSet
<1>7. IsList(rest)
  <2> DEFINE T == ToSet(rest)
             m == Len(rest)
  <2> HIDE DEF T, m
  <2>1. m \in Nat /\ rest = [i \in 1 .. m |-> rest[i]] /\ \A i \in 1 .. m : rest[i] \in T
    BY <1>4, <1>6 DEF T, m
  <2>2. rest \in Seq(T)
    BY <2>1, IsASeq
  <2> QED
    BY <2>2 DEF T, IsList
<1> QED
  BY <1>5, <1>7

LEMMA ReloadedFacts ==
  ASSUME NEW facts \in Facts
  PROVE  OnFile(Reloaded(facts))
  BY DEF Facts, OnFile, Reloaded

LEMMA ProofExcept ==
  ASSUME NEW p, IsProof(p), NEW d
  PROVE  [p EXCEPT !.irDigest = d]
         = [schema |-> p.schema, caseID |-> p.caseID, decision |-> p.decision, reason |-> p.reason,
            facts |-> p.facts, sourceDigest |-> p.sourceDigest,
            contractDigest |-> p.contractDigest, irDigest |-> d]
  BY DEF IsProof

LEMMA ProofOf ==
  ASSUME NEW p, IsProof(p), NEW c
  PROVE  [p EXCEPT !.contractDigest = c]
         = [schema |-> p.schema, caseID |-> p.caseID, decision |-> p.decision, reason |-> p.reason,
            facts |-> p.facts, sourceDigest |-> p.sourceDigest,
            contractDigest |-> c, irDigest |-> p.irDigest]
  BY DEF IsProof

(* An IR with another digest and other proofs.                             *)
Replaced(ir, d, list) ==
  [schema |-> ir.schema, version |-> ir.version, sourceDigest |-> ir.sourceDigest,
   contractDigest |-> ir.contractDigest, fixed |-> ir.fixed, declared |-> ir.declared,
   cases |-> ir.cases, proofs |-> list, irDigest |-> d]

LEMMA IRDigest ==
  ASSUME NEW ir, IsIR(ir), NEW d
  PROVE  [ir EXCEPT !.irDigest = d] = Replaced(ir, d, ir.proofs)
  BY DEF IsIR, Replaced

LEMMA IRProofs ==
  ASSUME NEW ir, IsIR(ir), NEW list
  PROVE  [ir EXCEPT !.proofs = list] = Replaced(ir, ir.irDigest, list)
  BY DEF IsIR, Replaced

LEMMA ReplacedIs ==
  ASSUME NEW ir, NEW d, NEW list
  PROVE  /\ IsIR(Replaced(ir, d, list)) /\ Replaced(ir, d, list).proofs = list
         /\ Replaced(ir, d, list).irDigest = d
  BY DEF IsIR, Replaced

LEMMA IRExcept ==
  ASSUME NEW ir, IsIR(ir), NEW d, NEW list
  PROVE  [ir EXCEPT !.irDigest = d, !.proofs = list] = Replaced(ir, d, list)
<1> DEFINE x == [ir EXCEPT !.irDigest = d]
<1>1. [ir EXCEPT !.irDigest = d, !.proofs = list] = [x EXCEPT !.proofs = list]
  OBVIOUS
<1>2. x = Replaced(ir, d, ir.proofs)
  BY IRDigest
<1> HIDE DEF x
<1>3. IsIR(x) /\ x.irDigest = d
  BY <1>2, ReplacedIs
<1>4. [x EXCEPT !.proofs = list] = Replaced(x, d, list)
  BY <1>3, IRProofs
<1> QED
  BY <1>1, <1>2, <1>4 DEF Replaced

(* The same shapes, as functions.                                          *)
IRFields == {"schema", "version", "sourceDigest", "contractDigest", "fixed", "declared",
             "cases", "proofs", "irDigest"}

ProofFields == {"schema", "caseID", "decision", "reason", "facts", "sourceDigest",
                "contractDigest", "irDigest"}

LEMMA IRShape ==
  ASSUME NEW ir
  PROVE  IsIR(ir) <=> ir = [field \in IRFields |-> ir[field]]
<1> DEFINE record == [schema |-> ir.schema, version |-> ir.version,
                      sourceDigest |-> ir.sourceDigest, contractDigest |-> ir.contractDigest,
                      fixed |-> ir.fixed, declared |-> ir.declared, cases |-> ir.cases,
                      proofs |-> ir.proofs, irDigest |-> ir.irDigest]
<1>1. record = [field \in IRFields |-> ir[field]]
  BY DEF IRFields
<1> QED
  BY <1>1 DEF IsIR

LEMMA ProofShape ==
  ASSUME NEW p
  PROVE  IsProof(p) <=> p = [field \in ProofFields |-> p[field]]
<1> DEFINE record == [schema |-> p.schema, caseID |-> p.caseID, decision |-> p.decision,
                      reason |-> p.reason, facts |-> p.facts, sourceDigest |-> p.sourceDigest,
                      contractDigest |-> p.contractDigest, irDigest |-> p.irDigest]
<1>1. record = [field \in ProofFields |-> p[field]]
  BY DEF ProofFields
<1> QED
  BY <1>1 DEF IsProof

(* Another field does not touch the proofs, nor the facts of a proof.      *)
LEMMA IRField ==
  ASSUME NEW ir, IsIR(ir), NEW v, NEW field \in IRFields \ {"proofs"}
  PROVE  IsIR([ir EXCEPT ![field] = v]) /\ [ir EXCEPT ![field] = v].proofs = ir.proofs
<1> DEFINE x == [ir EXCEPT ![field] = v]
<1>1. DOMAIN ir = IRFields
  BY IRShape
<1>2. x = [f \in IRFields |-> x[f]] /\ x["proofs"] = ir["proofs"]
  BY <1>1 DEF IRFields
<1> QED
  BY <1>2, IRShape

LEMMA ProofField ==
  ASSUME NEW p, IsProof(p), NEW v, NEW field \in ProofFields \ {"facts"}
  PROVE  IsProof([p EXCEPT ![field] = v]) /\ [p EXCEPT ![field] = v].facts = p.facts
<1> DEFINE x == [p EXCEPT ![field] = v]
<1>1. DOMAIN p = ProofFields
  BY ProofShape
<1>2. x = [f \in ProofFields |-> x[f]] /\ x["facts"] = p["facts"]
  BY <1>1 DEF ProofFields
<1> QED
  BY <1>2, ProofShape

LEMMA ProofFacts ==
  ASSUME NEW p, IsProof(p), NEW facts
  PROVE  /\ IsProof([p EXCEPT !.facts = facts]) /\ [p EXCEPT !.facts = facts].facts = facts
         /\ [p EXCEPT !.facts = p.facts] = p
         /\ [p EXCEPT !.facts = facts].caseID = p.caseID
<1> DEFINE x == [p EXCEPT !.facts = facts]
<1>1. DOMAIN p = ProofFields
  BY ProofShape
<1>2. x = [f \in ProofFields |-> x[f]] /\ x["facts"] = facts /\ x["caseID"] = p["caseID"]
  BY <1>1 DEF ProofFields
<1>3. [p EXCEPT !["facts"] = p["facts"]] = p
  BY ProofShape
<1> QED
  BY <1>2, <1>3, ProofShape

-----------------------------------------------------------------------------
(* A lowering, field by field.                                             *)

(* The IR that BuildIR signs, and its digest.                              *)
Unsigned(s, c) ==
  [schema |-> "ir", version |-> "v1", sourceDigest |-> s, contractDigest |-> c,
   fixed |-> TRUE, declared |-> Declarations[s],
   cases |-> [i \in DOMAIN Cases[s] |-> Cases[s][i].id],
   proofs |-> [i \in DOMAIN Cases[s] |-> [Proof(s, Cases[s][i]) EXCEPT !.contractDigest = c]],
   irDigest |-> <<>>]

Digest(s, c) == unsignedIRDigest(Unsigned(s, c))

LoweredProof(s, c, i) ==
  [schema |-> "generated", caseID |-> Cases[s][i].id, decision |-> Cases[s][i].decision,
   reason |-> Cases[s][i].reason, facts |-> Cases[s][i].facts,
   sourceDigest |-> s, contractDigest |-> c, irDigest |-> Digest(s, c)]

LoweredIR(s, c) ==
  [schema |-> "ir", version |-> "v1", sourceDigest |-> s, contractDigest |-> c,
   fixed |-> TRUE, declared |-> Declarations[s],
   cases |-> [i \in DOMAIN Cases[s] |-> Cases[s][i].id],
   proofs |-> [i \in DOMAIN Cases[s] |-> LoweredProof(s, c, i)],
   irDigest |-> Digest(s, c)]

LEMMA LoweringIs ==
  ASSUME NEW s, NEW c
  PROVE  BuildIR(s, c) = LoweredIR(s, c)
<1> DEFINE d == Digest(s, c)
           u == Unsigned(s, c)
<1>1. BuildIR(s, c) = Signed(u, d)
  BY DEF BuildIR, Unsigned, Digest
<1>2. ASSUME NEW i \in DOMAIN Cases[s]
      PROVE  [u.proofs[i] EXCEPT !.irDigest = d] = LoweredProof(s, c, i)
  <2> DEFINE p == [schema |-> "generated", caseID |-> Cases[s][i].id,
                   decision |-> Cases[s][i].decision, reason |-> Cases[s][i].reason,
                   facts |-> Cases[s][i].facts, sourceDigest |-> s, contractDigest |-> c,
                   irDigest |-> <<>>]
  <2>1. u.proofs[i] = [Proof(s, Cases[s][i]) EXCEPT !.contractDigest = c]
    BY <1>2 DEF Unsigned
  <2>2. [Proof(s, Cases[s][i]) EXCEPT !.contractDigest = c] = p
    <3> DEFINE q == Proof(s, Cases[s][i])
    <3>1. IsProof(q)
      BY DEF Proof, IsProof
    <3>2. /\ q.schema = "generated" /\ q.caseID = Cases[s][i].id
          /\ q.decision = Cases[s][i].decision /\ q.reason = Cases[s][i].reason
          /\ q.facts = Cases[s][i].facts /\ q.sourceDigest = s /\ q.irDigest = <<>>
      BY DEF Proof
    <3> HIDE DEF q
    <3>3. [q EXCEPT !.contractDigest = c] = p
      BY <3>1, <3>2, ProofOf
    <3> QED
      BY <3>3 DEF q
  <2>3. IsProof(p)
    BY DEF IsProof
  <2>4. [p EXCEPT !.irDigest = d] = LoweredProof(s, c, i)
    BY <2>3, ProofExcept DEF LoweredProof
  <2> QED
    BY <2>1, <2>2, <2>4
<1>3. DOMAIN u.proofs = DOMAIN Cases[s]
  BY DEF Unsigned
<1> HIDE DEF d
<1>4. [i \in DOMAIN u.proofs |-> [u.proofs[i] EXCEPT !.irDigest = d]]
      = [i \in DOMAIN Cases[s] |-> LoweredProof(s, c, i)]
  <2> HIDE DEF u
  <2> QED
    BY <1>2, <1>3
<1> DEFINE signed == [i \in DOMAIN u.proofs |-> [u.proofs[i] EXCEPT !.irDigest = d]]
<1>5. Signed(u, d) = [u EXCEPT !.irDigest = d, !.proofs = signed]
  BY DEF Signed
<1> HIDE DEF signed
<1>6. [u EXCEPT !.irDigest = d, !.proofs = signed]
      = [schema |-> "ir", version |-> "v1", sourceDigest |-> s, contractDigest |-> c,
         fixed |-> TRUE, declared |-> Declarations[s],
         cases |-> [i \in DOMAIN Cases[s] |-> Cases[s][i].id],
         proofs |-> signed, irDigest |-> d]
  <2>1. IsIR(u)
    BY DEF Unsigned, IsIR
  <2>2. /\ u.schema = "ir" /\ u.version = "v1" /\ u.sourceDigest = s /\ u.contractDigest = c
        /\ u.fixed = TRUE /\ u.declared = Declarations[s]
        /\ u.cases = [i \in DOMAIN Cases[s] |-> Cases[s][i].id]
    BY DEF Unsigned
  <2> HIDE DEF u
  <2>3. [u EXCEPT !.irDigest = d, !.proofs = signed] = Replaced(u, d, signed)
    BY <2>1, IRExcept
  <2> QED
    BY <2>2, <2>3 DEF Replaced
<1> QED
  BY <1>1, <1>4, <1>5, <1>6 DEF LoweredIR, d, signed

(* Signing does not change what is signed: a lowering has the digest that  *)
(* it carries.                                                             *)
LEMMA LoweringIsSigned ==
  ASSUME NEW s, NEW c
  PROVE  unsignedIRDigest(LoweredIR(s, c)) = Digest(s, c)
<1> DEFINE l == LoweredIR(s, c)
           u == Unsigned(s, c)
           Bare(ir) == [i \in DOMAIN ir.proofs |-> [ir.proofs[i] EXCEPT !.irDigest = <<>>]]
<1>1. DOMAIN l.proofs = DOMAIN Cases[s] /\ DOMAIN u.proofs = DOMAIN Cases[s]
  BY DEF LoweredIR, Unsigned
<1>2. ASSUME NEW i \in DOMAIN Cases[s]
      PROVE  [l.proofs[i] EXCEPT !.irDigest = <<>>] = [u.proofs[i] EXCEPT !.irDigest = <<>>]
  <2> DEFINE p == [schema |-> "generated", caseID |-> Cases[s][i].id,
                   decision |-> Cases[s][i].decision, reason |-> Cases[s][i].reason,
                   facts |-> Cases[s][i].facts, sourceDigest |-> s, contractDigest |-> c,
                   irDigest |-> <<>>]
  <2>1. u.proofs[i] = [Proof(s, Cases[s][i]) EXCEPT !.contractDigest = c]
    BY <1>2 DEF Unsigned
  <2>2. [Proof(s, Cases[s][i]) EXCEPT !.contractDigest = c] = p
    <3> DEFINE q == Proof(s, Cases[s][i])
    <3>1. IsProof(q)
      BY DEF Proof, IsProof
    <3>2. /\ q.schema = "generated" /\ q.caseID = Cases[s][i].id
          /\ q.decision = Cases[s][i].decision /\ q.reason = Cases[s][i].reason
          /\ q.facts = Cases[s][i].facts /\ q.sourceDigest = s /\ q.irDigest = <<>>
      BY DEF Proof
    <3> HIDE DEF q
    <3>3. [q EXCEPT !.contractDigest = c] = p
      BY <3>1, <3>2, ProofOf
    <3> QED
      BY <3>3 DEF q
  <2>3. IsProof(p) /\ IsProof(LoweredProof(s, c, i))
    BY DEF IsProof, LoweredProof
  <2>4. [p EXCEPT !.irDigest = <<>>] = p
    BY <2>3, ProofExcept
  <2>5. [LoweredProof(s, c, i) EXCEPT !.irDigest = <<>>] = p
    BY <2>3, ProofExcept DEF LoweredProof
  <2>6. l.proofs[i] = LoweredProof(s, c, i)
    BY <1>2 DEF LoweredIR
  <2> QED
    BY <2>1, <2>2, <2>4, <2>5, <2>6
<1>3. Bare(l) = Bare(u)
  <2> HIDE DEF l, u
  <2> QED
    BY <1>1, <1>2
<1>4. \A m : [l EXCEPT !.irDigest = <<>>, !.proofs = m] = [u EXCEPT !.irDigest = <<>>, !.proofs = m]
  <2>1. IsIR(l) /\ IsIR(u)
    BY DEF LoweredIR, Unsigned, IsIR
  <2>2. /\ l.schema = u.schema /\ l.version = u.version /\ l.sourceDigest = u.sourceDigest
        /\ l.contractDigest = u.contractDigest /\ l.fixed = u.fixed
        /\ l.declared = u.declared /\ l.cases = u.cases
    BY DEF LoweredIR, Unsigned
  <2> HIDE DEF l, u
  <2>3. ASSUME NEW m
        PROVE  [l EXCEPT !.irDigest = <<>>, !.proofs = m] = [u EXCEPT !.irDigest = <<>>, !.proofs = m]
    <3>1. [l EXCEPT !.irDigest = <<>>, !.proofs = m] = Replaced(l, <<>>, m)
      BY <2>1, IRExcept
    <3>2. [u EXCEPT !.irDigest = <<>>, !.proofs = m] = Replaced(u, <<>>, m)
      BY <2>1, IRExcept
    <3>3. Replaced(l, <<>>, m) = Replaced(u, <<>>, m)
      BY <2>2 DEF Replaced
    <3> QED
      BY <3>1, <3>2, <3>3
  <2> QED
    BY <2>3
<1>5. \A ir : unsignedIRDigest(ir) = <<[ir EXCEPT !.irDigest = <<>>, !.proofs = Marshalled(Bare(ir))]>>
  BY DEF unsignedIRDigest
<1> HIDE DEF l, u, Bare
<1> QED
  BY <1>3, <1>4, <1>5 DEF Digest, l, u

(* Two IRs of which one is a record agree where their digests do: in all   *)
(* but the digest they carry and their proofs.                             *)
LEMMA DigestTells ==
  ASSUME NEW ir, IsIR(ir), NEW other, IsIR(other),
         unsignedIRDigest(ir) = unsignedIRDigest(other)
  PROVE  /\ ir.schema = other.schema /\ ir.version = other.version
         /\ ir.sourceDigest = other.sourceDigest /\ ir.contractDigest = other.contractDigest
         /\ ir.fixed = other.fixed /\ ir.declared = other.declared /\ ir.cases = other.cases
<1> DEFINE Bare(x) == [i \in DOMAIN x.proofs |-> [x.proofs[i] EXCEPT !.irDigest = <<>>]]
           Unsign(x) == [x EXCEPT !.irDigest = <<>>, !.proofs = Marshalled(Bare(x))]
<1>1. \A x : unsignedIRDigest(x) = <<Unsign(x)>>
  BY DEF unsignedIRDigest
<1>2. ASSUME NEW x, IsIR(x)
      PROVE  /\ Unsign(x).schema = x.schema /\ Unsign(x).version = x.version
             /\ Unsign(x).sourceDigest = x.sourceDigest
             /\ Unsign(x).contractDigest = x.contractDigest
             /\ Unsign(x).fixed = x.fixed /\ Unsign(x).declared = x.declared
             /\ Unsign(x).cases = x.cases
  <2> DEFINE m == Marshalled(Bare(x))
  <2> HIDE DEF m
  <2>1. Unsign(x) = [[x EXCEPT !.irDigest = <<>>] EXCEPT !.proofs = m]
    BY <1>2 DEF IsIR, m
  <2>2. DOMAIN x = {"schema", "version", "sourceDigest", "contractDigest", "fixed", "declared",
                    "cases", "proofs", "irDigest"}
    BY <1>2 DEF IsIR
  <2> HIDE DEF Unsign
  <2> QED
    BY <2>1, <2>2
<1> HIDE DEF Unsign
<1>3. <<Unsign(ir)>> = <<Unsign(other)>>
  BY <1>1
<1>4. Unsign(ir) = Unsign(other)
  BY <1>3
<1> QED
  BY <1>2, <1>4

-----------------------------------------------------------------------------
(* What an edited file still is.                                           *)

(* A proof as it is in a file.                                             *)
FiledProof(p) == IsProof(p) /\ OnFile(p.facts)

FiledProofs(list) == IsList(list) /\ \A i \in DOMAIN list : FiledProof(list[i])

FiledIR(ir) == IsIR(ir) /\ FiledProofs(ir.proofs)

IDs(s) == {Cases[s][i].id : i \in DOMAIN Cases[s]}

BindingInv == FiledIR(irFile)

LEMMA CasesAre ==
  ASSUME NEW s \in Sources
  PROVE  /\ IsList(Cases[s])
         /\ \A i \in DOMAIN Cases[s] : Cases[s][i] \in CaseType /\ Cases[s][i].facts \in Facts
<1>1. Cases[s] \in Seq(CaseType)
  BY CasesAssumption
<1>2. \A i \in DOMAIN Cases[s] : Cases[s][i] \in CaseType
  BY <1>1, LenProperties, ElementOfSeq
<1>3. \A i \in DOMAIN Cases[s] : Cases[s][i].facts \in Facts
  BY <1>2 DEF CaseType, Facts
<1>4. IsList(Cases[s])
  <2> DEFINE T == ToSet(Cases[s])
             m == Len(Cases[s])
  <2>1. \A i \in 1 .. m : Cases[s][i] \in T
    BY <1>1, LenProperties DEF ToSet
  <2>2. m \in Nat /\ Cases[s] = [i \in 1 .. m |-> Cases[s][i]]
    BY <1>1, LenProperties
  <2> HIDE DEF T, m
  <2>3. Cases[s] \in Seq(T)
    BY <2>1, <2>2, IsASeq
  <2> QED
    BY <2>3 DEF T, IsList
<1> QED
  BY <1>2, <1>3, <1>4

LEMMA MarshalledProof ==
  ASSUME NEW p, IsProof(p), p.facts \in Facts,
         NEW q, q = [p EXCEPT !.facts = Reloaded(@)]
  PROVE  FiledProof(q) /\ q.caseID = p.caseID /\ (OnFile(p.facts) => q = p)
<1> DEFINE f == Reloaded(p.facts)
<1>1. q = [p EXCEPT !.facts = f]
  OBVIOUS
<1>2. OnFile(f) /\ (OnFile(p.facts) => f = p.facts)
  BY ReloadedFacts DEF OnFile
<1> HIDE DEF f
<1> DEFINE x == [p EXCEPT !.facts = f]
<1>a. IsProof(x) /\ x.facts = f /\ x.caseID = p.caseID
  BY ProofFacts
<1>3. IsProof(q) /\ q.facts = f /\ q.caseID = p.caseID
  BY <1>1, <1>a
<1>4. [p EXCEPT !.facts = p.facts] = p
  BY ProofFacts
<1>5. OnFile(p.facts) => q = p
  BY <1>1, <1>2, <1>4
<1> QED
  BY <1>2, <1>3, <1>5 DEF FiledProof

(* What is marshalled can be filed; what is on file is marshalled to       *)
(* itself.                                                                 *)
LEMMA MarshalledList ==
  ASSUME NEW list, IsList(list),
         \A i \in DOMAIN list : IsProof(list[i]) /\ list[i].facts \in Facts
  PROVE  /\ FiledProofs(Marshalled(list)) /\ DOMAIN Marshalled(list) = DOMAIN list
         /\ \A i \in DOMAIN list : Marshalled(list)[i].caseID = list[i].caseID
         /\ FiledProofs(list) => Marshalled(list) = list
<1> DEFINE m == Marshalled(list)
<1>1. m = [i \in DOMAIN list |-> [list[i] EXCEPT !.facts = Reloaded(@)]]
  BY DEF Marshalled
<1>2. /\ DOMAIN m = DOMAIN list /\ m = [i \in DOMAIN list |-> m[i]]
      /\ \A i \in DOMAIN list : m[i] = [list[i] EXCEPT !.facts = Reloaded(@)]
  BY <1>1
<1> HIDE DEF m
<1>3. \A i \in DOMAIN list : /\ FiledProof(m[i]) /\ m[i].caseID = list[i].caseID
                             /\ (OnFile(list[i].facts) => m[i] = list[i])
  BY <1>2, MarshalledProof
<1>4. IsList(m)
  BY <1>2, ListOf
<1>5. FiledProofs(list) => m = list
  <2> SUFFICES ASSUME FiledProofs(list) PROVE m = list
    OBVIOUS
  <2>1. \A i \in DOMAIN list : m[i] = list[i]
    BY <1>3 DEF FiledProofs, FiledProof
  <2> QED
    BY <1>2, <2>1, ListDomain
<1> QED
  BY <1>2, <1>3, <1>4, <1>5 DEF FiledProofs, m

(* What compile writes.                                                    *)
LEMMA LoweredList ==
  ASSUME NEW s \in Sources, NEW c
  PROVE  /\ IsIR(LoweredIR(s, c)) /\ IsList(LoweredIR(s, c).proofs)
         /\ DOMAIN LoweredIR(s, c).proofs = DOMAIN Cases[s]
         /\ \A i \in DOMAIN Cases[s] :
              /\ LoweredIR(s, c).proofs[i] = LoweredProof(s, c, i)
              /\ IsProof(LoweredProof(s, c, i))
              /\ LoweredProof(s, c, i).facts \in Facts
              /\ LoweredProof(s, c, i).caseID = Cases[s][i].id
<1> DEFINE list == [i \in DOMAIN Cases[s] |-> LoweredProof(s, c, i)]
<1>1. IsIR(LoweredIR(s, c)) /\ LoweredIR(s, c).proofs = list
  BY DEF LoweredIR, IsIR
<1>2. DOMAIN list = DOMAIN Cases[s] /\ list = [i \in DOMAIN Cases[s] |-> list[i]]
      /\ \A i \in DOMAIN Cases[s] : list[i] = LoweredProof(s, c, i)
  OBVIOUS
<1> HIDE DEF list
<1>3. IsList(list)
  BY <1>2, CasesAre, ListOf
<1>4. ASSUME NEW i \in DOMAIN Cases[s]
      PROVE  /\ IsProof(LoweredProof(s, c, i)) /\ LoweredProof(s, c, i).facts \in Facts
             /\ LoweredProof(s, c, i).caseID = Cases[s][i].id
  <2>1. Cases[s][i].facts \in Facts
    BY CasesAre
  <2> QED
    BY <2>1 DEF LoweredProof, IsProof
<1> QED
  BY <1>1, <1>2, <1>3, <1>4

LEMMA WrittenIR ==
  ASSUME NEW s \in Sources, NEW c
  PROVE  FiledIR(LoadIR(BuildIR(s, c)))
<1> DEFINE l == LoweredIR(s, c)
<1>1. LoadIR(BuildIR(s, c)) = [l EXCEPT !.proofs = Marshalled(l.proofs)]
  BY LoweringIs DEF LoadIR
<1>2. IsIR(l) /\ FiledProofs(Marshalled(l.proofs))
  <2>1. IsIR(l) /\ IsList(l.proofs)
        /\ \A i \in DOMAIN l.proofs : IsProof(l.proofs[i]) /\ l.proofs[i].facts \in Facts
    BY LoweredList
  <2> HIDE DEF l
  <2> QED
    BY <2>1, MarshalledList
<1> DEFINE m == Marshalled(l.proofs)
<1> HIDE DEF l, m
<1>3. LoadIR(BuildIR(s, c)) = Replaced(l, l.irDigest, m)
  BY <1>1, <1>2, IRProofs DEF m
<1> QED
  BY <1>2, <1>3, ReplacedIs DEF FiledIR, m

(* The table that compile writes has, for each case, the proof of it.      *)
LEMMA WrittenTable ==
  ASSUME NEW s \in Sources, NEW c \in Contracts, <<s, c>> \in Accepts
  PROVE  /\ DOMAIN GenerateGoSource(BuildIR(s, c)) = IDs(s)
         /\ \A i \in DOMAIN Cases[s] :
              GenerateGoSource(BuildIR(s, c))[Cases[s][i].id] = Marshalled(BuildIR(s, c).proofs)[i]
<1> DEFINE l == LoweredIR(s, c)
           m == Marshalled(l.proofs)
           of(id) == CHOOSE i \in DOMAIN m : m[i].caseID = id
           table == [id \in {m[i].caseID : i \in DOMAIN m} |-> m[of(id)]]
<1>1. BuildIR(s, c) = l /\ GenerateGoSource(BuildIR(s, c)) = table
  <2>1. BuildIR(s, c) = l
    BY LoweringIs
  <2>2. GenerateGoSource(l) = table
    BY Zenon DEF GenerateGoSource
  <2> QED
    BY <2>1, <2>2
<1>2. DOMAIN m = DOMAIN Cases[s] /\ \A i \in DOMAIN Cases[s] : m[i].caseID = Cases[s][i].id
  <2>1. /\ IsList(l.proofs) /\ DOMAIN l.proofs = DOMAIN Cases[s]
        /\ \A i \in DOMAIN l.proofs : /\ IsProof(l.proofs[i]) /\ l.proofs[i].facts \in Facts
                                      /\ l.proofs[i].caseID = Cases[s][i].id
    BY LoweredList
  <2> HIDE DEF l
  <2> QED
    BY <2>1, MarshalledList
<1>3. \A i, j \in DOMAIN Cases[s] : Cases[s][i].id = Cases[s][j].id => i = j
  BY AcceptsAssumption
<1> HIDE DEF m
<1>4. {m[i].caseID : i \in DOMAIN m} = IDs(s)
  BY <1>2 DEF IDs
<1>5. ASSUME NEW i \in DOMAIN Cases[s]
      PROVE  of(Cases[s][i].id) = i
  BY <1>2, <1>3
<1>6. DOMAIN table = IDs(s)
  BY <1>4
<1>7. ASSUME NEW i \in DOMAIN Cases[s]
      PROVE  table[Cases[s][i].id] = m[i]
  BY <1>4, <1>5 DEF IDs
<1> HIDE DEF table, l
<1>8. Marshalled(BuildIR(s, c).proofs) = m
  BY <1>1 DEF m
<1> QED
  BY <1>1, <1>6, <1>7, <1>8

(* Whatever field of a proof is edited, it is still a proof, with facts    *)
(* that come back from JSON as they are.                                   *)
LEMMA EditedProofIs ==
  ASSUME NEW p, FiledProof(p), NEW q \in EditedProofs(p)
  PROVE  FiledProof(q)
<1>1. IsProof(p) /\ OnFile(p.facts)
  BY DEF FiledProof
<1>2. CASE q.facts = p.facts /\ IsProof(q)
  BY <1>1, <1>2 DEF FiledProof
<1>3. CASE \E facts \in FileFacts : q = [p EXCEPT !.facts = facts]
  <2>1. PICK facts \in FileFacts : q = [p EXCEPT !.facts = facts]
    BY <1>3
  <2>2. PICK s \in Sources : facts \in {Reloaded(Cases[s][i].facts) : i \in DOMAIN Cases[s]}
    BY DEF FileFacts
  <2>3. PICK i \in DOMAIN Cases[s] : facts = Reloaded(Cases[s][i].facts)
    BY <2>2
  <2>4. OnFile(facts)
    BY <2>3, CasesAre, ReloadedFacts
  <2> DEFINE x == [p EXCEPT !.facts = facts]
  <2>5. IsProof(x) /\ x.facts = facts
    BY <1>1, ProofFacts
  <2> QED
    BY <2>1, <2>4, <2>5 DEF FiledProof
<1>4. ASSUME NEW field \in ProofFields \ {"facts"}, NEW v, q = [p EXCEPT ![field] = v]
      PROVE  q.facts = p.facts /\ IsProof(q)
  BY <1>1, <1>4, ProofField
<1>5. \/ \E facts \in FileFacts : q = [p EXCEPT !.facts = facts]
      \/ \E field \in ProofFields \ {"facts"} : \E v : q = [p EXCEPT ![field] = v]
  BY DEF EditedProofs, ProofFields
<1> QED
  BY <1>2, <1>3, <1>4, <1>5

LEMMA EditedTableIs ==
  ASSUME NEW table, table = [a \in DOMAIN table |-> table[a]], NEW other \in EditedTables(table)
  PROVE  /\ DOMAIN other = DOMAIN table /\ other = [a \in DOMAIN table |-> other[a]]
         /\ \A a \in DOMAIN table : \E b \in DOMAIN table :
              other[a] = table[b] \/ other[a] \in EditedProofs(table[b])
<1>1. CASE \E a \in DOMAIN table : \E p \in EditedProofs(table[a]) : other = [table EXCEPT ![a] = p]
  BY <1>1
<1>2. CASE \E a, b \in DOMAIN table : other = [table EXCEPT ![a] = table[b], ![b] = table[a]]
  <2>1. PICK a \in DOMAIN table, b \in DOMAIN table :
             other = [table EXCEPT ![a] = table[b], ![b] = table[a]]
    BY <1>2
  <2>2. other = [[table EXCEPT ![a] = table[b]] EXCEPT ![b] = table[a]]
    BY <2>1
  <2> QED
    BY <2>2
<1>3. \/ \E a \in DOMAIN table : \E p \in EditedProofs(table[a]) : other = [table EXCEPT ![a] = p]
      \/ \E a, b \in DOMAIN table : other = [table EXCEPT ![a] = table[b], ![b] = table[a]]
  <2>1. \/ other \in UNION {{[table EXCEPT ![a] = p] : p \in EditedProofs(table[a])} : a \in DOMAIN table}
        \/ other \in {Exchanged(table, ab[1], ab[2]) : ab \in (DOMAIN table) \X (DOMAIN table)}
    BY DEF EditedTables
  <2>2. ASSUME other \in {Exchanged(table, ab[1], ab[2]) : ab \in (DOMAIN table) \X (DOMAIN table)}
        PROVE  \E a, b \in DOMAIN table : other = [table EXCEPT ![a] = table[b], ![b] = table[a]]
    <3>1. PICK ab \in (DOMAIN table) \X (DOMAIN table) : other = Exchanged(table, ab[1], ab[2])
      BY <2>2
    <3>2. ab[1] \in DOMAIN table /\ ab[2] \in DOMAIN table
      BY <3>1
    <3>3. other = [table EXCEPT ![ab[1]] = table[ab[2]], ![ab[2]] = table[ab[1]]]
      BY <3>1 DEF Exchanged
    <3> QED
      BY <3>2, <3>3
  <2>3. ASSUME other \in UNION {{[table EXCEPT ![a] = p] : p \in EditedProofs(table[a])} : a \in DOMAIN table}
        PROVE  \E a \in DOMAIN table : \E p \in EditedProofs(table[a]) : other = [table EXCEPT ![a] = p]
    <3>1. PICK a \in DOMAIN table : other \in {[table EXCEPT ![a] = p] : p \in EditedProofs(table[a])}
      BY <2>3
    <3> QED
      BY <3>1
  <2> QED
    BY <2>1, <2>2, <2>3
<1> QED
  BY <1>1, <1>2, <1>3

LEMMA EditedListIs ==
  ASSUME NEW list, FiledProofs(list), NEW other \in EditedTables(list)
  PROVE  FiledProofs(other)
<1>1. IsList(list) /\ list = [i \in DOMAIN list |-> list[i]]
  BY ListDomain DEF FiledProofs
<1>2. /\ DOMAIN other = DOMAIN list /\ other = [i \in DOMAIN list |-> other[i]]
      /\ \A i \in DOMAIN list : \E b \in DOMAIN list :
           other[i] = list[b] \/ other[i] \in EditedProofs(list[b])
  BY <1>1, EditedTableIs
<1>3. \A i \in DOMAIN list : FiledProof(other[i])
  BY <1>2, EditedProofIs DEF FiledProofs
<1> QED
  BY <1>1, <1>2, <1>3, ListOf DEF FiledProofs

LEMMA SignedIs ==
  ASSUME NEW ir, FiledIR(ir), NEW d
  PROVE  FiledIR(Signed(ir, d))
<1> DEFINE list == [i \in DOMAIN ir.proofs |-> [ir.proofs[i] EXCEPT !.irDigest = d]]
<1>1. Signed(ir, d) = [ir EXCEPT !.irDigest = d, !.proofs = list]
  BY DEF Signed
<1>2. DOMAIN list = DOMAIN ir.proofs /\ list = [i \in DOMAIN ir.proofs |-> list[i]]
      /\ \A i \in DOMAIN ir.proofs : list[i] = [ir.proofs[i] EXCEPT !.irDigest = d]
  OBVIOUS
<1> HIDE DEF list
<1>3. \A i \in DOMAIN ir.proofs : FiledProof(ir.proofs[i]) /\ IsList(ir.proofs)
  BY DEF FiledIR, FiledProofs
<1>4. ASSUME NEW i \in DOMAIN ir.proofs PROVE FiledProof(list[i])
  <2>1. IsProof(ir.proofs[i]) /\ OnFile(ir.proofs[i].facts)
    BY <1>3 DEF FiledProof
  <2> DEFINE x == [ir.proofs[i] EXCEPT !["irDigest"] = d]
  <2>2. IsProof(x) /\ x.facts = ir.proofs[i].facts
    BY <2>1, ProofField DEF ProofFields
  <2> QED
    BY <1>2, <2>1, <2>2 DEF FiledProof
<1>5. FiledProofs(list)
  BY <1>2, <1>3, <1>4, ListOf DEF FiledProofs, FiledIR
<1>6. Signed(ir, d) = Replaced(ir, d, list)
  BY <1>1, IRExcept DEF FiledIR
<1> QED
  BY <1>5, <1>6, ReplacedIs DEF FiledIR

(* Whatever field of an IR is edited, exchanged, cut or signed again, it   *)
(* is still an IR with proofs as they are in a file.                       *)
LEMMA EditedIRIs ==
  ASSUME FiledIR(irFile), NEW ir \in EditedIRs
  PROVE  FiledIR(ir)
<1>1. IsIR(irFile) /\ FiledProofs(irFile.proofs)
  BY DEF FiledIR
<1>2. ASSUME NEW field \in IRFields \ {"proofs"}, NEW v, ir = [irFile EXCEPT ![field] = v]
      PROVE  FiledIR(ir)
  BY <1>1, <1>2, IRField DEF FiledIR
<1>3. ASSUME NEW list, FiledProofs(list), ir = [irFile EXCEPT !.proofs = list]
      PROVE  FiledIR(ir)
  BY <1>1, <1>3, IRProofs, ReplacedIs DEF FiledIR
<1>4. CASE ir = [irFile EXCEPT !.proofs = SubSeq(@, 2, Len(@))]
  <2> DEFINE rest == SubSeq(irFile.proofs, 2, Len(irFile.proofs))
  <2>1. ir = [irFile EXCEPT !.proofs = rest]
    BY <1>4
  <2>2. FiledProofs(rest)
    BY <1>1, ListRest DEF FiledProofs
  <2> QED
    BY <1>3, <2>1, <2>2
<1>5. CASE \E list \in EditedTables(irFile.proofs) : ir = [irFile EXCEPT !.proofs = list]
  BY <1>1, <1>3, <1>5, EditedListIs
<1>6. CASE ir = Signed(irFile, unsignedIRDigest(irFile))
  BY <1>6, SignedIs
<1>7. \/ ir = [irFile EXCEPT !.proofs = SubSeq(@, 2, Len(@))]
      \/ \E list \in EditedTables(irFile.proofs) : ir = [irFile EXCEPT !.proofs = list]
      \/ ir = Signed(irFile, unsignedIRDigest(irFile))
      \/ \E field \in IRFields \ {"proofs"} : \E v : ir = [irFile EXCEPT ![field] = v]
  BY DEF EditedIRs, IRFields
<1> QED
  BY <1>2, <1>4, <1>5, <1>6, <1>7

LEMMA BindingAlways == Spec => []BindingInv
<1>1. Init => BindingInv
  BY WrittenIR DEF Init, BindingInv
<1>2. BindingInv /\ [Next]_vars => BindingInv'
  <2> SUFFICES ASSUME BindingInv, [Next]_vars PROVE BindingInv'
    OBVIOUS
  <2>1. CASE Compile
    <3>1. source \in Sources
      BY <2>1, AcceptsAssumption DEF Compile
    <3> QED
      BY <2>1, <3>1, WrittenIR DEF Compile, BindingInv
  <2>2. CASE Edit
    <3>1. irFile' \in EditedIRs \/ irFile' = irFile
      BY <2>2 DEF Edit
    <3> QED
      BY <3>1, EditedIRIs DEF BindingInv
  <2>3. CASE UNCHANGED vars
    BY <2>3 DEF BindingInv, vars
  <2> QED
    BY <2>1, <2>2, <2>3 DEF Next
<1> QED
  BY <1>1, <1>2, PTL DEF Spec

-----------------------------------------------------------------------------
(* What passes the comparisons.                                            *)

LEMMA LoweringIsValid ==
  ASSUME NEW s, NEW c, <<s, c>> \in Accepts
  PROVE  ValidateIR(LoweredIR(s, c))
<1>1. s \in Sources /\ c \in Contracts /\ s # "" /\ c # "" /\ Len(Cases[s]) = FixedCaseCount
  BY AcceptsAssumption
<1> DEFINE l == LoweredIR(s, c)
<1>2. /\ l.schema = "ir" /\ l.version = "v1" /\ l.sourceDigest = s /\ l.contractDigest = c
      /\ l.fixed = TRUE /\ l.irDigest = Digest(s, c)
      /\ l.cases = [i \in DOMAIN Cases[s] |-> Cases[s][i].id]
  BY DEF LoweredIR
<1>3. unsignedIRDigest(l) = l.irDigest /\ l.irDigest # <<>>
  <2>1. \A x : <<x>> # <<>>
    OBVIOUS
  <2>2. Digest(s, c) # <<>>
    BY <2>1 DEF Digest, unsignedIRDigest
  <2> QED
    BY <1>2, <2>2, LoweringIsSigned
<1>4. IsList(l.proofs) /\ DOMAIN l.proofs = DOMAIN Cases[s] /\ IsList(Cases[s])
      /\ \A i \in DOMAIN l.proofs : l.proofs[i] = LoweredProof(s, c, i)
  BY <1>1, LoweredList, CasesAre
<1>5. ASSUME NEW i \in DOMAIN l.proofs
      PROVE  /\ l.proofs[i].irDigest = l.irDigest /\ l.proofs[i].sourceDigest = l.sourceDigest
             /\ l.proofs[i].contractDigest = l.contractDigest /\ l.proofs[i].caseID = l.cases[i]
  <2>1. LoweredProof(s, c, i).irDigest = Digest(s, c) /\ LoweredProof(s, c, i).sourceDigest = s
        /\ LoweredProof(s, c, i).contractDigest = c
        /\ LoweredProof(s, c, i).caseID = Cases[s][i].id
    BY DEF LoweredProof
  <2> HIDE DEF l
  <2> QED
    BY <1>2, <1>4, <2>1
<1> HIDE DEF l
<1>6. Len(l.proofs) = FixedCaseCount
  <2>1. l.proofs = [i \in DOMAIN Cases[s] |-> l.proofs[i]]
    BY <1>4, ListDomain
  <2> QED
    BY <1>1, <1>4, <2>1, ListOf
<1>7. Len(l.cases) = FixedCaseCount
  <2>1. l.cases = [i \in DOMAIN Cases[s] |-> l.cases[i]]
    BY <1>2
  <2> QED
    BY <1>1, <1>4, <2>1, ListOf
<1> QED
  BY <1>1, <1>2, <1>3, <1>5, <1>6, <1>7 DEF ValidateIR, l

(* Of the records that look like an IR, verify.go accepts one.             *)
LEMMA OneIsAccepted ==
  ASSUME NEW ir, IsIR(ir), NEW s, NEW c
  PROVE  VerifyIRAgainstSource(ir, s, c) <=> <<s, c>> \in Accepts /\ ir = LoweredIR(s, c)
<1> DEFINE l == LoweredIR(s, c)
<1>1. BuildIR(s, c) = l
  BY LoweringIs
<1>2. IsIR(l) /\ l.irDigest = Digest(s, c) /\ unsignedIRDigest(l) = Digest(s, c)
  BY LoweringIsSigned DEF LoweredIR, IsIR
<1>3. <<s, c>> \in Accepts => ValidateIR(l)
  BY LoweringIsValid
<1> HIDE DEF l
<1>4. ASSUME VerifyIRAgainstSource(ir, s, c)
      PROVE  ir = l
  <2>1. /\ unsignedIRDigest(ir) = ir.irDigest /\ l.irDigest = ir.irDigest /\ l.proofs = ir.proofs
    BY <1>1, <1>4 DEF VerifyIRAgainstSource, ValidateIR
  <2>2. unsignedIRDigest(ir) = unsignedIRDigest(l)
    BY <1>2, <2>1
  <2>3. /\ ir.schema = l.schema /\ ir.version = l.version
        /\ ir.sourceDigest = l.sourceDigest /\ ir.contractDigest = l.contractDigest
        /\ ir.fixed = l.fixed /\ ir.declared = l.declared /\ ir.cases = l.cases
    BY <1>2, <2>2, DigestTells
  <2>4. \A field \in IRFields : ir[field] = l[field]
    BY <2>1, <2>3 DEF IRFields
  <2> QED
    BY <1>2, <2>4, IRShape
<1>5. VerifyIRAgainstSource(ir, s, c) => <<s, c>> \in Accepts
  BY DEF VerifyIRAgainstSource
<1>6. ASSUME <<s, c>> \in Accepts, ir = l
      PROVE  VerifyIRAgainstSource(ir, s, c)
  BY <1>1, <1>3, <1>6 DEF VerifyIRAgainstSource
<1> QED
  BY <1>4, <1>5, <1>6 DEF l

(* verify.go accepts one IR for a source and a contract, their lowering,   *)
(* whatever was edited, exchanged or signed again.                         *)
THEOREM LoweringIsAccepted == Spec => []OneIRIsAccepted
<1>1. BindingInv => OneIRIsAccepted
  BY LoweringIs, OneIsAccepted DEF BindingInv, FiledIR, OneIRIsAccepted, Lowered
<1> QED
  BY <1>1, BindingAlways, PTL

(* What is known once an IR was accepted: it is the lowering, its proofs   *)
(* came back from the file, and whose they are tells them apart.           *)
LEMMA OnceAccepted ==
  ASSUME BindingInv, VerifyIRAgainstSource(irFile, source, contract)
  PROVE  /\ source \in Sources /\ contract \in Contracts /\ <<source, contract>> \in Accepts
         /\ irFile = Lowered /\ typecheckCommand = irFile.proofs
         /\ Marshalled(irFile.proofs) = irFile.proofs
         /\ DOMAIN irFile.proofs = DOMAIN Cases[source]
         /\ \A i \in DOMAIN Cases[source] :
              /\ irFile.proofs[i].schema = "generated"
              /\ irFile.proofs[i].caseID = Cases[source][i].id
              /\ irFile.proofs[i].decision = Cases[source][i].decision
              /\ irFile.proofs[i].reason = Cases[source][i].reason
              /\ irFile.proofs[i].sourceDigest = irFile.sourceDigest
              /\ irFile.proofs[i].contractDigest = irFile.contractDigest
              /\ irFile.proofs[i].irDigest = irFile.irDigest
         /\ irFile.sourceDigest # "" /\ irFile.contractDigest # "" /\ irFile.irDigest # <<>>
         /\ \A i \in DOMAIN Cases[source] : Cases[source][i].id # ""
         /\ \A i, j \in DOMAIN Cases[source] : Cases[source][i].id = Cases[source][j].id => i = j
<1> DEFINE l == LoweredIR(source, contract)
<1>1. /\ <<source, contract>> \in Accepts /\ irFile = l
      /\ irFile.sourceDigest # "" /\ irFile.contractDigest # "" /\ irFile.irDigest # <<>>
  <2>1. <<source, contract>> \in Accepts /\ irFile = l
    BY OneIsAccepted DEF BindingInv, FiledIR
  <2>2. ValidateIR(irFile)
    BY DEF VerifyIRAgainstSource
  <2> QED
    BY <2>1, <2>2 DEF ValidateIR
<1>2. source \in Sources /\ contract \in Contracts
  BY <1>1, AcceptsAssumption
<1>3. BuildIR(source, contract) = l
  BY LoweringIs
<1>4. IsList(irFile.proofs) /\ FiledProofs(irFile.proofs)
  BY DEF BindingInv, FiledIR, FiledProofs
<1>5. Marshalled(irFile.proofs) = irFile.proofs
  BY <1>4, MarshalledList DEF FiledProofs, FiledProof, OnFile
<1>6. DOMAIN l.proofs = DOMAIN Cases[source]
      /\ \A i \in DOMAIN Cases[source] : l.proofs[i] = LoweredProof(source, contract, i)
  BY <1>2, LoweredList
<1>7. l.sourceDigest = source /\ l.contractDigest = contract /\ l.irDigest = Digest(source, contract)
  BY DEF LoweredIR
<1> HIDE DEF l
<1>8. ASSUME NEW i \in DOMAIN Cases[source]
      PROVE  /\ irFile.proofs[i].schema = "generated"
             /\ irFile.proofs[i].caseID = Cases[source][i].id
             /\ irFile.proofs[i].decision = Cases[source][i].decision
             /\ irFile.proofs[i].reason = Cases[source][i].reason
             /\ irFile.proofs[i].sourceDigest = irFile.sourceDigest
             /\ irFile.proofs[i].contractDigest = irFile.contractDigest
             /\ irFile.proofs[i].irDigest = irFile.irDigest
  <2>1. irFile.proofs[i] = LoweredProof(source, contract, i)
    BY <1>1, <1>6
  <2>2. /\ irFile.sourceDigest = source /\ irFile.contractDigest = contract
        /\ irFile.irDigest = Digest(source, contract)
    BY <1>1, <1>7
  <2> DEFINE q == irFile.proofs[i]
  <2> HIDE DEF q
  <2>3. /\ q.schema = "generated" /\ q.caseID = Cases[source][i].id
        /\ q.decision = Cases[source][i].decision /\ q.reason = Cases[source][i].reason
        /\ q.sourceDigest = source /\ q.contractDigest = contract
        /\ q.irDigest = Digest(source, contract)
    BY <2>1 DEF LoweredProof, q
  <2> QED
    BY <2>2, <2>3 DEF q
<1>9. /\ \A i \in DOMAIN Cases[source] : Cases[source][i].id # ""
      /\ \A i, j \in DOMAIN Cases[source] : Cases[source][i].id = Cases[source][j].id => i = j
  BY <1>1, <1>2, AcceptsAssumption
<1> QED
  BY <1>1, <1>2, <1>3, <1>5, <1>6, <1>8, <1>9 DEF Lowered, typecheckCommand

(* What execute calls verified is the lowering's proof of that case, or    *)
(* one that also is not CLOSED, for the same reason.                       *)
THEOREM ExecutedIsDeclared == Spec => []ExecutedAsDeclared
<1>1. ASSUME BindingInv
      PROVE  ExecutedAsDeclared
  <2> SUFFICES ASSUME NEW i \in DOMAIN Cases[source], executeCommand(i)
               PROVE  LET executed == proofJSON[Cases[source][i].id]
                      IN  /\ executed \in ToSet(typecheckCommand)
                          /\ executed.decision = Cases[source][i].decision
                          /\ executed.reason = Cases[source][i].reason
                          /\ Cases[source][i].decision = "CLOSED" => executed = typecheckCommand[i]
    BY DEF ExecutedAsDeclared
  <2> DEFINE executed == proofJSON[Cases[source][i].id]
             p == irFile.proofs[i]
  <2>1. /\ VerifyIRAgainstSource(irFile, source, contract)
        /\ VerifyProofBinding(executed, irFile) /\ VerifyExecution(p, Execute(executed))
    BY DEF executeCommand
  <2>2. /\ typecheckCommand = irFile.proofs /\ DOMAIN irFile.proofs = DOMAIN Cases[source]
        /\ \A j \in DOMAIN Cases[source] : irFile.proofs[j].caseID = Cases[source][j].id
        /\ p.decision = Cases[source][i].decision /\ p.reason = Cases[source][i].reason
        /\ p.caseID = Cases[source][i].id
        /\ \A j, k \in DOMAIN Cases[source] : Cases[source][j].id = Cases[source][k].id => j = k
    BY <1>1, <2>1, OnceAccepted
  <2> HIDE DEF executed, p
  <2>3. executed \in ToSet(irFile.proofs)
    BY <2>1 DEF VerifyProofBinding
  <2>4. executed.decision = p.decision /\ executed.reason = p.reason
        /\ (p.decision = "CLOSED" => executed.caseID = p.caseID)
    BY <2>1 DEF VerifyExecution, Execute
  <2>5. PICK j \in DOMAIN Cases[source] : executed = irFile.proofs[j]
    BY <2>2, <2>3 DEF ToSet
  <2>6. p.decision = "CLOSED" => executed = irFile.proofs[i]
    BY <2>2, <2>4, <2>5
  <2>7. /\ executed \in ToSet(typecheckCommand)
        /\ executed.decision = Cases[source][i].decision /\ executed.reason = Cases[source][i].reason
        /\ Cases[source][i].decision = "CLOSED" => executed = typecheckCommand[i]
    BY <2>2, <2>3, <2>4, <2>6
  <2> QED
    BY <2>7, Zenon DEF executed
<1> QED
  BY <1>1, BindingAlways, PTL

(* A table that has every entry of another one.                            *)
Holds(table, written) ==
  \A id \in DOMAIN written : id \in DOMAIN table /\ table[id] = written[id]

(* Conformance closes for exactly what compile would write now.            *)
LEMMA ClosesIfWritten ==
  ASSUME BindingInv, <<source, contract>> \in Accepts, irFile = Lowered,
         Holds(proofJSON, GenerateGoSource(Lowered))
  PROVE  RunConformance
<1>1. VerifyIRAgainstSource(irFile, source, contract)
  BY LoweringIs, OneIsAccepted DEF BindingInv, FiledIR, Lowered
<1>2. source \in Sources /\ contract \in Contracts
  BY AcceptsAssumption
<1> SUFFICES ASSUME NEW i \in DOMAIN Cases[source]
             PROVE  ConformanceCase(i)
  BY <1>1 DEF RunConformance
<1> DEFINE p == irFile.proofs[i]
           id == Cases[source][i].id
<1>3. /\ Marshalled(irFile.proofs) = irFile.proofs /\ i \in DOMAIN irFile.proofs
      /\ p.schema = "generated" /\ p.caseID = id /\ id # ""
      /\ p.sourceDigest = irFile.sourceDigest /\ p.contractDigest = irFile.contractDigest
      /\ p.irDigest = irFile.irDigest
      /\ irFile.sourceDigest # "" /\ irFile.contractDigest # "" /\ irFile.irDigest # <<>>
  BY <1>1, OnceAccepted
<1>4. id \in DOMAIN proofJSON /\ proofJSON[id] = Marshalled(irFile.proofs)[i]
  BY <1>2, WrittenTable DEF Lowered, IDs, Holds
<1> HIDE DEF p, id
<1>5. proofJSON[id] = p
  BY <1>3, <1>4 DEF p
<1>6. p \in ToSet(irFile.proofs)
  BY <1>3 DEF ToSet, p
<1>7. Executes(p) /\ VerifyProofBinding(p, irFile)
  BY <1>3, <1>6 DEF Executes, VerifyProofBinding
<1>8. VerifyExecution(p, Execute(p))
  BY <1>3 DEF VerifyExecution, Execute
<1>9. executeCommand(i)
  BY <1>1, <1>4, <1>5, <1>7, <1>8 DEF executeCommand, p, id
<1> QED
  BY <1>5, <1>9 DEF ConformanceCase, p, id

LEMMA WrittenIfCloses ==
  ASSUME BindingInv, RunConformance
  PROVE  /\ <<source, contract>> \in Accepts
         /\ irFile = Lowered /\ Holds(proofJSON, GenerateGoSource(Lowered))
<1>1. /\ VerifyIRAgainstSource(irFile, source, contract)
      /\ \A i \in DOMAIN Cases[source] : ConformanceCase(i)
  BY DEF RunConformance
<1>2. /\ source \in Sources /\ contract \in Contracts /\ <<source, contract>> \in Accepts
      /\ irFile = Lowered /\ Marshalled(irFile.proofs) = irFile.proofs
      /\ DOMAIN irFile.proofs = DOMAIN Cases[source]
      /\ \A i \in DOMAIN Cases[source] : irFile.proofs[i].caseID = Cases[source][i].id
      /\ \A i, j \in DOMAIN Cases[source] : Cases[source][i].id = Cases[source][j].id => i = j
  BY <1>1, OnceAccepted
<1> DEFINE table == GenerateGoSource(Lowered)
<1>3. /\ DOMAIN table = IDs(source)
      /\ \A i \in DOMAIN Cases[source] : table[Cases[source][i].id] = irFile.proofs[i]
  BY <1>2, WrittenTable DEF Lowered
<1>4. ASSUME NEW i \in DOMAIN Cases[source]
      PROVE  /\ Cases[source][i].id \in DOMAIN proofJSON
             /\ proofJSON[Cases[source][i].id] = irFile.proofs[i]
  <2> DEFINE p == proofJSON[Cases[source][i].id]
  <2>1. /\ Cases[source][i].id \in DOMAIN proofJSON /\ VerifyProofBinding(p, irFile)
        /\ p.caseID = irFile.proofs[i].caseID
    BY <1>1, Zenon DEF ConformanceCase, executeCommand
  <2> HIDE DEF p
  <2>2. p \in ToSet(irFile.proofs)
    BY <2>1 DEF VerifyProofBinding
  <2>3. PICK j \in DOMAIN irFile.proofs : p = irFile.proofs[j]
    BY <2>2 DEF ToSet
  <2>4. p = irFile.proofs[i]
    BY <1>2, <2>1, <2>3
  <2> QED
    BY <2>1, <2>4 DEF p
<1> HIDE DEF table
<1>5. Holds(proofJSON, table)
  BY <1>3, <1>4 DEF IDs, Holds
<1> QED
  BY <1>2, <1>5 DEF table

(* The code's promise of VerifyIRAgainstSource and VerifyProofBinding      *)
(* (verify.go:8-35): conformance closes if the IR and the generated proofs *)
(* are those that compile would write of the source as it is, and for no   *)
(* others.                                                                 *)
THEOREM ConformanceIsOfWhatIsWritten == Spec => []ConformanceIsExact
<1>1. ConformanceIsExact <=>
        (RunConformance <=> /\ <<source, contract>> \in Accepts /\ irFile = Lowered
                            /\ Holds(proofJSON, GenerateGoSource(Lowered)))
  BY DEF ConformanceIsExact, Holds
<1>2. BindingInv => ConformanceIsExact
  BY <1>1, ClosesIfWritten, WrittenIfCloses
<1> QED
  BY <1>2, BindingAlways, PTL
=============================================================================
