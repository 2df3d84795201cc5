---------------------------- MODULE RowOperators ----------------------------
(***************************************************************************)
(* The loops of typecheck.go and execute.go over rows, which are lists of  *)
(* identifiers, of capabilities or effects.  Duplicates are kept where the *)
(* code keeps them.                                                        *)
(***************************************************************************)
EXTENDS Integers, Sequences, Functions

appendUnique(values, value) ==
  IF value \in Range(values) THEN values ELSE Append(values, value)

union(left, right) ==
  LET row[i \in 0 .. Len(right)] ==
        IF i = 0 THEN left ELSE appendUnique(row[i - 1], right[i])
  IN  row[Len(right)]

(* A copy: union only drops the repetitions that its second row adds.      *)
unique(values) == union(values, <<>>)

(* Mutant: the rows are compared place by place.                           *)
overlapsInPlace(left, right) ==
  \E i \in DOMAIN left \cap DOMAIN right : left[i] = right[i]

overlaps(left, right) == Range(left) \cap Range(right) # {}

first(values) == IF values = <<>> THEN "" ELSE values[1]

(* The loop over operation.Requires in leafWork: "$cap" stands for the     *)
(* instantiating capabilities, and for nothing when there are none.        *)

(* Mutant: "$cap" is kept.                                                 *)
requirementAsDeclared(operation, instantiated) == operation.requires

requirement(operation, instantiated) ==
  LET required[i \in 0 .. Len(operation.requires)] ==
        IF i = 0 THEN <<>>
        ELSE IF operation.requires[i] = "$cap" THEN required[i - 1] \o instantiated
        ELSE Append(required[i - 1], operation.requires[i])
  IN  required[Len(operation.requires)]
=============================================================================
