---------------------------- MODULE MCArtifacts ----------------------------
(***************************************************************************)
(* Instances of Artifacts for TLC: versions of the source and of the       *)
(* contract that go with each other and some that do not or cannot be      *)
(* read, two runs, one or two CLOSED cases and one that is not.            *)
(***************************************************************************)
EXTENDS ArtifactsRefinement, TLC

CONSTANT Odd \* what can be read and goes with nothing

GoodSources == (Sources \cap Readable) \ Odd
GoodContracts == (Contracts \cap Readable) \ Odd

ValidPairs == GoodSources \X GoodContracts

(* Neither the two runs nor the versions that are alike are told apart.    *)
(* Used where no liveness is checked.                                      *)
Symmetry ==
  Permutations(Runs) \cup Permutations(GoodSources \ EmptyCalls)
    \cup Permutations(GoodContracts)
=============================================================================
