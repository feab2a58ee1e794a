---------------------------- MODULE MCPackageBuild ----------------------------
(***************************************************************************)
(* Instances of PackageBuild: two builds of any two kinds, each with or    *)
(* without a diagnostics artefact.                                         *)
(***************************************************************************)
EXTENDS PackageBuild, TLC

Symmetry == Permutations(Builds)
================================================================================
