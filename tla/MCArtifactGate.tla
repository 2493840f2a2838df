--------------------------- MODULE MCArtifactGate ---------------------------
(***************************************************************************)
(* ArtifactGate on a small run.  Artifacts are interchangeable, and so are *)
(* requests; the properties checked are invariants and an action property. *)
(***************************************************************************)
EXTENDS ArtifactGate, TLC

Symmetry == Permutations(Artifacts) \cup Permutations(Requests)
=============================================================================
