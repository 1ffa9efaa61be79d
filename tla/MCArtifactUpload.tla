-------------------------- MODULE MCArtifactUpload --------------------------
(***************************************************************************)
(* Instances of ArtifactUpload for TLC.                                    *)
(***************************************************************************)
EXTENDS ArtifactUpload, TLC

CONSTANTS p1, p2, headshot, slides

\* processes are interchangeable
Symmetry == Permutations(Process)
=============================================================================
