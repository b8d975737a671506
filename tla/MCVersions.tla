----------------------------- MODULE MCVersions -----------------------------
(* Instances of DocumentVersions for TLC. *)
EXTENDS DocumentVersions, TLC

\* The chunks of a version are interchangeable.
ChunkSymmetry == Permutations(Chunks)
=============================================================================
