------------------------- MODULE MCFileVectorStore -------------------------
(* Small instances of FileVectorStore for TLC.                             *)
EXTENDS FileVectorStore, TLC

CONSTANTS a, b, v, w, r

\* Identifiers, and payloads, are interchangeable.
Symmetry == Permutations(ID) \cup Permutations(Val)
============================================================================
