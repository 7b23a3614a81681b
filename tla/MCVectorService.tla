-------------------------- MODULE MCVectorService --------------------------
(* Small instances of VectorService for TLC.                               *)
EXTENDS VectorService, TLC

CONSTANTS a, b, c, v, w, empty, wide

\* v and w have one component, wide has two; empty has none.
MCDim == [val \in Val |-> CASE val = empty -> 0 [] val = wide -> 2 [] OTHER -> 1]

\* Identifiers are interchangeable, and so are payloads of one kind.
IDSymmetry == Permutations(ID)
Symmetry == IDSymmetry \cup Permutations({v, w})
============================================================================
