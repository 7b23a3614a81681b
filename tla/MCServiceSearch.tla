-------------------------- MODULE MCServiceSearch --------------------------
(* Small instances of ServiceSearch for TLC.                               *)
EXTENDS ServiceSearch

CONSTANTS a, b, v, w, q, far, wide

IDSymmetry == Permutations(ID)

\* The vectors, q and far have one component, the query wide has two.
MCDim == [val \in Val |-> 1]
MCQueryDim == [x \in Query |-> IF x = wide THEN 2 ELSE 1]
\* v is where q is, w is farther away.  far is infinitely far, and so is v: the
\* distance of the two is no number.
MCDistance ==
  [x \in Query |-> [val \in Val |-> CASE val = w -> 4
                                    [] x = far -> NaN
                                    [] OTHER -> 0]]
============================================================================
