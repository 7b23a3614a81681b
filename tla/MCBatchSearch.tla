--------------------------- MODULE MCBatchSearch ---------------------------
(* Instances of BatchSearch for TLC.                                       *)
EXTENDS BatchSearch

MCNaN == -1
\* z has no distance from vector 3 (Inf - Inf); s is longer than the vectors.
MCQueryDim == [p |-> 2, r |-> 2, z |-> 2, s |-> 3]
MCVectorDim == <<2, 2, 2>>
MCDistance == [p |-> <<2, 1, 4>>, r |-> <<1, 3, 1>>, z |-> <<3, 0, MCNaN>>, s |-> <<0, 0, 0>>]
Batch == << [q |-> "p", k |-> 2], [q |-> "z", k |-> 2], [q |-> "z", k |-> 1],
            [q |-> "s", k |-> 1], [q |-> "p", k |-> 3], [q |-> "r", k |-> 2] >>
============================================================================
