------------------------ MODULE MCCachedVectorStore ------------------------
(* Small instances of CachedVectorStore for TLC.                           *)
EXTENDS CachedVectorStore

CONSTANTS a, b, v, w, writer, r

\* w is twice as large as v, and under id b larger than the cache.
MCSize == [id \in ID |-> [val \in Val |-> (IF id = b THEN 2 ELSE 1) * (IF val = w THEN 2 ELSE 1)]]
============================================================================
