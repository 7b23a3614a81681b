------------------------------ MODULE MCServer ------------------------------
(* Small instances of Server for TLC.                                      *)
EXTENDS Server

CONSTANTS r1, r2, k1, k2, proxy

NoVariable == [x \in {} |-> Unset]

\* Texts of file modes and their values.
MCOctal == [text \in {"0755", "755", "0644", "0700", "0600", "0"} |->
              CASE text \in {"0755", "755"} -> 493
                [] text = "0644" -> 420
                [] text = "0700" -> 448
                [] text = "0600" -> 384
                [] text = "0" -> 0]

\* A file that is no YAML; a production server with a key in the older
\* of its two places; a development server with authentication and the file
\* store; a file with every number out of range and every name unknown.
MCFiles ==
  {Junk,
   [profile |-> "production", apiKey |-> k1, dirMode |-> Unset, fileMode |-> "0",
    syncEvery |-> 2],
   [protocol |-> "grpc", authEnabled |-> TRUE, authKey |-> k1, syncEvery |-> 2, tlsEnabled |-> TRUE,
    rateLimitRPS |-> 0, trustXFF |-> TRUE, vectorStore |-> "disk", dirMode |-> "755", fileMode |-> "0644"],
   [protocol |-> "other", profile |-> "other", annProfile |-> "quality", mode |-> "other",
    maxK |-> 0, syncEvery |-> -1, annM |-> -1, rateLimitRPS |-> -1,
    annEvalSampleRate |-> 101, readTimeout |-> 0, fileMode |-> Junk]}

\* Nothing; another protocol and another key, with values that are refused; the
\* production profile with proxies.
MCEnvs ==
  {NoVariable,
   [protocol |-> "grpc", authKey |-> k2, grpcAuth |-> FALSE, maxK |-> 0, syncEvery |-> Junk,
    cacheTTL |-> Junk, annProfile |-> "fast", annEfSearch |-> 0],
   [profile |-> "production", mode |-> "ann", trustXFF |-> TRUE, trustedProxies |-> {proxy, Junk},
    metrics |-> Junk, grpcEnabled |-> TRUE]}
=============================================================================
