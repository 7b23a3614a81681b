--------------------------- MODULE Configuration ---------------------------
(***************************************************************************)
(* How the server gets its settings: internal/config/config.go (defaults,  *)
(* the YAML file, the environment, the profiles), buildServer of           *)
(* cmd/server/main.go and applyDefaults of internal/api/server.go.         *)
(*                                                                         *)
(* A configuration is a function of setting names.  Paths, ports and the   *)
(* names of certificate files are only copied and are left out.  Names     *)
(* are trimmed and in lower case; durations are numbers of seconds.  A     *)
(* file mode stays the text it was written as until the server parses it.  *)
(***************************************************************************)
EXTENDS Integers

CONSTANTS
  Unset,   \* a value that is missing or blank
  Junk,    \* a value that does not parse; a file that is no YAML
  Octal    \* strconv.ParseUint(text, 8, 32): the number of a text that parses

\* Neither is a value that the code gives or asks for.  Several texts, such as
\* "0755" and "755", may stand for one number, and "0" stands for 0.
ASSUME ConfigAssumption ==
  /\ Unset # Junk /\ "production" \notin {Unset, Junk}
  /\ {"0755", "0644", "0700", "0600"} \subseteq DOMAIN Octal
  /\ {Unset, Junk} \cap DOMAIN Octal = {}
  /\ \A text \in DOMAIN Octal : Octal[text] \in Nat
  /\ Octal["0755"] = 493 /\ Octal["0644"] = 420 /\ Octal["0700"] = 448 /\ Octal["0600"] = 384

Duration == {"readTimeout", "writeTimeout", "cacheTTL"}
Text == Duration \cup {"protocol", "apiKey", "authKey", "vectorStore", "mode",
          "annProfile", "profile", "trustedProxies", "dirMode", "fileMode"}
Flag == {"accessLog", "metrics", "cacheEnabled", "grpcEnabled", "authEnabled",
         "grpcAuth", "tlsEnabled", "trustXFF", "strict"}
Positive == {"snapshotEvery", "syncEvery", "cacheMaxBytes", "cacheMaxItems",
             "maxBodyBytes", "maxVectorDim", "maxK",
             "annM", "annEfConstruct", "annEfSearch"}
Natural == {"rateLimitRPS", "annEvalSampleRate"}
Setting == Text \cup Flag \cup Positive \cup Natural

DefaultConfig ==
  [protocol |-> "http", readTimeout |-> 10, writeTimeout |-> 10, apiKey |-> Unset,
   accessLog |-> FALSE, metrics |-> TRUE, rateLimitRPS |-> 100,
   snapshotEvery |-> 25, vectorStore |-> "memory", syncEvery |-> 1,
   cacheEnabled |-> FALSE, cacheMaxBytes |-> 8388608, cacheMaxItems |-> 1024,
   cacheTTL |-> 900, maxBodyBytes |-> 1048576, maxVectorDim |-> 4096, maxK |-> 100,
   mode |-> "exact", annProfile |-> "balanced", annEvalSampleRate |-> 0,
   annM |-> 0, annEfConstruct |-> 0, annEfSearch |-> 0, grpcEnabled |-> FALSE,
   profile |-> "development", authEnabled |-> FALSE, authKey |-> Unset,
   grpcAuth |-> FALSE, tlsEnabled |-> FALSE, trustXFF |-> FALSE,
   trustedProxies |-> {}, strict |-> FALSE, dirMode |-> "0755", fileMode |-> "0644"]

\* The types of numbers in Config; a duration is text that is parsed later.
Typed(f, x) ==
  /\ f \in Positive \cup Natural => x \in Int
  /\ f \in Duration => x \in Int \cup {Unset, Junk}

\* yaml.Unmarshal into the defaults: what the file names replaces them.
FromFile(file) ==
  [f \in Setting |-> IF f \in DOMAIN file THEN file[f] ELSE DefaultConfig[f]]

\* Whether overrideFromEnv takes a variable's value.
Accepted(f, raw) ==
  /\ raw # Unset
  /\ f \notin Text => raw # Junk
  /\ f \in Positive => raw > 0
  /\ f \in Natural => raw >= 0
OverrideFromEnv(cfg, env) ==
  [f \in Setting |-> IF f \in DOMAIN env /\ Accepted(f, env[f]) THEN env[f] ELSE cfg[f]]

\* The protocol decides whether gRPC is on, whatever grpc.enabled says.
NormalizeProtocol(p) == IF p = "grpc" THEN "grpc" ELSE "http"
ApplyTransportDefaults(cfg) ==
  [cfg EXCEPT !["protocol"] = NormalizeProtocol(@),
              !["grpcEnabled"] = NormalizeProtocol(cfg["protocol"]) = "grpc"]

NormalizeANNProfile(p) == IF p \in {"fast", "quality"} THEN p ELSE "balanced"
AnnProfileDefaults(p) ==
  CASE p = "fast"     -> [annM |-> 8, annEfConstruct |-> 32, annEfSearch |-> 32]
    [] p = "quality"  -> [annM |-> 24, annEfConstruct |-> 96, annEfSearch |-> 96]
    [] p = "balanced" -> [annM |-> 16, annEfConstruct |-> 64, annEfSearch |-> 64]
ApplyANNProfileDefaults(cfg) ==
  LET profile == NormalizeANNProfile(cfg["annProfile"])
      given == AnnProfileDefaults(profile)
  IN [f \in Setting |-> CASE f = "annProfile" -> profile
                          [] f \in DOMAIN given /\ cfg[f] <= 0 -> given[f]
                          [] OTHER -> cfg[f]]

Or(x, y) == IF x = Unset THEN y ELSE x
Tighten(mode, open, closed) == IF mode \in {Unset, open} THEN closed ELSE mode

\* Mutant of Production: gRPC authentication stays as it was set.
ProductionHTTPOnly(cfg) ==
  [cfg EXCEPT !["authEnabled"] = @ \/ cfg["authKey"] # Unset,
              !["trustXFF"] = @ /\ cfg["trustedProxies"] # {},
              !["strict"] = TRUE,
              !["dirMode"] = Tighten(@, "0755", "0700"),
              !["fileMode"] = Tighten(@, "0644", "0600")]

\* The production profile: a key turns authentication on, for both protocols.
Production(cfg) ==
  [cfg EXCEPT !["authEnabled"] = @ \/ cfg["authKey"] # Unset,
              !["grpcAuth"] = cfg["authEnabled"] \/ cfg["authKey"] # Unset,
              !["trustXFF"] = @ /\ cfg["trustedProxies"] # {},
              !["strict"] = TRUE,
              !["dirMode"] = Tighten(@, "0755", "0700"),
              !["fileMode"] = Tighten(@, "0644", "0600")]
Development(cfg) ==
  [cfg EXCEPT !["grpcAuth"] = @ /\ cfg["authEnabled"],
              !["dirMode"] = Or(@, "0755"),
              !["fileMode"] = Or(@, "0644")]
ApplySecurityDefaults(cfg) ==
  LET profile == IF cfg["profile"] = "production" THEN "production" ELSE "development"
      keyed == [cfg EXCEPT !["profile"] = profile, !["authKey"] = Or(@, cfg["apiKey"])]
  IN IF profile = "production" THEN Production(keyed) ELSE Development(keyed)

Load(file, env) ==
  ApplySecurityDefaults(ApplyANNProfileDefaults(ApplyTransportDefaults(
    OverrideFromEnv(FromFile(file), env))))

----------------------------------------------------------------------------
(* buildServer, applyDefaults and NewServerWithOptions: what the server    *)
(* works with.                                                             *)

ParseDuration(raw, fallback) == IF raw \in {Unset, Junk} THEN fallback ELSE raw
ParseFileMode(raw, fallback) == IF raw \in DOMAIN Octal THEN Octal[raw] ELSE fallback
NormalizeMode(mode, default) == IF mode = 0 THEN default ELSE mode
ClampPercent(n) == IF n < 0 THEN 0 ELSE IF n > 100 THEN 100 ELSE n

DefaultServerOptions ==
  LET given == AnnProfileDefaults("balanced")
  IN [f \in Setting |-> IF f \in DOMAIN given THEN given[f] ELSE DefaultConfig[f]]

\* 0o755 and 0o644: the fallback of buildServer's texts, and what the core puts
\* in the place of 0.
OpenMode(f) == IF f = "dirMode" THEN 493 ELSE 420

\* Mutant of OrDefault: zero is taken for a value.
OrDefaultNegative(f, n) == IF n < 0 THEN DefaultServerOptions[f] ELSE n
OrDefault(f, n) == IF n <= 0 THEN DefaultServerOptions[f] ELSE n

ServerOptions(cfg) ==
  [f \in Setting |->
     CASE f \in Positive -> OrDefault(f, cfg[f])
       [] f \in Duration -> OrDefault(f, ParseDuration(cfg[f], DefaultServerOptions[f]))
       [] f = "rateLimitRPS" -> IF cfg[f] = 0 THEN 0 ELSE OrDefault(f, cfg[f])
       [] f = "annEvalSampleRate" -> ClampPercent(cfg[f])
       [] f = "mode" -> IF cfg[f] = "ann" THEN "ann" ELSE "exact"
       [] f = "vectorStore" -> Or(cfg[f], DefaultServerOptions[f])
       [] f \in {"dirMode", "fileMode"} -> 
            NormalizeMode(ParseFileMode(cfg[f], OpenMode(f)), OpenMode(f))
       [] f = "trustedProxies" -> cfg[f] \ {Junk}
       [] f = "authKey" -> Or(cfg[f], cfg["apiKey"])
       [] OTHER -> cfg[f]]
============================================================================
