---------------------------- MODULE ServerProofs ----------------------------
(***************************************************************************)
(* The server's settings, its answers and its exit, for every file, every  *)
(* environment, every set of keys and any number of requests in progress.  *)
(***************************************************************************)
EXTENDS Server, TLAPS

----------------------------------------------------------------------------
(* What becomes of a setting on its way from the file to the server.       *)

AnnSetting == {"annM", "annEfConstruct", "annEfSearch"}

\* The kinds of settings do not overlap.
LEMMA KindsDiffer ==
  /\ \A f \in Positive : f \notin Duration /\ f \notin {"rateLimitRPS", "annEvalSampleRate"}
  /\ \A f \in Duration : f \notin AnnSetting
  /\ Positive \cup Duration \cup Natural \cup Flag \subseteq Setting
  /\ {"protocol", "apiKey", "authKey", "profile", "dirMode", "fileMode", "annProfile"} \subseteq Setting
  /\ AnnSetting \subseteq Positive
BY SMT DEF Positive, Duration, Natural, Flag, Setting, Text, AnnSetting

\* annProfileDefaults gives positive numbers for the three settings.
LEMMA ProfilePositive ==
  ASSUME NEW p \in {"fast", "quality", "balanced"}
  PROVE  /\ DOMAIN AnnProfileDefaults(p) = AnnSetting
         /\ \A f \in AnnSetting : AnnProfileDefaults(p)[f] \in Nat \ {0}
<1>1. AnnProfileDefaults("fast") = [annM |-> 8, annEfConstruct |-> 32, annEfSearch |-> 32]
  BY Zenon DEF AnnProfileDefaults
<1>2. AnnProfileDefaults("quality") = [annM |-> 24, annEfConstruct |-> 96, annEfSearch |-> 96]
  BY Zenon DEF AnnProfileDefaults
<1>3. AnnProfileDefaults("balanced") = [annM |-> 16, annEfConstruct |-> 64, annEfSearch |-> 64]
  BY Zenon DEF AnnProfileDefaults
<1> QED BY <1>1, <1>2, <1>3, SMT DEF AnnSetting

\* The defaults are of the types of the settings, and in range.
LEMMA DefaultsTyped ==
  /\ \A f \in Setting : Typed(f, DefaultConfig[f])
  /\ \A f \in (Positive \cup Duration) : DefaultServerOptions[f] \in Nat \ {0}
  /\ DefaultServerOptions["rateLimitRPS"] \in Nat \ {0}
<1>2. \A f \in Positive \cup Natural : DefaultConfig[f] \in Int
  BY SMT DEF Positive, Natural, DefaultConfig
<1>3. \A f \in Duration : DefaultConfig[f] \in Nat \ {0}
  BY SMT DEF Duration, DefaultConfig
<1>4. \A f \in Positive \ AnnSetting : DefaultConfig[f] \in Nat \ {0}
  BY SMT DEF Positive, DefaultConfig, AnnSetting
<1>5. DefaultConfig["rateLimitRPS"] \in Nat \ {0} /\ "rateLimitRPS" \notin AnnSetting
  BY SMT DEF DefaultConfig, AnnSetting
<1>6. \A f \in Setting : DefaultServerOptions[f] =
        IF f \in AnnSetting THEN AnnProfileDefaults("balanced")[f] ELSE DefaultConfig[f]
  BY ProfilePositive, SMT DEF DefaultServerOptions
<1>7. "rateLimitRPS" \in Setting
  BY KindsDiffer, SMT DEF Natural
<1>8. \A f \in Setting : Typed(f, DefaultConfig[f])
  BY <1>2, <1>3, SMT DEF Typed
<1>9. \A f \in (Positive \cup Duration) : DefaultServerOptions[f] \in Nat \ {0}
  BY <1>3, <1>4, <1>6, KindsDiffer, ProfilePositive, SMT
<1> QED BY <1>5, <1>6, <1>7, <1>8, <1>9, SMT

----------------------------------------------------------------------------
\* A configuration in which every number is a number.
ConfigTyped(c) ==
  /\ c = [f \in Setting |-> c[f]]
  /\ \A f \in Setting : Typed(f, c[f])

\* FromFile and OverrideFromEnv: the environment before the file before the
\* defaults.
LEMMA Overridden ==
  ASSUME NEW e \in Envs, NEW d \in Files \ {Junk}
  PROVE  LET c == OverrideFromEnv(FromFile(d), e)
         IN  /\ ConfigTyped(c)
             /\ \A f \in Text : c[f] = Or(Given(e, f),
                                          IF f \in DOMAIN d THEN d[f] ELSE DefaultConfig[f])
<1> DEFINE b == FromFile(d)
           c == OverrideFromEnv(FromFile(d), e)
<1>1. \A f \in Setting : b[f] = IF f \in DOMAIN d THEN d[f] ELSE DefaultConfig[f]
  BY DEF FromFile
<1>2. \A f \in Setting : Typed(f, b[f])
  BY <1>1, DefaultsTyped, ServerAssumption
<1>3. \A f \in Setting : c[f] = IF f \in DOMAIN e /\ Accepted(f, e[f]) THEN e[f] ELSE b[f]
  BY DEF OverrideFromEnv
<1>4. c = [f \in Setting |-> c[f]]
  BY DEF OverrideFromEnv
<1> HIDE DEF b, c
<1>5. \A f \in Setting : Typed(f, c[f])
  <2> SUFFICES ASSUME NEW f \in Setting, f \in DOMAIN e, Accepted(f, e[f])
               PROVE  Typed(f, e[f])
    BY <1>2, <1>3
  <2>1. CASE Typed(f, e[f])
    BY <2>1
  <2>2. CASE e[f] \in {Unset, Junk}
    <3>1. f \in Text
      BY <2>2 DEF Accepted
    <3>2. f \notin Positive \cup Natural
      BY <3>1, SMT DEF Text, Duration, Positive, Natural
    <3> QED BY <2>2, <3>2 DEF Typed
  <2> QED BY <2>1, <2>2, ServerAssumption
<1>6. ASSUME NEW f \in Text
      PROVE  c[f] = Or(Given(e, f), b[f])
  <2>1. f \in Setting /\ f \notin Positive \cup Natural
    BY SMT DEF Text, Duration, Positive, Natural, Setting
  <2>2. CASE f \in DOMAIN e
    BY <1>3, <2>1, <2>2, ServerAssumption DEF Accepted, Or, Given
  <2>3. CASE f \notin DOMAIN e
    BY <1>3, <2>1, <2>3 DEF Or, Given
  <2> QED BY <2>2, <2>3
<1>7. Text \subseteq Setting
  BY DEF Setting
<1> QED BY <1>1, <1>4, <1>5, <1>6, <1>7 DEF ConfigTyped, c

\* applyTransportDefaults and applyANNProfileDefaults keep the other settings.
LEMMA Defaulted ==
  ASSUME NEW c, ConfigTyped(c)
  PROVE  LET d == ApplyANNProfileDefaults(ApplyTransportDefaults(c))
         IN  /\ ConfigTyped(d)
             /\ d["grpcEnabled"] <=> d["protocol"] = "grpc"
             /\ \A f \in {"apiKey", "authKey", "profile", "dirMode", "fileMode"} : d[f] = c[f]
<1> DEFINE b == ApplyTransportDefaults(c)
           p == NormalizeANNProfile(b["annProfile"])
           given == AnnProfileDefaults(p)
           d == ApplyANNProfileDefaults(b)
           of(f) == CASE f = "annProfile" -> p
                      [] f \in DOMAIN given /\ b[f] <= 0 -> given[f]
                      [] OTHER -> b[f]
<1>1. b = [c EXCEPT !["protocol"] = NormalizeProtocol(@),
                    !["grpcEnabled"] = NormalizeProtocol(c["protocol"]) = "grpc"]
  BY DEF ApplyTransportDefaults
<1>2. "protocol" \in Setting /\ "grpcEnabled" \in Setting /\ DOMAIN c = Setting
  BY KindsDiffer, SMT DEF Flag, ConfigTyped
<1>3. /\ DOMAIN b = Setting
      /\ \A f \in Setting \ {"protocol", "grpcEnabled"} : b[f] = c[f]
      /\ b["protocol"] = NormalizeProtocol(c["protocol"])
      /\ b["grpcEnabled"] = (NormalizeProtocol(c["protocol"]) = "grpc")
  BY <1>1, <1>2, Zenon
<1>4. p \in {"fast", "quality", "balanced"}
  BY DEF NormalizeANNProfile
<1>5. DOMAIN given = AnnSetting /\ \A f \in AnnSetting : given[f] \in Int
  <2> HIDE DEF p
  <2> QED BY <1>4, ProfilePositive
<1>6. d = [f \in Setting |-> of(f)]
  BY Zenon DEF ApplyANNProfileDefaults
<1> HIDE DEF b, p, given, d
<1>7. \A f \in Setting : \/ f = "annProfile"
                         \/ d[f] = b[f]
                         \/ f \in AnnSetting /\ d[f] = given[f]
  <2> SUFFICES ASSUME NEW f \in Setting, f # "annProfile"
               PROVE  d[f] = b[f] \/ (f \in DOMAIN given /\ d[f] = given[f])
    BY <1>5
  <2>1. d[f] = of(f)
    BY <1>6, Zenon
  <2> QED BY <2>1, Zenon
<1> HIDE DEF of
<1>8. d = [f \in Setting |-> d[f]]
  BY <1>6
<1>9. \A f \in Setting : Typed(f, d[f])
  <2>1. \A f \in {"protocol", "grpcEnabled", "annProfile"} :
           f \notin Positive \cup Natural \cup Duration
    BY SMT DEF Positive, Natural, Duration
  <2>2. \A f \in AnnSetting : f \notin Duration
    BY KindsDiffer
  <2> QED BY <1>3, <1>5, <1>7, <2>1, <2>2 DEF Typed, ConfigTyped
<1>10. \A f \in {"apiKey", "authKey", "profile", "dirMode", "fileMode", "protocol", "grpcEnabled"} :
          f \in Setting /\ f # "annProfile" /\ f \notin AnnSetting
  BY SMT DEF Setting, Text, Flag, AnnSetting
<1>11. /\ \A f \in {"apiKey", "authKey", "profile", "dirMode", "fileMode"} : d[f] = c[f]
       /\ d["protocol"] = b["protocol"] /\ d["grpcEnabled"] = b["grpcEnabled"]
  BY <1>3, <1>7, <1>10
<1> QED BY <1>3, <1>8, <1>9, <1>11, Zenon DEF ConfigTyped, d, b, NormalizeProtocol

\* applySecurityDefaults: the key, and in production authentication and modes.
LEMMA Secured ==
  ASSUME NEW c, ConfigTyped(c)
  PROVE  LET d == ApplySecurityDefaults(c)
         IN  /\ ConfigTyped(d)
             /\ \A f \in {"protocol", "grpcEnabled", "apiKey"} : d[f] = c[f]
             /\ d["authKey"] = Or(c["authKey"], c["apiKey"])
             /\ c["profile"] = "production" =>
                  /\ d["dirMode"] = Tighten(c["dirMode"], "0755", "0700")
                  /\ d["fileMode"] = Tighten(c["fileMode"], "0644", "0600")
                  /\ d["authKey"] # Unset => d["authEnabled"] /\ d["grpcAuth"]
<1> DEFINE prof == IF c["profile"] = "production" THEN "production" ELSE "development"
           k == [c EXCEPT !["profile"] = prof, !["authKey"] = Or(@, c["apiKey"])]
           d == ApplySecurityDefaults(c)
           touched == {"profile", "authKey", "authEnabled", "grpcAuth", "trustXFF", "strict",
                       "dirMode", "fileMode"}
<1>1. touched \subseteq Setting /\ DOMAIN c = Setting
  BY SMT DEF Setting, Text, Flag, ConfigTyped
<1>2. touched \cap (Positive \cup Natural \cup Duration) = {}
  BY SMT DEF Positive, Natural, Duration
<1>3. {"protocol", "grpcEnabled", "apiKey"} \subseteq Setting \ touched
  BY SMT DEF Setting, Text, Flag
<1>4. "profile" \in Setting /\ "authKey" \in Setting
  BY <1>1
<1>5. /\ DOMAIN k = Setting /\ k["authKey"] = Or(c["authKey"], c["apiKey"])
      /\ \A f \in Setting \ {"profile", "authKey"} : k[f] = c[f]
  <2> HIDE DEF prof
  <2> QED BY <1>1, <1>4, Zenon
<1>6. d = IF c["profile"] = "production" THEN Production(k) ELSE Development(k)
  BY Zenon DEF ApplySecurityDefaults
<1> HIDE DEF k, d, prof
<1>7. \A f \in {"authEnabled", "grpcAuth", "trustXFF", "strict", "dirMode", "fileMode"} :
         f \in Setting /\ k[f] = c[f]
  BY <1>1, <1>5
<1>8. /\ DOMAIN d = Setting /\ d["authKey"] = k["authKey"]
      /\ \A f \in Setting \ touched : d[f] = c[f]
  <2>1. CASE c["profile"] = "production"
    BY <1>1, <1>5, <1>6, <2>1 DEF Production
  <2>2. CASE c["profile"] # "production"
    BY <1>1, <1>5, <1>6, <2>2 DEF Development
  <2> QED BY <2>1, <2>2
<1>9. ConfigTyped(d)
  <2>1. d = [f \in Setting |-> d[f]]
    <3>1. CASE c["profile"] = "production"
      BY <1>5, <1>6, <3>1 DEF Production
    <3>2. CASE c["profile"] # "production"
      BY <1>5, <1>6, <3>2 DEF Development
    <3> QED BY <3>1, <3>2
  <2>2. \A f \in Setting : Typed(f, d[f])
    BY <1>2, <1>8 DEF ConfigTyped, Typed
  <2> QED BY <2>1, <2>2 DEF ConfigTyped
<1>10. ASSUME c["profile"] = "production"
       PROVE  /\ d["dirMode"] = Tighten(c["dirMode"], "0755", "0700")
              /\ d["fileMode"] = Tighten(c["fileMode"], "0644", "0600")
              /\ d["authEnabled"] = (c["authEnabled"] \/ k["authKey"] # Unset)
              /\ d["grpcAuth"] = (c["authEnabled"] \/ k["authKey"] # Unset)
  BY <1>5, <1>6, <1>7, <1>10, Zenon DEF Production
<1>11. c["profile"] = "production" /\ d["authKey"] # Unset => d["authEnabled"] /\ d["grpcAuth"]
  BY <1>8, <1>10, Zenon
<1> QED BY <1>3, <1>5, <1>8, <1>9, <1>10, <1>11 DEF d

\* buildServer and applyDefaults.
LEMMA Optioned ==
  ASSUME NEW c, ConfigTyped(c)
  PROVE  LET s == ServerOptions(c)
         IN  /\ \A f \in Positive \cup Duration : s[f] \in Nat \ {0}
             /\ s["rateLimitRPS"] \in Nat /\ s["annEvalSampleRate"] \in 0 .. 100
             /\ \A f \in {"dirMode", "fileMode"} :
                  s[f] = NormalizeMode(ParseFileMode(c[f], OpenMode(f)), OpenMode(f))
             /\ s["authKey"] = Or(c["authKey"], c["apiKey"])
             /\ \A f \in {"protocol", "grpcEnabled", "authEnabled", "grpcAuth"} : s[f] = c[f]
<1> DEFINE s == ServerOptions(c)
           named == {"rateLimitRPS", "annEvalSampleRate", "mode", "vectorStore", "dirMode",
                     "fileMode", "trustedProxies", "authKey"}
           kept == {"protocol", "grpcEnabled", "authEnabled", "grpcAuth"}
           of(f) == CASE f \in Positive -> OrDefault(f, c[f])
       [] f \in Duration -> OrDefault(f, ParseDuration(c[f], DefaultServerOptions[f]))
       [] f = "rateLimitRPS" -> IF c[f] = 0 THEN 0 ELSE OrDefault(f, c[f])
       [] f = "annEvalSampleRate" -> ClampPercent(c[f])
       [] f = "mode" -> IF c[f] = "ann" THEN "ann" ELSE "exact"
       [] f = "vectorStore" -> Or(c[f], DefaultServerOptions[f])
       [] f \in {"dirMode", "fileMode"} ->
            NormalizeMode(ParseFileMode(c[f], OpenMode(f)), OpenMode(f))
       [] f = "trustedProxies" -> c[f] \ {Junk}
       [] f = "authKey" -> Or(c[f], c["apiKey"])
       [] OTHER -> c[f]
<1>1. s = [f \in Setting |-> of(f)]
  BY Zenon DEF ServerOptions
<1>2. /\ \A f \in Positive : f \notin Duration /\ f \notin named
      /\ \A f \in Duration : f \notin named /\ f \notin Positive
      /\ \A f \in kept : f \notin Positive /\ f \notin Duration /\ f \notin named
      /\ \A f \in named : f \notin Positive /\ f \notin Duration
      /\ Positive \cup Duration \cup named \cup kept \subseteq Setting
  BY SMT DEF Positive, Duration, Natural, Setting, Text, Flag
<1>3. \A f \in Setting : s[f] = of(f)
  <2> HIDE DEF of
  <2> QED BY <1>1
<1>4. \A f \in Positive : s[f] = OrDefault(f, c[f])
  BY <1>2, <1>3, Zenon
<1>5. \A f \in Duration : s[f] = OrDefault(f, ParseDuration(c[f], DefaultServerOptions[f]))
  BY <1>2, <1>3, Zenon
<1>6. s["rateLimitRPS"] = IF c["rateLimitRPS"] = 0 THEN 0
                          ELSE OrDefault("rateLimitRPS", c["rateLimitRPS"])
  BY <1>2, <1>3, Zenon
<1>7. s["annEvalSampleRate"] = ClampPercent(c["annEvalSampleRate"])
  BY <1>2, <1>3, Zenon
<1>8. s["authKey"] = Or(c["authKey"], c["apiKey"])
  BY <1>2, <1>3, Zenon
<1>9. ASSUME NEW f \in {"dirMode", "fileMode"}
      PROVE  s[f] = NormalizeMode(ParseFileMode(c[f], OpenMode(f)), OpenMode(f))
  BY <1>2, <1>3, Zenon
<1>10. \A f \in kept : s[f] = c[f]
  BY <1>2, <1>3, Zenon
<1> HIDE DEF s, of
<1>11. ASSUME NEW f \in Positive \cup Duration \cup {"rateLimitRPS"}, NEW n \in Int
       PROVE  OrDefault(f, n) \in Nat \ {0}
  BY DefaultsTyped DEF OrDefault
<1>12. \A f \in Positive \cup Duration : s[f] \in Nat \ {0}
  <2>1. ASSUME NEW f \in Positive PROVE s[f] \in Nat \ {0}
    <3>1. c[f] \in Int
      BY <1>2 DEF ConfigTyped, Typed
    <3> QED BY <1>4, <1>11, <3>1
  <2>2. ASSUME NEW f \in Duration PROVE s[f] \in Nat \ {0}
    <3>1. c[f] \in Int \cup {Unset, Junk}
      BY <1>2 DEF ConfigTyped, Typed
    <3>2. ParseDuration(c[f], DefaultServerOptions[f]) \in Int
      BY <3>1, DefaultsTyped DEF ParseDuration
    <3> QED BY <1>5, <1>11, <3>2
  <2> QED BY <2>1, <2>2
<1>13. c["rateLimitRPS"] \in Int /\ c["annEvalSampleRate"] \in Int
  BY <1>2 DEF ConfigTyped, Typed, Natural
<1>14. s["rateLimitRPS"] \in Nat
  <2>1. OrDefault("rateLimitRPS", c["rateLimitRPS"]) \in Nat \ {0}
    BY <1>11, <1>13
  <2> QED BY <1>6, <2>1
<1>15. s["annEvalSampleRate"] \in 0 .. 100
  BY <1>7, <1>13 DEF ClampPercent
<1> QED BY <1>8, <1>9, <1>10, <1>12, <1>14, <1>15 DEF s

\* All the steps together: what the server works with.
LEMMA SettingsAre ==
  ASSUME NEW e \in Envs, NEW d \in Files \ {Junk}
  PROVE  LET s == ServerOptions(Load(d, e))
             given(f) == Or(Given(e, f), Given(d, f))
         IN  /\ \A f \in Positive \cup Duration : s[f] \in Nat \ {0}
             /\ s["rateLimitRPS"] \in Nat /\ s["annEvalSampleRate"] \in 0 .. 100
             /\ s["grpcEnabled"] <=> s["protocol"] = "grpc"
             /\ s["authKey"] = Or(given("authKey"), given("apiKey"))
             /\ given("profile") = "production" =>
                  /\ s["authKey"] # Unset => s["authEnabled"] /\ s["grpcAuth"]
                  /\ \A f \in {"dirMode", "fileMode"} :
                       given(f) \in {Unset, DefaultConfig[f]} => s[f] = PrivateMode(f)
             /\ \A f \in {"dirMode", "fileMode"} : s[f] \in Nat \ {0}
<1> DEFINE c1 == OverrideFromEnv(FromFile(d), e)
           c2 == ApplyANNProfileDefaults(ApplyTransportDefaults(c1))
           c3 == ApplySecurityDefaults(c2)
           s == ServerOptions(c3)
           given(f) == Or(Given(e, f), Given(d, f))
<1>1. /\ ConfigTyped(c1)
      /\ \A f \in Text : c1[f] = Or(Given(e, f), IF f \in DOMAIN d THEN d[f] ELSE DefaultConfig[f])
  BY Overridden
<1> HIDE DEF c1
<1>2. /\ ConfigTyped(c2)
      /\ c2["grpcEnabled"] <=> c2["protocol"] = "grpc"
      /\ \A f \in {"apiKey", "authKey", "profile", "dirMode", "fileMode"} : c2[f] = c1[f]
  BY <1>1, Defaulted
<1> HIDE DEF c2
<1>3. /\ ConfigTyped(c3)
      /\ \A f \in {"protocol", "grpcEnabled", "apiKey"} : c3[f] = c2[f]
      /\ c3["authKey"] = Or(c2["authKey"], c2["apiKey"])
      /\ c2["profile"] = "production" =>
           /\ c3["dirMode"] = Tighten(c2["dirMode"], "0755", "0700")
           /\ c3["fileMode"] = Tighten(c2["fileMode"], "0644", "0600")
           /\ c3["authKey"] # Unset => c3["authEnabled"] /\ c3["grpcAuth"]
  BY <1>2, Secured
<1> HIDE DEF c3
<1>4. /\ \A f \in Positive \cup Duration : s[f] \in Nat \ {0}
      /\ s["rateLimitRPS"] \in Nat /\ s["annEvalSampleRate"] \in 0 .. 100
      /\ \A f \in {"dirMode", "fileMode"} :
           s[f] = NormalizeMode(ParseFileMode(c3[f], OpenMode(f)), OpenMode(f))
      /\ s["authKey"] = Or(c3["authKey"], c3["apiKey"])
      /\ \A f \in {"protocol", "grpcEnabled", "authEnabled", "grpcAuth"} : s[f] = c3[f]
  BY <1>3, Optioned
<1> HIDE DEF s
<1>5. s = ServerOptions(Load(d, e))
  BY DEF s, c1, c2, c3, Load
<1>6. DefaultConfig["authKey"] = Unset /\ DefaultConfig["apiKey"] = Unset
      /\ DefaultConfig["profile"] = "development"
      /\ DefaultConfig["dirMode"] = "0755" /\ DefaultConfig["fileMode"] = "0644"
  BY SMT DEF DefaultConfig
<1>7. {"apiKey", "authKey", "profile", "dirMode", "fileMode"} \subseteq Text
  BY SMT DEF Text
<1>8. c1["authKey"] = given("authKey") /\ c1["apiKey"] = given("apiKey")
  BY <1>1, <1>6, <1>7 DEF Given, Or
<1>9. given("profile") = "production" => c1["profile"] = "production"
  BY <1>1, <1>6, <1>7, ConfigAssumption DEF Given, Or
<1>10. s["authKey"] = Or(given("authKey"), given("apiKey")) /\ s["authKey"] = c3["authKey"]
  BY <1>2, <1>3, <1>4, <1>8 DEF Or
<1>11. ASSUME NEW f \in {"dirMode", "fileMode"}, given("profile") = "production",
              given(f) \in {Unset, DefaultConfig[f]}
       PROVE  s[f] = PrivateMode(f)
  <2>1. c1[f] \in {Unset, DefaultConfig[f]}
    BY <1>1, <1>6, <1>7, <1>11 DEF Given, Or
  <2>2. c2["profile"] = "production" /\ c2[f] \in {Unset, DefaultConfig[f]}
    BY <1>2, <1>9, <1>11, <2>1
  <2>3. CASE f = "dirMode"
    <3>1. c3[f] = "0700"
      BY <1>3, <1>6, <2>2, <2>3 DEF Tighten
    <3> QED BY <1>4, <2>3, <3>1, ConfigAssumption
            DEF ParseFileMode, NormalizeMode, PrivateMode
  <2>4. CASE f = "fileMode"
    <3>1. c3[f] = "0600"
      BY <1>3, <1>6, <2>2, <2>4 DEF Tighten
    <3> QED BY <1>4, <2>4, <3>1, ConfigAssumption
            DEF ParseFileMode, NormalizeMode, PrivateMode
  <2> QED BY <2>3, <2>4
<1>12. given("profile") = "production" /\ s["authKey"] # Unset => s["authEnabled"] /\ s["grpcAuth"]
  BY <1>2, <1>3, <1>4, <1>9, <1>10, Zenon
<1>13. s["grpcEnabled"] <=> s["protocol"] = "grpc"
  BY <1>2, <1>3, <1>4, Zenon
<1>14. ASSUME NEW f \in {"dirMode", "fileMode"} PROVE s[f] \in Nat \ {0}
  <2>1. OpenMode(f) \in Nat \ {0}
    BY DEF OpenMode
  <2>2. ParseFileMode(c3[f], OpenMode(f)) \in Nat
    BY <2>1, ConfigAssumption DEF ParseFileMode
  <2> QED BY <1>4, <2>1, <2>2 DEF NormalizeMode
<1> HIDE DEF given
<1> QED BY <1>4, <1>5, <1>10, <1>11, <1>12, <1>13, <1>14 DEF given

----------------------------------------------------------------------------
(* The inductive invariant.                                                *)

Codes == {"200", "409", "404", "400", "503", "500",
          "OK", "AlreadyExists", "NotFound", "InvalidArgument", "Internal"}
Before == {"accepted", "handler"} \cup WritePlaces
Asked == [at : Before, op : Ops, key : Keys]
Done == [at : {"returning"}, outcome : AllOutcomes, code : Codes]
ReqStates == {Idle, Answered, [at |-> "dropped"]} \cup Asked \cup Done

\* The code of an answer, and what a client makes of it.
Tells(code, outcome) ==
  outcome \in CASE code \in {"200", "OK"} -> {"ok"}
                [] code \in {"409", "AlreadyExists"} -> {"exists"}
                [] code \in {"404", "NotFound"} -> {"not_found"}
                [] code \in {"400", "InvalidArgument"} -> {"invalid"}
                [] code \in {"503"} -> {"not_ready"}
                [] code \in {"500", "Internal"} -> {"failed", "wrong_dim"}

\* The settings are those of the file and the environment, which do not change.
StartOK ==
  /\ file \in Files /\ env \in Envs
  /\ srv # None => file # Junk /\ srv = ServerOptions(Load(file, env))
  /\ srv = None => main \in {"load", "exited"} /\ serving = "none" /\ pending = 0
  /\ srv = None => \A r \in Request : req[r] = Idle
  /\ main = "load" => srv = None

\* Each request: a handler runs only for a request that may enter, and an
\* answer has the code of its outcome.
RequestsOK ==
  /\ req \in [Request -> ReqStates]
  /\ \A r \in Request : req[r].at \in Before /\ req[r].op = "ready" => ~GRPC
  /\ \A r \in Request : Inside(r) => MayEnter(r)
  /\ \A r \in Request : req[r].at = "returning" => Tells(req[r].code, req[r].outcome)

Quiet == stopping /\ \A r \in Request : ~Active(r)

\* What Run returns without an error has been drained, unless time was up.
ShutdownOK ==
  /\ main \in {"load", "run", "select"} => ~stopping
  /\ main \in {"drain", "await"} => stopping
  /\ main \in {"load", "run"} => serving = "none"
  /\ stopped \/ (main = "await" /\ ~expired) => Quiet
  /\ main \in {"close", "exit", "exited"} /\ exit \in {None, 0} /\ err = "none" /\ ~expired => Quiet
  /\ main \in {"exit", "exited"} /\ exit \in {None, 0} /\ err = "none" /\ ~expired /\ closed = "ok"
       => pending = 0
  /\ \/ errCh \in {<<>>, <<"serve">>}
     \/ stopping /\ errCh = IF GRPC THEN <<"stopped">> ELSE <<"closed">>
     \/ stopping /\ GRPC /\ errCh = <<"none">>
  /\ {stopping, stopped, expired} \subseteq BOOLEAN
  /\ exit = 0 => err = "none"

ServerInv == ServerTypeOK /\ StartOK /\ RequestsOK /\ ShutdownOK

LEMMA InitServerInv == Init => ServerInv
<1> SUFFICES ASSUME Init PROVE ServerInv
  OBVIOUS
<1>1. ServerTypeOK
  BY ServerAssumption DEF Init, ServerTypeOK
<1>2. StartOK
  BY DEF Init, StartOK
<1>3. RequestsOK
  <2>1. \A r \in Request : req[r] = Idle
    BY DEF Init
  <2>2. Idle.at = "idle" /\ Idle \in ReqStates
    BY DEF Idle, ReqStates
  <2> QED BY <2>1, <2>2 DEF Init, RequestsOK, Inside, Before, WritePlaces
<1>4. ShutdownOK
  BY ServerAssumption DEF Init, ShutdownOK
<1> QED BY <1>1, <1>2, <1>3, <1>4 DEF ServerInv

\* Steps of main and of the serving goroutine leave the requests alone.
LEMMA RequestsKept ==
  ASSUME RequestsOK, UNCHANGED <<srv, req>>
  PROVE  RequestsOK'
<1>1. \A r \in Request : MayEnter(r)' <=> MayEnter(r)
  BY DEF MayEnter, KeyRequired, GRPC
<1> QED BY <1>1 DEF RequestsOK, Inside, Tells, GRPC

LEMMA QuietKept ==
  ASSUME Quiet, UNCHANGED req, stopping' = stopping \/ stopping' = TRUE
  PROVE  Quiet'
BY DEF Quiet, Active, Inside

LEMMA BuildServerInv ==
  ASSUME ServerInv, BuildServer
  PROVE  ServerInv'
<1>1. srv' # None /\ srv' = ServerOptions(Load(file, env)) /\ file # Junk
      /\ UNCHANGED <<file, env>> /\ file \in Files /\ env \in Envs
  BY ServerAssumption DEF BuildServer, ServerInv, StartOK
<1>2. srv = None /\ pending = 0 /\ \A r \in Request : req[r] = Idle
  BY DEF BuildServer, ServerInv, StartOK
<1>3. ServerTypeOK'
  BY <1>1, <1>2 DEF BuildServer, ServerInv, ServerTypeOK, serveVars
<1>4. StartOK'
  BY <1>1, <1>2 DEF BuildServer, ServerInv, StartOK, serveVars
<1>5. RequestsOK'
  BY <1>2 DEF BuildServer, ServerInv, RequestsOK, Idle, Inside, Before, WritePlaces
<1>6. ShutdownOK'
  BY <1>2 DEF BuildServer, ServerInv, ShutdownOK, ServerTypeOK, Quiet, Active, Inside, serveVars, GRPC
<1> QED BY <1>3, <1>4, <1>5, <1>6 DEF ServerInv

\* What every step of main or of the serving goroutine leaves alone.
LEMMA StartKept ==
  ASSUME ServerInv, UNCHANGED <<startVars, req>>, pending' \in {0, pending},
         main' = "load" => main = "load",
         srv = None => main' \in {"load", "exited"} /\ serving' = "none"
  PROVE  StartOK' /\ RequestsOK'
<1>1. RequestsOK'
  BY RequestsKept DEF ServerInv, startVars
<1>2. StartOK'
  BY DEF ServerInv, StartOK, startVars
<1> QED BY <1>1, <1>2

LEMMA MainInv ==
  ASSUME ServerInv,
         \/ LoadFails \/ StartServing \/ BeginShutdown \/ ShutdownReturns \/ TakeResult \/ Exit
         \/ \E why \in {"bind", "tls"} : StartFails(why)
         \/ \E result \in {"ok", "failed"} : Close(result)
  PROVE  ServerInv'
<1> USE DEF ServerInv
<1>1. CASE LoadFails
  <2>1. StartOK' /\ RequestsOK'
    BY <1>1, StartKept DEF LoadFails, serveVars, StartOK
  <2>2. ServerTypeOK'
    BY <1>1, ServerAssumption DEF LoadFails, ServerTypeOK, startVars, serveVars
  <2>3. ShutdownOK'
    BY <1>1, ServerAssumption
       DEF LoadFails, ShutdownOK, ServerTypeOK, Quiet, Active, Inside, startVars, serveVars, GRPC
  <2> QED BY <2>1, <2>2, <2>3
<1>2. CASE StartServing
  <2>1. StartOK' /\ RequestsOK'
    BY <1>2, StartKept DEF StartServing, serveVars, StartOK
  <2>2. ServerTypeOK'
    BY <1>2, ServerAssumption DEF StartServing, ServerTypeOK, StartOK, ShutdownOK, startVars
  <2>3. ShutdownOK'
    BY <1>2, ServerAssumption
       DEF StartServing, ShutdownOK, ServerTypeOK, Quiet, Active, Inside, startVars, GRPC
  <2> QED BY <2>1, <2>2, <2>3
<1>3. CASE BeginShutdown
  <2>1. StartOK' /\ RequestsOK'
    BY <1>3, StartKept DEF BeginShutdown, serveVars, StartOK
  <2>2. ServerTypeOK'
    BY <1>3, ServerAssumption DEF BeginShutdown, ServerTypeOK, startVars, serveVars
  <2>3. ShutdownOK'
    BY <1>3, ServerAssumption
       DEF BeginShutdown, ShutdownOK, ServerTypeOK, Quiet, Active, Inside, startVars, serveVars, GRPC
  <2> QED BY <2>1, <2>2, <2>3
<1>4. CASE ShutdownReturns
  <2>1. StartOK' /\ RequestsOK'
    BY <1>4, StartKept DEF ShutdownReturns, serveVars, StartOK
  <2>2. ServerTypeOK'
    BY <1>4, ServerAssumption DEF ShutdownReturns, ServerTypeOK, startVars, serveVars
  <2>3. ShutdownOK'
    BY <1>4, ServerAssumption
       DEF ShutdownReturns, ShutdownOK, ServerTypeOK, Drained, Quiet, Active, Inside, startVars, serveVars, GRPC
  <2> QED BY <2>1, <2>2, <2>3
<1>5. CASE TakeResult
  <2>1. StartOK' /\ RequestsOK'
    BY <1>5, StartKept DEF TakeResult, serveVars, StartOK
  <2>2. errCh' = <<>> /\ Head(errCh) = errCh[1]
    BY <1>5 DEF TakeResult, ShutdownOK
  <2>3. err' \in {"none", "serve", "stopped"} /\ (err' = "none" => stopping)
    BY <1>5, <2>2 DEF TakeResult, ShutdownOK, Ignored
  <2>4. ServerTypeOK'
    BY <1>5, <2>2, <2>3, ServerAssumption DEF TakeResult, ServerTypeOK, startVars
  <2>5. ShutdownOK'
    BY <1>5, <2>2, <2>3, ServerAssumption
       DEF TakeResult, ShutdownOK, ServerTypeOK, Quiet, Active, Inside, startVars, GRPC
  <2> QED BY <2>1, <2>4, <2>5
<1>6. CASE Exit
  <2>1. StartOK' /\ RequestsOK'
    BY <1>6, StartKept DEF Exit, serveVars, StartOK
  <2>2. ServerTypeOK'
    BY <1>6, ServerAssumption DEF Exit, ServerTypeOK, startVars, serveVars
  <2>3. ShutdownOK'
    BY <1>6, ServerAssumption
       DEF Exit, Running, ShutdownOK, ServerTypeOK, Quiet, Active, Inside, startVars, serveVars, GRPC
  <2> QED BY <2>1, <2>2, <2>3
<1>7. ASSUME NEW why \in {"bind", "tls"}, StartFails(why) PROVE ServerInv'
  <2>1. StartOK' /\ RequestsOK'
    BY <1>7, StartKept DEF StartFails, serveVars, StartOK
  <2>2. ServerTypeOK'
    BY <1>7, ServerAssumption DEF StartFails, ServerTypeOK, StartOK, startVars, serveVars
  <2>3. ShutdownOK'
    BY <1>7, ServerAssumption
       DEF StartFails, Running, ShutdownOK, ServerTypeOK, Quiet, Active, Inside, startVars, serveVars, GRPC
  <2> QED BY <2>1, <2>2, <2>3
<1>8. ASSUME NEW result \in {"ok", "failed"}, Close(result) PROVE ServerInv'
  <2>1. StartOK' /\ RequestsOK'
    BY <1>8, StartKept DEF Close, serveVars, StartOK
  <2>2. ServerTypeOK'
    BY <1>8, ServerAssumption DEF Close, ServerTypeOK, StartOK, startVars, serveVars
  <2>3. ShutdownOK'
    BY <1>8, ServerAssumption
       DEF Close, Running, ShutdownOK, ServerTypeOK, Quiet, Active, Inside, startVars, serveVars, GRPC
  <2> QED BY <2>1, <2>2, <2>3
<1> QED BY <1>1, <1>2, <1>3, <1>4, <1>5, <1>6, <1>7, <1>8

LEMMA ServingInv ==
  ASSUME ServerInv, ServeBegin \/ ServeTooLate \/ ServeFails \/ ServeEnds
  PROVE  ServerInv'
<1> USE DEF ServerInv
<1>1. srv # None /\ serving # "none"
  BY DEF ServeBegin, ServeTooLate, ServeFails, ServeEnds, StartOK
<1>2. StartOK' /\ RequestsOK'
  BY <1>1, StartKept DEF ServeBegin, ServeTooLate, ServeFails, ServeEnds, Return, mainVars
<1>3. CASE ServeBegin
  BY <1>2, <1>3 DEF ServeBegin, ShutdownOK, ServerTypeOK, Quiet, Active, Inside, startVars, mainVars, GRPC
<1>4. ASSUME NEW x \in {"serve", "closed", "stopped", "none"}, Return(x),
             \/ x = "serve"
             \/ stopping /\ x = IF GRPC THEN "stopped" ELSE "closed"
             \/ stopping /\ GRPC /\ x = "none"
      PROVE  ServerInv'
  <2>1. errCh = <<>> /\ errCh' = <<x>>
    <3>1. errCh = <<>>
      BY <1>4 DEF Return, ServerTypeOK
    <3> QED BY <1>4, <3>1 DEF Return
  <2>2. ServerTypeOK'
    BY <1>4, <2>1 DEF Return, ServerTypeOK, startVars, mainVars
  <2>3. ShutdownOK'
    BY <1>1, <1>4, <2>1 DEF Return, ShutdownOK, Quiet, Active, Inside, startVars, mainVars, GRPC
  <2> QED BY <1>2, <2>2, <2>3
<1> QED BY <1>3, <1>4 DEF ServeTooLate, ServeFails, ServeEnds

LEMMA ShutdownInv ==
  ASSUME ServerInv, Signal \/ GracefulStop \/ GraceEnds
  PROVE  ServerInv'
<1> USE DEF ServerInv
<1>1. CASE Signal
  <2>1. StartOK' /\ RequestsOK'
    BY <1>1, StartKept DEF Signal, serveVars, StartOK
  <2> QED BY <1>1, <2>1 DEF Signal, ShutdownOK, ServerTypeOK, Quiet, Active, Inside, startVars, serveVars, GRPC
<1>2. CASE GracefulStop
  <2>1. StartOK' /\ RequestsOK'
    BY <1>2, StartKept DEF GracefulStop, serveVars, StartOK
  <2> QED BY <1>2, <2>1
          DEF GracefulStop, Drained, ShutdownOK, ServerTypeOK, Quiet, Active, Inside, startVars, serveVars, GRPC
<1>3. CASE GraceEnds
  <2>1. StartOK' /\ RequestsOK'
    BY <1>3, StartKept DEF GraceEnds, serveVars, StartOK
  <2>2. ServerTypeOK'
    BY <1>3, ServerAssumption DEF GraceEnds, ServerTypeOK, startVars, serveVars
  <2>3. ShutdownOK'
    BY <1>3, ServerAssumption
       DEF GraceEnds, ShutdownOK, ServerTypeOK, Quiet, Active, Inside, startVars, serveVars, GRPC
  <2> QED BY <2>1, <2>2, <2>3
<1> QED BY <1>1, <1>2, <1>3

----------------------------------------------------------------------------
(* The steps of a request.                                                 *)

\* A request that moves on finds the process built and not yet quiet.
LEMMA RequestStepInv ==
  ASSUME ServerInv, NEW r \in Request, NEW state \in ReqStates, Step(r, state),
         Running, srv # None, ~Quiet,
         pending' \in Nat,
         state.at \in Before /\ state.op = "ready" => ~GRPC,
         state.at \in Before \ {"accepted"} => (KeyRequired(state.op) => state.key = srv["authKey"]),
         state.at = "returning" => Tells(state.code, state.outcome)
  PROVE  ServerInv'
<1>1. /\ req \in [Request -> ReqStates] /\ req' = [req EXCEPT ![r] = state]
      /\ UNCHANGED <<file, env, srv, main, err, exit, signalled, stopping, expired, stopped,
                     closed, serving, errCh>>
  BY DEF ServerInv, RequestsOK, Step, startVars, mainVars, serveVars
<1>2. req' \in [Request -> ReqStates] /\ req'[r] = state
      /\ \A q \in Request \ {r} : req'[q] = req[q]
  BY <1>1
<1>3. ServerTypeOK'
  BY <1>1 DEF ServerInv, ServerTypeOK
<1>4. StartOK'
  BY <1>1 DEF ServerInv, StartOK
<1>5. ShutdownOK'
  BY <1>1 DEF ServerInv, ShutdownOK, Running, GRPC
<1>6. RequestsOK'
  <2>1. ASSUME NEW q \in Request, Inside(q)' PROVE MayEnter(q)'
    <3>1. CASE q = r
      <4>1. state.at \in Before \ {"accepted"}
        BY <1>2, <2>1, <3>1 DEF Inside, Before, WritePlaces
      <4> QED BY <1>1, <1>2, <3>1, <4>1 DEF MayEnter, KeyRequired, GRPC
    <3>2. CASE q # r
      <4>1. MayEnter(q)
        BY <1>2, <2>1, <3>2 DEF ServerInv, RequestsOK, Inside
      <4> QED BY <1>1, <1>2, <3>2, <4>1 DEF MayEnter, KeyRequired, GRPC
    <3> QED BY <3>1, <3>2
  <2>2. ASSUME NEW q \in Request, req'[q].at = "returning"
        PROVE  Tells(req'[q].code, req'[q].outcome)
    <3>1. CASE q = r
      BY <1>2, <2>2, <3>1
    <3>2. CASE q # r
      BY <1>2, <2>2, <3>2 DEF ServerInv, RequestsOK
    <3> QED BY <3>1, <3>2
  <2>3. \A q \in Request : req'[q].at = "returning" => Tells(req'[q].code, req'[q].outcome)
    BY <2>2
  <2>4. ASSUME NEW q \in Request, req'[q].at \in Before, req'[q].op = "ready"
        PROVE  ~GRPC'
    <3>1. CASE q = r
      BY <1>1, <1>2, <2>4, <3>1 DEF GRPC
    <3>2. CASE q # r
      BY <1>1, <1>2, <2>4, <3>2 DEF ServerInv, RequestsOK, GRPC
    <3> QED BY <3>1, <3>2
  <2> QED BY <1>2, <2>1, <2>3, <2>4, Zenon DEF RequestsOK
<1> QED BY <1>3, <1>4, <1>5, <1>6 DEF ServerInv

\* A request in progress is known to a server that was built.
LEMMA ActiveNotQuiet ==
  ASSUME ServerInv, NEW r \in Request, Active(r)
  PROVE  srv # None /\ ~Quiet
<1>1. req[r] # Idle
  BY DEF Active, Inside, WritePlaces, Idle
<1> QED BY <1>1 DEF ServerInv, StartOK, Quiet

\* What the fields of a request are, by the place it is at.
LEMMA RequestShape ==
  ASSUME ServerInv, NEW r \in Request
  PROVE  /\ req[r].at \in Before => req[r] \in Asked
         /\ req[r].at = "returning" => req[r] \in Done
BY DEF ServerInv, RequestsOK, ReqStates, Idle, Answered, Asked, Done, Before, WritePlaces

\* Every outcome of the service has a code that tells it.
LEMMA CodesTell ==
  ASSUME NEW op \in Ops, NEW outcome,
         outcome \in Outcomes(op) \/ outcome \in {"ok", "failed", "wrong_dim"}
  PROVE  /\ outcome \in AllOutcomes
         /\ HTTPStatus(op, outcome) \in Codes /\ Tells(HTTPStatus(op, outcome), outcome)
         /\ op # "ready" =>
              GRPCCode(outcome) \in Codes /\ Tells(GRPCCode(outcome), outcome)
<1>1. CASE outcome = "ok"
  <2>1. HTTPStatus(op, outcome) = "200" /\ GRPCCode(outcome) = "OK"
    BY <1>1, Zenon DEF HTTPStatus, GRPCCode
  <2>2. Tells("200", "ok") /\ Tells("OK", "ok")
    BY Zenon DEF Tells
  <2> QED BY <1>1, <2>1, <2>2 DEF AllOutcomes, Codes
<1>2. CASE outcome = "invalid"
  <2>1. HTTPStatus(op, outcome) = "400" /\ GRPCCode(outcome) = "InvalidArgument"
    BY <1>2, Zenon DEF HTTPStatus, GRPCCode
  <2>2. Tells("400", "invalid") /\ Tells("InvalidArgument", "invalid")
    BY Zenon DEF Tells
  <2> QED BY <1>2, <2>1, <2>2 DEF AllOutcomes, Codes
<1>3. CASE outcome = "exists" /\ op = "add"
  <2>1. HTTPStatus(op, outcome) = "409" /\ GRPCCode(outcome) = "AlreadyExists"
    BY <1>3, Zenon DEF HTTPStatus, GRPCCode
  <2>2. Tells("409", "exists") /\ Tells("AlreadyExists", "exists")
    BY Zenon DEF Tells
  <2> QED BY <1>3, <2>1, <2>2 DEF AllOutcomes, Codes
<1>4. CASE outcome = "not_found" /\ op \in {"get", "delete"}
  <2>1. HTTPStatus(op, outcome) = "404" /\ GRPCCode(outcome) = "NotFound"
    BY <1>4, Zenon DEF HTTPStatus, GRPCCode
  <2>2. Tells("404", "not_found") /\ Tells("NotFound", "not_found")
    BY Zenon DEF Tells
  <2> QED BY <1>4, <2>1, <2>2 DEF AllOutcomes, Codes
<1>5. CASE outcome = "not_ready" /\ op = "ready"
  <2>1. HTTPStatus(op, outcome) = "503"
    BY <1>5, Zenon DEF HTTPStatus
  <2>2. Tells("503", "not_ready")
    BY Zenon DEF Tells
  <2> QED BY <1>5, <2>1, <2>2 DEF AllOutcomes, Codes
<1>6. CASE outcome \in {"failed", "wrong_dim"}
  <2>1. HTTPStatus(op, outcome) = "500" /\ GRPCCode(outcome) = "Internal"
    BY <1>6, Zenon DEF HTTPStatus, GRPCCode
  <2>2. Tells("500", outcome) /\ Tells("Internal", outcome)
    BY <1>6, Zenon DEF Tells
  <2> QED BY <1>6, <2>1, <2>2 DEF AllOutcomes, Codes
<1>7. /\ op = "health" => Outcomes(op) = {"ok"}
      /\ op = "ready" => Outcomes(op) = {"ok", "not_ready"}
      /\ op = "add" => Outcomes(op) = {"ok", "exists", "invalid", "wrong_dim", "failed"}
      /\ op = "search" => Outcomes(op) = {"ok", "invalid"}
      /\ op \in {"get", "delete"} => Outcomes(op) = {"ok", "not_found", "invalid", "failed"}
  BY Zenon DEF Outcomes, ReadinessCheck
<1> QED BY <1>1, <1>2, <1>3, <1>4, <1>5, <1>6, <1>7 DEF Ops

LEMMA AcceptInv ==
  ASSUME ServerInv, NEW r \in Request, NEW op \in Ops, NEW key \in Keys, Accept(r, op, key)
  PROVE  ServerInv'
<1> DEFINE state == [at |-> "accepted", op |-> op, key |-> key]
<1>1. state \in ReqStates /\ state.at = "accepted" /\ state.op = op
  BY DEF ReqStates, Asked, Before
<1>2. Step(r, state) /\ Running /\ pending' = pending /\ (op = "ready" => ~GRPC)
  BY DEF Accept
<1>3. srv # None /\ ~Quiet
  BY DEF Accept, ServerInv, StartOK, Quiet
<1>4. pending \in Nat
  BY DEF ServerInv, ServerTypeOK
<1> HIDE DEF state
<1> QED BY <1>1, <1>2, <1>3, <1>4, RequestStepInv

LEMMA RefuseInv ==
  ASSUME ServerInv, NEW r \in Request, Refuse(r)
  PROVE  ServerInv'
<1>1. Answered \in ReqStates /\ Answered.at = "answered"
  BY DEF ReqStates, Answered
<1>2. Step(r, Answered) /\ Running /\ pending' = pending /\ Active(r)
  BY DEF Refuse, Active
<1>3. srv # None /\ ~Quiet
  BY <1>2, ActiveNotQuiet
<1>4. pending \in Nat
  BY DEF ServerInv, ServerTypeOK
<1> QED BY <1>1, <1>2, <1>3, <1>4, RequestStepInv DEF Before, WritePlaces

LEMMA EnterInv ==
  ASSUME ServerInv, NEW r \in Request, Enter(r)
  PROVE  ServerInv'
<1> DEFINE state == [req[r] EXCEPT !.at = "handler"]
<1>1. req[r] \in Asked
  BY RequestShape DEF Enter, Before
<1>2. state \in Asked /\ state.at = "handler" /\ state.op = req[r].op /\ state.key = req[r].key
  BY <1>1 DEF Asked, Before
<1>3. Step(r, state) /\ Running /\ pending' = pending /\ Active(r) /\ req[r].at = "accepted"
  BY DEF Enter, Active
<1>4. srv # None /\ ~Quiet
  BY <1>3, ActiveNotQuiet
<1>5. pending \in Nat
  BY DEF ServerInv, ServerTypeOK
<1> HIDE DEF state
<1>6. KeyRequired(state.op) => state.key = srv["authKey"]
  BY <1>2 DEF Enter, MayEnter
<1>7. state.op = "ready" => ~GRPC
  BY <1>2, <1>3 DEF ServerInv, RequestsOK, Before
<1>8. state \in ReqStates
  BY <1>2 DEF ReqStates
<1> QED BY <1>2, <1>3, <1>4, <1>5, <1>6, <1>7, <1>8, RequestStepInv

\* A handler that goes on to another place of its write.
LEMMA GoToInv ==
  ASSUME ServerInv, NEW r \in Request, Running, Inside(r), pending' \in Nat,
         NEW place \in WritePlaces, GoTo(r, place)
  PROVE  ServerInv'
<1> DEFINE state == [req[r] EXCEPT !.at = place]
<1>1. req[r] \in Asked
  BY RequestShape DEF Inside, Before
<1>2. state \in Asked /\ state.at = place /\ state.op = req[r].op /\ state.key = req[r].key
  BY <1>1 DEF Asked, Before
<1>3. Step(r, state)
  BY DEF GoTo
<1>4. srv # None /\ ~Quiet
  BY ActiveNotQuiet DEF Active
<1> HIDE DEF state
<1>5. KeyRequired(state.op) => state.key = srv["authKey"]
  BY <1>2 DEF ServerInv, RequestsOK, MayEnter
<1>6. state.op = "ready" => ~GRPC
  BY <1>2 DEF ServerInv, RequestsOK, Inside, Before
<1>7. state \in ReqStates /\ state.at # "returning"
  BY <1>2 DEF ReqStates, WritePlaces
<1> QED BY <1>3, <1>4, <1>5, <1>6, <1>7, RequestStepInv

\* A handler that has its answer.
LEMMA FinishInv ==
  ASSUME ServerInv, NEW r \in Request, Running, Inside(r), pending' \in Nat,
         NEW outcome, outcome \in Outcomes(req[r].op) \/ outcome \in {"ok", "failed", "wrong_dim"},
         Finish(r, outcome)
  PROVE  ServerInv'
<1> DEFINE c == IF GRPC THEN GRPCCode(outcome) ELSE HTTPStatus(req[r].op, outcome)
           state == [at |-> "returning", outcome |-> outcome, code |-> c]
<1>1. req[r] \in Asked /\ req[r].op \in Ops
  BY RequestShape DEF Inside, Asked, Before
<1>2. req[r].op = "ready" => ~GRPC
  BY DEF ServerInv, RequestsOK, Inside, Before
<1>3. outcome \in AllOutcomes /\ c \in Codes /\ Tells(c, outcome)
  BY <1>1, <1>2, CodesTell
<1>4. Step(r, state)
  BY DEF Finish
<1> HIDE DEF c
<1>5. state \in ReqStates /\ state.at = "returning" /\ state.code = c /\ state.outcome = outcome
  BY <1>3 DEF ReqStates, Done
<1> HIDE DEF state
<1>6. srv # None /\ ~Quiet
  BY ActiveNotQuiet DEF Active
<1>7. Tells(state.code, state.outcome)
  BY <1>3, <1>5, Zenon
<1>8. state.at \notin Before
  BY <1>5 DEF Before, WritePlaces
<1> QED BY <1>4, <1>5, <1>6, <1>7, <1>8, RequestStepInv

\* The writes that wait for an fsync are counted.
LEMMA LinesAreNat ==
  ASSUME ServerInv, NEW result
  PROVE  Lines(result) \subseteq Nat
BY DEF Lines, Unsynced, ServerInv, ServerTypeOK

LEMMA WriteInv ==
  ASSUME ServerInv, NEW r \in Request,
         \/ \E outcome \in AllOutcomes : Handle(r, outcome)
         \/ BeginWrite(r) \/ AfterWrite(r) \/ Undo(r)
         \/ \E result \in {"ok", "failed"} :
              \/ Write(r, result) \/ SyncLog(r, result)
              \/ SaveSnapshot(r, result) \/ TruncateWAL(r, result)
  PROVE  ServerInv'
<1>1. pending \in Nat /\ 0 \in Nat
  BY DEF ServerInv, ServerTypeOK
<1>2. {"write", "written", "undo", "sync", "save", "truncate"} \subseteq WritePlaces
  BY DEF WritePlaces
<1>3. ASSUME NEW outcome \in AllOutcomes, Handle(r, outcome) PROVE ServerInv'
  BY <1>1, <1>3, FinishInv DEF Handle, Inside
<1>4. CASE BeginWrite(r)
  BY <1>1, <1>2, <1>4, GoToInv DEF BeginWrite, Inside
<1>5. CASE AfterWrite(r)
  BY <1>1, <1>2, <1>5, GoToInv, FinishInv DEF AfterWrite, Inside
<1>6. CASE Undo(r)
  <2>1. pending' \in Nat
    BY <1>6, LinesAreNat DEF Undo
  <2> QED BY <1>2, <1>6, <2>1, FinishInv DEF Undo, Inside
<1>7. ASSUME NEW result \in {"ok", "failed"}, Write(r, result) PROVE ServerInv'
  <2>1. pending' \in Nat
    BY <1>7, LinesAreNat DEF Write
  <2> QED BY <1>2, <1>7, <2>1, GoToInv, FinishInv DEF Write, Inside
<1>8. ASSUME NEW result \in {"ok", "failed"}, SyncLog(r, result) PROVE ServerInv'
  BY <1>1, <1>2, <1>8, GoToInv, FinishInv DEF SyncLog, Inside
<1>9. ASSUME NEW result \in {"ok", "failed"}, SaveSnapshot(r, result) PROVE ServerInv'
  BY <1>1, <1>2, <1>9, GoToInv, FinishInv DEF SaveSnapshot, Inside
<1>10. ASSUME NEW result \in {"ok", "failed"}, TruncateWAL(r, result) PROVE ServerInv'
  BY <1>1, <1>2, <1>10, FinishInv DEF TruncateWAL, Inside
<1> QED BY <1>3, <1>4, <1>5, <1>6, <1>7, <1>8, <1>9, <1>10

LEMMA RespondInv ==
  ASSUME ServerInv, NEW r \in Request, Respond(r)
  PROVE  ServerInv'
<1> DEFINE state == IF GRPC /\ expired THEN [at |-> "dropped"] ELSE Answered
<1>1. state \in ReqStates /\ state.at \in {"dropped", "answered"}
  BY DEF ReqStates, Answered
<1>2. Step(r, state) /\ Running /\ pending' = pending /\ Active(r)
  BY DEF Respond, Active
<1>3. srv # None /\ ~Quiet
  BY <1>2, ActiveNotQuiet
<1>4. pending \in Nat
  BY DEF ServerInv, ServerTypeOK
<1> HIDE DEF state
<1> QED BY <1>1, <1>2, <1>3, <1>4, RequestStepInv DEF Before, WritePlaces

\* A panic that nobody recovers from ends the process with status 2.
LEMMA HandlerPanicsInv ==
  ASSUME ServerInv, NEW r \in Request, NEW dies \in BOOLEAN, HandlerPanics(r, dies)
  PROVE  ServerInv'
<1> DEFINE state == [at |-> "dropped"]
<1>1. state \in ReqStates /\ state.at = "dropped"
  BY DEF ReqStates
<1>2. Active(r) /\ Running /\ pending' = pending /\ req' = [req EXCEPT ![r] = state]
  BY DEF HandlerPanics, Active, Inside
<1>3. srv # None /\ ~Quiet
  BY <1>2, ActiveNotQuiet
<1>4. pending \in Nat
  BY DEF ServerInv, ServerTypeOK
<1> HIDE DEF state
<1>5. CASE ~dies
  <2>1. Step(r, state)
    BY <1>2, <1>5 DEF HandlerPanics, Step, mainVars
  <2> QED BY <1>1, <1>2, <1>3, <1>4, <2>1, RequestStepInv DEF Before, WritePlaces
<1>6. CASE dies
  <2>1. exit' = 2 /\ main' = "exited" /\ exit = None
    BY <1>2, <1>6 DEF HandlerPanics, Running
  <2>2. UNCHANGED <<file, env, srv, err, signalled, stopping, expired, stopped, closed, serving,
                   errCh>>
    BY DEF HandlerPanics, startVars, serveVars
  <2>3. ServerTypeOK'
    BY <1>2, <2>1, <2>2, ServerAssumption DEF ServerInv, ServerTypeOK
  <2>4. StartOK'
    BY <1>2, <1>3, <2>1, <2>2 DEF ServerInv, StartOK
  <2>5. ShutdownOK'
    BY <1>3, <2>1, <2>2, ServerAssumption DEF ServerInv, ShutdownOK, GRPC
  <2>6. req' \in [Request -> ReqStates] /\ req'[r].at = "dropped"
        /\ \A q \in Request \ {r} : req'[q] = req[q]
    BY <1>1, <1>2 DEF ServerInv, RequestsOK
  <2>7. \A q \in Request : MayEnter(q)' <=> (KeyRequired(req'[q].op) => req'[q].key = srv["authKey"])
    BY <2>2 DEF MayEnter, KeyRequired, GRPC
  <2>8. GRPC' = GRPC
    BY <2>2 DEF GRPC
  <2>9. RequestsOK'
    <3>1. \A q \in Request \ {r} :
            /\ Inside(q)' => MayEnter(q)'
            /\ req'[q].at = "returning" => Tells(req'[q].code, req'[q].outcome)
            /\ req'[q].at \in Before /\ req'[q].op = "ready" => ~GRPC
      BY <2>6, <2>7 DEF ServerInv, RequestsOK, MayEnter, Inside
    <3>2. \A q \in Request :
            /\ Inside(q)' => MayEnter(q)'
            /\ req'[q].at = "returning" => Tells(req'[q].code, req'[q].outcome)
            /\ req'[q].at \in Before /\ req'[q].op = "ready" => ~GRPC
      BY <2>6, <3>1 DEF Inside, Before, WritePlaces
    <3> QED BY <2>6, <2>8, <3>2, Zenon DEF RequestsOK
  <2> QED BY <2>3, <2>4, <2>5, <2>9 DEF ServerInv
<1> QED BY <1>5, <1>6

LEMMA NextServerInv == ServerInv /\ [Next]_vars => ServerInv'
<1> SUFFICES ASSUME ServerInv, [Next]_vars PROVE ServerInv'
  OBVIOUS
<1>1. CASE MainStep
  BY <1>1, MainInv, BuildServerInv DEF MainStep
<1>2. CASE ServingStep \/ ServeFails
  BY <1>2, ServingInv DEF ServingStep
<1>3. CASE Signal \/ GracefulStop \/ GraceEnds
  BY <1>3, ShutdownInv
<1>4. ASSUME NEW r \in Request, RequestStep(r) PROVE ServerInv'
  BY <1>4, AcceptInv, RefuseInv, EnterInv, WriteInv, RespondInv, HandlerPanicsInv DEF RequestStep
<1>5. CASE UNCHANGED vars
  <2>1. StartOK' /\ RequestsOK'
    BY <1>5, StartKept DEF vars, startVars, mainVars, serveVars, ServerInv, StartOK
  <2> QED BY <1>5, <2>1 DEF ServerInv, ServerTypeOK, ShutdownOK, Quiet, Active, Inside, GRPC,
                            vars, startVars, mainVars, serveVars
<1> QED BY <1>1, <1>2, <1>3, <1>4, <1>5 DEF Next

----------------------------------------------------------------------------
(* The theorems.                                                           *)

\* main, Run and the handlers keep the invariant, whatever the file, the
\* environment, the requests and the order of the goroutines.
THEOREM ServerInvHolds == Spec => []ServerInv
<1>1. Init => ServerInv
  BY InitServerInv
<1>2. ServerInv /\ [Next]_vars => ServerInv'
  BY NextServerInv
<1> QED BY <1>1, <1>2, PTL DEF Spec

\* Of the state of the server: its settings are those of SettingsAre.
LEMMA BuiltSettings ==
  ASSUME ServerInv, srv # None
  PROVE  /\ file \in Files \ {Junk} /\ env \in Envs /\ srv = ServerOptions(Load(file, env))
         /\ srv["authKey"] = Or(Or(Given(env, "authKey"), Given(file, "authKey")),
                               Or(Given(env, "apiKey"), Given(file, "apiKey")))
BY SettingsAre DEF ServerInv, StartOK

\* authMiddleware and grpcAuthInterceptor with the settings of buildServer: in
\* production no handler of a vector operation runs without the configured key.
THEOREM KeyIsRequired == Spec => []KeyProtects
<1>1. ServerInv => KeyProtects
  <2> SUFFICES ASSUME ServerInv, NEW r \in Request, Inside(r),
                      req[r].op \notin Public, InProduction, TheKey # Unset
               PROVE  req[r].key = TheKey
    BY DEF KeyProtects
  <2>1. srv # None
    BY ActiveNotQuiet DEF Active
  <2>2. srv["authKey"] = TheKey
    BY <2>1, BuiltSettings DEF TheKey, Or
  <2>3. srv["authEnabled"] /\ srv["grpcAuth"]
    BY <2>1, <2>2, BuiltSettings, SettingsAre, Zenon DEF InProduction
  <2>4. MayEnter(r)
    BY DEF ServerInv, RequestsOK
  <2> QED BY <2>2, <2>3, <2>4, Zenon DEF MayEnter, KeyRequired
<1> QED BY <1>1, ServerInvHolds, PTL

\* Load, applySecurityDefaults and buildServer: the settings the server works
\* with are in range for every file and every environment.
THEOREM SettingsAreInRange == Spec => []SettingsInRange
<1>1. ServerInv => SettingsInRange
  <2> SUFFICES ASSUME ServerInv, srv # None PROVE SettingsInRange
    BY DEF SettingsInRange
  <2>1. file \in Files \ {Junk} /\ env \in Envs /\ srv = ServerOptions(Load(file, env))
    BY BuiltSettings
  <2>2. /\ \A f \in Positive \cup Duration : srv[f] \in Nat \ {0}
        /\ srv["rateLimitRPS"] \in Nat /\ srv["annEvalSampleRate"] \in 0 .. 100
    BY <2>1, SettingsAre
  <2>3. srv["grpcEnabled"] <=> GRPC
    BY <2>1, SettingsAre, Zenon DEF GRPC
  <2>4. \A f \in {"dirMode", "fileMode"} :
          InProduction /\ Mode(f) \in {Unset, DefaultConfig[f]} => srv[f] = PrivateMode(f)
    BY <2>1, SettingsAre, Zenon DEF InProduction, Mode
  <2>6. \A f \in {"dirMode", "fileMode"} : srv[f] > 0
    <3>1. \A f \in {"dirMode", "fileMode"} : srv[f] \in Nat \ {0}
      BY <2>1, SettingsAre, Zenon
    <3> QED BY <3>1
  <2>5. /\ \A f \in Positive \cup Duration : srv[f] > 0
        /\ srv["rateLimitRPS"] >= 0
    BY <2>2
  <2> QED BY <2>2, <2>3, <2>4, <2>5, <2>6, Zenon DEF SettingsInRange
<1> QED BY <1>1, ServerInvHolds, PTL

\* The HTTP handlers and grpcStatusFromError: the code of an answer tells the
\* outcome of the call it answers.
THEOREM CodesTellOutcome == Spec => []AnswerTellsOutcome
<1>1. ServerInv => AnswerTellsOutcome
  <2> SUFFICES ASSUME ServerInv, NEW r \in Request, req[r].at = "returning"
               PROVE  Tells(req[r].code, req[r].outcome)
    BY Zenon DEF AnswerTellsOutcome, Tells
  <2> QED BY Zenon DEF ServerInv, RequestsOK
<1> QED BY <1>1, ServerInvHolds, PTL

\* Run, runHTTP, runGRPC and runServer: after status 0 within the grace period
\* no request was cut off and, unless Close failed, no write waits for its fsync.
THEOREM CleanExit == Spec => []CleanExitLosesNothing
<1>1. ServerInv => CleanExitLosesNothing
  <2> SUFFICES ASSUME ServerInv PROVE CleanExitLosesNothing
    OBVIOUS
  <2>1. ASSUME exit = 0, ~expired
        PROVE  Quiet /\ (closed = "ok" => pending = 0)
    <3>1. main = "exited" /\ err = "none"
      BY <2>1, ServerAssumption DEF ServerInv, ServerTypeOK, ShutdownOK
    <3> QED BY <2>1, <3>1 DEF ServerInv, ShutdownOK
  <2> QED BY <2>1, Zenon DEF CleanExitLosesNothing, ServerInv, Quiet
<1> QED BY <1>1, ServerInvHolds, PTL
============================================================================
