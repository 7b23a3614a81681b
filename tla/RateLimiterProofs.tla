------------------------- MODULE RateLimiterProofs -------------------------
(***************************************************************************)
(* The rate limiter keeps to its limit, and to no less than it, for every  *)
(* limit, window, number of requests in flight and time.                   *)
(*                                                                         *)
(* The argument is an account of a bucket.  Counted from any request that  *)
(* it let through, what it gave since and what it holds are at most what   *)
(* it was allowed since (Bound); and counted from the last request that    *)
(* found it full, they are at least that (Used).                           *)
(***************************************************************************)
EXTENDS RateLimiter, SequenceTheorems, TLAPS

Allowed(k, i) == Limit * (Window + (last[k] - adm[k][i].asked))
Given(k, i) == Window * (Len(adm[k]) - i + 1)

Bound ==
  \A k \in Key : \A i \in 1..Len(adm[k]) : Given(k, i) + tokens[k] <= Allowed(k, i)

Used ==
  \A k \in known : \E i \in 1..Len(adm[k]) : Given(k, i) + tokens[k] >= Allowed(k, i)

Unknown == \A k \in Key \ known : adm[k] = <<>>

RateInv == RateTypeOK /\ Bound /\ Used /\ Unknown /\ RateBounded

----------------------------------------------------------------------------
\* A bucket has room for a token.
LEMMA BurstHoldsOne == Burst \in Nat /\ Burst >= Window
<1>1. \A a, b \in Nat \ {0} : a * b \in Nat /\ a * b >= b
  BY SMT
<1> QED BY <1>1, RateAssumption DEF Burst

\* The refill of a bucket stays within the burst, loses nothing, and adds no
\* more than the rate for the time that has passed.
LEMMA RefillIsSound ==
  ASSUME RateTypeOK, NEW p \in Proc, NEW k \in Key
  PROVE  /\ Refilled(p, k) \in 0..Burst
         /\ Stamp(p, k) \in 0..clock
         /\ Stamp(p, k) >= last[k] /\ Stamp(p, k) >= now[p]
         /\ Refilled(p, k) <= tokens[k] + Limit * (Stamp(p, k) - last[k])
         /\ \/ Refilled(p, k) = tokens[k] + Limit * (Stamp(p, k) - last[k])
            \/ Refilled(p, k) = Burst /\ Stamp(p, k) = now[p]
<1> DEFINE d == Stamp(p, k) - last[k]
<1>1. /\ tokens[k] \in 0..Burst /\ last[k] \in 0..clock /\ now[p] \in 0..clock
      /\ clock \in Nat /\ Burst \in Nat /\ Limit \in Nat
  BY BurstHoldsOne, RateAssumption DEF RateTypeOK
<1>2. /\ Stamp(p, k) \in 0..clock /\ d \in Nat
      /\ Stamp(p, k) >= last[k] /\ Stamp(p, k) >= now[p]
      /\ now[p] > last[k] => Stamp(p, k) = now[p]
      /\ now[p] <= last[k] => d = 0
  BY <1>1 DEF Stamp
<1>3. Limit * d \in Nat /\ (d = 0 => Limit * d = 0)
  <2>1. \A a, b \in Nat : a * b \in Nat /\ (b = 0 => a * b = 0)
    BY SMT
  <2> QED BY <2>1, <1>1, <1>2
<1>4. Refilled(p, k) = IF now[p] <= last[k] THEN tokens[k]
                       ELSE IF tokens[k] + Limit * d > Burst THEN Burst
                       ELSE tokens[k] + Limit * d
  BY <1>1, <1>2 DEF Refilled
<1> HIDE DEF d
<1>5. /\ Refilled(p, k) \in 0..Burst
      /\ Refilled(p, k) <= tokens[k] + Limit * d
      /\ \/ Refilled(p, k) = tokens[k] + Limit * d
         \/ Refilled(p, k) = Burst /\ Stamp(p, k) = now[p]
  BY <1>1, <1>2, <1>3, <1>4
<1> QED BY <1>2, <1>5 DEF d

\* Requests asked, and were let through, in the past.
LEMMA HistoryTyped ==
  ASSUME RateTypeOK, NEW k \in Key
  PROVE  /\ clock \in Nat /\ Len(adm[k]) \in Nat
         /\ DOMAIN adm[k] = 1..Len(adm[k])
         /\ \A i \in 1..Len(adm[k]) :
              adm[k][i].asked \in 0..clock /\ adm[k][i].at \in 0..clock
<1> DEFINE S == [asked : 0..clock, at : 0..clock]
<1>0. clock \in Nat
  BY RateAssumption DEF RateTypeOK
<1> HIDE DEF S
<1>1. adm[k] \in Seq(S)
  <2>1. adm \in [Key -> Seq(S)]
    BY DEF RateTypeOK, S
  <2> QED BY <2>1
<1>2. Len(adm[k]) \in Nat /\ adm[k] \in [1..Len(adm[k]) -> S]
  BY <1>1, LenProperties
<1>3. DOMAIN adm[k] = 1..Len(adm[k]) /\ \A i \in 1..Len(adm[k]) : adm[k][i] \in S
  BY <1>2, Zenon
<1> QED BY <1>0, <1>2, <1>3 DEF S

\* The account of a bucket with x tokens at time s, counted from a request that
\* asked at time a, after a refill to r tokens at time t and the gift of one.
LEMMA AccountKept ==
  ASSUME NEW l \in Nat, NEW w \in Nat, NEW s \in Int, NEW t \in Int, NEW a \in Int,
         NEW n \in Int, NEW x \in Int, NEW r \in Int,
         w * n + x <= l * (w + (s - a)), r <= x + l * (t - s)
  PROVE  /\ w * n + r <= l * (w + (t - a))
         /\ w * (n + 1) + (r - w) <= l * (w + (t - a))
<1>1. l * (w + (t - a)) = l * (w + (s - a)) + l * (t - s)
  BY SMT
<1>2. w * (n + 1) = w * n + w
  BY SMT
<1>3. l * (w + (s - a)) \in Int /\ l * (t - s) \in Int /\ w * n \in Int
  BY SMT
<1> QED BY <1>1, <1>2, <1>3

\* The same from below.
LEMMA AccountKeptBelow ==
  ASSUME NEW l \in Nat, NEW w \in Nat, NEW s \in Int, NEW t \in Int, NEW a \in Int,
         NEW n \in Int, NEW x \in Int, NEW r \in Int,
         w * n + x >= l * (w + (s - a)), r >= x + l * (t - s)
  PROVE  /\ w * n + r >= l * (w + (t - a))
         /\ w * (n + 1) + (r - w) >= l * (w + (t - a))
<1>1. l * (w + (t - a)) = l * (w + (s - a)) + l * (t - s)
  BY SMT
<1>2. w * (n + 1) = w * n + w
  BY SMT
<1>3. l * (w + (s - a)) \in Int /\ l * (t - s) \in Int /\ w * n \in Int
  BY SMT
<1> QED BY <1>1, <1>2, <1>3

\* The account of a bucket that is opened by a request which asked at time a.
LEMMA AccountOpened ==
  ASSUME NEW l \in Nat, NEW w \in Nat, NEW t \in Int, NEW a \in Int, NEW r \in Int,
         t >= a, r <= l * w
  PROVE  /\ w * 1 + (r - w) <= l * (w + (t - a))
         /\ t = a /\ r = l * w => w * 1 + (r - w) >= l * (w + (t - a))
<1>1. l * (w + (t - a)) = l * w + l * (t - a)
  BY SMT
<1>2. l * (t - a) >= 0 /\ l * (t - a) \in Int /\ (t = a => l * (t - a) = 0)
  BY SMT
<1>3. l * w \in Int
  BY SMT
<1> QED BY <1>1, <1>2, <1>3

\* More time allows no less.
LEMMA AllowedGrows ==
  ASSUME NEW l \in Nat, NEW w \in Nat, NEW s \in Int, NEW t \in Int, NEW a \in Int, s <= t
  PROVE  l * (w + (s - a)) <= l * (w + (t - a))
<1>1. l * (w + (t - a)) = l * (w + (s - a)) + l * (t - s)
  BY SMT
<1>2. l * (t - s) >= 0 /\ l * (t - s) \in Int /\ l * (w + (s - a)) \in Int
  BY SMT
<1> QED BY <1>1, <1>2

\* A bucket with less than a token has no allowance left for another.
LEMMA StrictlyOver ==
  ASSUME NEW w \in Nat, NEW m \in Int, NEW r \in Int, NEW x, NEW y,
         w * m + r >= y, r < w, x <= y, x \in Int, y \in Int
  PROVE  w * (m + 1) > x
<1>1. w * (m + 1) = w * m + w /\ w * m \in Int
  BY SMT
<1> QED BY <1>1

\* What the bucket of a client and its history look like after a request was
\* let through with r tokens in the bucket and its time at t.
LEMMA AdmitAccounts ==
  ASSUME RateTypeOK, RateTypeOK', Bound, NEW p \in Proc, NEW k \in Key,
         NEW r \in 0..Burst, NEW t \in 0..clock,
         t >= now[p],
         Len(adm[k]) > 0 => r <= tokens[k] + Limit * (t - last[k]),
         tokens' = [tokens EXCEPT ![k] = r - Window],
         last' = [last EXCEPT ![k] = t],
         Admit(p, k)
  PROVE  Bound'
<1> DEFINE n == Len(adm[k])
<1>1. /\ adm[k] \in Seq([asked : 0..clock, at : 0..clock])
      /\ adm'[k] = Append(adm[k], [asked |-> now[p], at |-> clock])
      /\ \A j \in Key \ {k} : adm'[j] = adm[j] /\ tokens'[j] = tokens[j] /\ last'[j] = last[j]
      /\ tokens'[k] = r - Window /\ last'[k] = t
  BY DEF RateTypeOK, Admit
<1>2. /\ Len(adm'[k]) = n + 1 /\ n \in Nat
      /\ adm'[k][n + 1].asked = now[p]
      /\ \A i \in 1..n : adm'[k][i] = adm[k][i]
  BY <1>1
<1>3. \A i \in 1..n : adm[k][i].asked \in Int
  BY HistoryTyped
<1>4. /\ Limit \in Nat /\ Window \in Nat /\ last[k] \in Int /\ t \in Int /\ now[p] \in Int
      /\ tokens[k] \in Int /\ r \in Int /\ r <= Limit * Window
  BY RateAssumption, BurstHoldsOne DEF RateTypeOK, Burst
<1>5. ASSUME NEW i \in 1..n
      PROVE  Window * (n - i + 1 + 1) + (r - Window) <= Limit * (Window + (t - adm[k][i].asked))
  <2>1. Window * (n - i + 1) + tokens[k] <= Limit * (Window + (last[k] - adm[k][i].asked))
    BY DEF Bound, Given, Allowed
  <2>2. r <= tokens[k] + Limit * (t - last[k]) /\ n - i + 1 \in Int /\ adm[k][i].asked \in Int
    BY <1>2, <1>3
  <2> QED BY <2>1, <2>2, <1>4, AccountKept
<1>7. Window * 1 + (r - Window) <= Limit * (Window + (t - now[p]))
  BY <1>4, AccountOpened
<1>6. \A i \in 1..Len(adm'[k]) : Given(k, i)' + tokens'[k] <= Allowed(k, i)'
  <2> SUFFICES ASSUME NEW i \in 1..(n + 1)
               PROVE  Given(k, i)' + tokens'[k] <= Allowed(k, i)'
    BY <1>2
  <2>3. /\ Given(k, i)' = Window * (n - i + 1 + 1)
        /\ Allowed(k, i)' = Limit * (Window + (t - adm'[k][i].asked))
    <3>1. Len(adm'[k]) - i + 1 = n - i + 1 + 1
      BY <1>2
    <3> QED BY <3>1, <1>1 DEF Given, Allowed
  <2>1. CASE i \in 1..n
    <3>1. adm'[k][i].asked = adm[k][i].asked
      BY <2>1, <1>2
    <3>2. Window * (n - i + 1 + 1) + (r - Window) <= Limit * (Window + (t - adm[k][i].asked))
      BY <2>1, <1>5
    <3> QED BY <3>1, <3>2, <2>3, <1>1
  <2>2. CASE i = n + 1
    <3>1. n - i + 1 + 1 = 1
      BY <2>2, <1>2
    <3> QED BY <3>1, <2>2, <2>3, <1>1, <1>2, <1>7
  <2> QED BY <2>1, <2>2, <1>2
<1> QED BY <1>1, <1>6 DEF Bound, Given, Allowed

----------------------------------------------------------------------------
\* The type invariant holds at the start.
LEMMA TypeInit == Init => RateTypeOK
<1> SUFFICES ASSUME Init PROVE RateTypeOK
  OBVIOUS
<1>1. adm \in [Key -> Seq([asked : 0..clock, at : 0..clock])]
  BY DEF Init
<1>2. clock \in 0..MaxClock /\ last \in [Key -> 0..clock] /\ now \in [Proc -> 0..clock]
  BY RateAssumption DEF Init
<1>3. tokens \in [Key -> 0..Burst]
  BY BurstHoldsOne DEF Init
<1> QED BY <1>1, <1>2, <1>3 DEF Init, RateTypeOK

\* Every step keeps the types: a request that is let through had a token to pay
\* with, and a refill stops at the burst.
LEMMA TypeStep ==
  ASSUME RateTypeOK, [Next]_vars
  PROVE  RateTypeOK'
<1>0. clock \in Nat /\ MaxClock \in Nat
  BY RateAssumption DEF RateTypeOK
<1>1. CASE Tick
  <2> DEFINE S == [asked : 0..clock, at : 0..clock]
             T == [asked : 0..clock', at : 0..clock']
  <2>1. clock' \in 0..MaxClock /\ 0..clock \subseteq 0..clock'
    BY <1>0, <1>1 DEF Tick
  <2>2. last' \in [Key -> 0..clock'] /\ now' \in [Proc -> 0..clock']
    BY <2>1, <1>1 DEF Tick, RateTypeOK
  <2>3. adm' \in [Key -> Seq(T)]
    <3>1. S \subseteq T
      BY <2>1
    <3>2. adm \in [Key -> Seq(S)] /\ adm' = adm
      BY <1>1 DEF Tick, RateTypeOK
    <3> HIDE DEF S, T
    <3>3. Seq(S) \subseteq Seq(T)
      BY <3>1
    <3> QED BY <3>2, <3>3
  <2> QED BY <2>1, <2>2, <2>3, <1>1 DEF Tick, RateTypeOK
<1>2. ASSUME NEW p \in Proc, NEW k \in Key, Ask(p, k)
      PROVE  RateTypeOK'
  <2>1. /\ pc' \in [Proc -> {"idle", "asked"}] /\ key' \in [Proc -> Key]
        /\ now' \in [Proc -> 0..clock]
    BY <1>0, <1>2 DEF Ask, RateTypeOK
  <2> QED BY <2>1, <1>2 DEF Ask, RateTypeOK
<1>3. ASSUME NEW p \in Proc, NEW k \in Key, Admit(p, k)
      PROVE  /\ clock' = clock /\ pc' \in [Proc -> {"idle", "asked"}]
             /\ key' = key /\ now' = now
             /\ adm' \in [Key -> Seq([asked : 0..clock, at : 0..clock])]
  <2> DEFINE S == [asked : 0..clock, at : 0..clock]
             e == [asked |-> now[p], at |-> clock]
  <2>1. clock' = clock /\ key' = key /\ now' = now /\ pc' \in [Proc -> {"idle", "asked"}]
    BY <1>3 DEF Admit, RateTypeOK
  <2>2. e \in S
    BY <1>0 DEF RateTypeOK
  <2>3. adm \in [Key -> Seq(S)] /\ adm' = [adm EXCEPT ![k] = Append(@, e)]
    BY <1>3 DEF Admit, RateTypeOK
  <2> HIDE DEF S, e
  <2>4. Append(adm[k], e) \in Seq(S)
    BY <2>2, <2>3
  <2>5. adm' \in [Key -> Seq(S)]
    BY <2>3, <2>4
  <2> QED BY <2>1, <2>5 DEF S
<1>4. ASSUME NEW p \in Proc, NEW k \in Key, AllowNew(p, k)
      PROVE  RateTypeOK'
  <2>1. Burst - Window \in 0..Burst /\ now[p] \in 0..clock
    BY BurstHoldsOne, RateAssumption DEF RateTypeOK
  <2>2. Admit(p, k)
    BY <1>4 DEF AllowNew
  <2> QED BY <2>1, <2>2, <1>3, <1>4 DEF AllowNew, RateTypeOK
<1>5. ASSUME NEW p \in Proc, NEW k \in Key, Allow(p, k)
      PROVE  RateTypeOK'
  <2>1. Refilled(p, k) - Window \in 0..Burst /\ Stamp(p, k) \in 0..clock
    BY RefillIsSound, BurstHoldsOne, RateAssumption, <1>5 DEF Allow
  <2>2. Admit(p, k)
    BY <1>5 DEF Allow
  <2> QED BY <2>1, <2>2, <1>3, <1>5 DEF Allow, RateTypeOK
<1>6. ASSUME NEW p \in Proc, NEW k \in Key, Refuse(p, k)
      PROVE  RateTypeOK'
  <2>1. Refilled(p, k) \in 0..Burst /\ Stamp(p, k) \in 0..clock
    BY RefillIsSound
  <2> QED BY <2>1, <1>6 DEF Refuse, RateTypeOK
<1>7. CASE UNCHANGED vars
  BY <1>7 DEF vars, RateTypeOK
<1> QED BY <1>1, <1>2, <1>4, <1>5, <1>6, <1>7 DEF Next

----------------------------------------------------------------------------
\* RateBounded survives a step that lets a request of client k through.
LEMMA AdmitBounded ==
  ASSUME RateTypeOK, RateTypeOK', RateBounded, Bound', NEW p \in Proc, NEW k \in Key,
         Admit(p, k)
  PROVE  RateBounded'
<1> DEFINE n == Len(adm[k])
<1>1. /\ adm'[k] = Append(adm[k], [asked |-> now[p], at |-> clock]) /\ clock' = clock
      /\ \A j \in Key \ {k} : adm'[j] = adm[j]
      /\ adm[k] \in Seq([asked : 0..clock, at : 0..clock])
  BY DEF RateTypeOK, Admit
<1>2. /\ Len(adm'[k]) = n + 1 /\ n \in Nat
      /\ adm'[k][n + 1].at = clock
      /\ \A i \in 1..n : adm'[k][i] = adm[k][i]
      /\ DOMAIN adm[k] = 1..n /\ DOMAIN adm'[k] = 1..(n + 1)
  BY <1>1
<1>3. ASSUME NEW i \in 1..(n + 1)
      PROVE  ~ (Window * (n + 1 - i + 1) > Limit * (Window + (clock - adm'[k][i].asked)))
  <2> DEFINE a == adm'[k][i].asked
             d == Window * (n + 1 - i + 1)
             x == Limit * (Window + (last'[k] - a))
             y == Limit * (Window + (clock - a))
  <2>1. /\ a \in Int /\ clock \in Int /\ last'[k] \in Int /\ last'[k] <= clock
        /\ tokens'[k] \in Int /\ tokens'[k] >= 0 /\ Limit \in Nat /\ Window \in Nat
    <3>1. adm'[k][i].asked \in 0..clock' /\ clock' \in Nat
      <4>1. clock \in Nat /\ now[p] \in 0..clock
        BY HistoryTyped DEF RateTypeOK
      <4>2. CASE i \in 1..n
        BY <4>1, <4>2, <1>1, <1>2, HistoryTyped
      <4>3. CASE i = n + 1
        BY <4>1, <4>3, <1>1, <1>2
      <4> QED BY <4>2, <4>3, <1>2
    <3>2. last'[k] \in 0..clock' /\ tokens'[k] \in 0..Burst
      BY DEF RateTypeOK
    <3>3. clock' = clock /\ Limit \in Nat /\ Window \in Nat /\ Burst \in Nat
      BY <1>1, BurstHoldsOne, RateAssumption
    <3>4. a \in 0..clock'
      BY <3>1
    <3> HIDE DEF a
    <3> QED BY <3>1, <3>2, <3>3, <3>4
  <2>2. d + tokens'[k] <= x
    <3>1. Given(k, i)' + tokens'[k] <= Allowed(k, i)'
      BY <1>2 DEF Bound
    <3>2. Given(k, i)' = d /\ Allowed(k, i)' = x
      BY <1>2 DEF Given, Allowed
    <3> QED BY <3>1, <3>2
  <2>3. x <= y
    <3> HIDE DEF a
    <3> QED BY <2>1, AllowedGrows
  <2>4. d \in Int /\ x \in Int /\ y \in Int
    <3> HIDE DEF a
    <3>1. Window + (last'[k] - a) \in Int /\ Window + (clock - a) \in Int
      BY <2>1
    <3>3. n + 1 - i + 1 \in Int
      BY <1>2
    <3>2. \A u, v \in Int : u * v \in Int
      BY SMT
    <3> HIDE DEF n
    <3> QED BY <3>1, <3>2, <3>3, <2>1
  <2>5. ~ (d > y)
    <3> HIDE DEF d, x, y
    <3> QED BY <2>1, <2>2, <2>3, <2>4
  <2> QED BY <2>5
<1>4. ASSUME NEW j \in 1..(n + 1), NEW i \in 1..j
      PROVE  ~ OverLimit(j - i + 1, adm'[k][i].asked, adm'[k][j].at)
  <2>1. CASE j \in 1..n
    <3>1. i \in 1..n /\ j \in DOMAIN adm[k]
      BY <2>1, <1>2
    <3>2. ~ OverLimit(j - i + 1, adm[k][i].asked, adm[k][j].at)
      BY <3>1 DEF RateBounded
    <3> QED BY <3>1, <3>2, <2>1, <1>2
  <2>2. CASE j = n + 1
    BY <2>2, <1>2, <1>3 DEF OverLimit
  <2> QED BY <2>1, <2>2, <1>2
<1>5. ASSUME NEW c \in Key, NEW j \in DOMAIN adm'[c], NEW i \in 1..j
      PROVE  ~ OverLimit(j - i + 1, adm'[c][i].asked, adm'[c][j].at)
  <2>1. CASE c = k
    BY <2>1, <1>2, <1>4
  <2>2. CASE c # k
    BY <2>2, <1>1 DEF RateBounded
  <2> QED BY <2>1, <2>2
<1>6. RateBounded' <=> \A c \in Key : \A j \in DOMAIN adm'[c] : \A i \in 1..j :
                          ~ OverLimit(j - i + 1, adm'[c][i].asked, adm'[c][j].at)
  BY DEF RateBounded, OverLimit
<1> QED BY <1>5, <1>6

\* Used survives a step that lets a request of client k through: the account
\* goes on, or starts again at a bucket that was full.
LEMMA AdmitUsed ==
  ASSUME RateTypeOK, Used, NEW p \in Proc, NEW k \in Key,
         NEW r \in 0..Burst, NEW t \in 0..clock,
         \/ k \in known /\ r = tokens[k] + Limit * (t - last[k])
         \/ r = Burst /\ t = now[p],
         known' = known \cup {k},
         tokens' = [tokens EXCEPT ![k] = r - Window],
         last' = [last EXCEPT ![k] = t],
         Admit(p, k)
  PROVE  Used'
<1> DEFINE n == Len(adm[k])
<1>1. /\ adm'[k] = Append(adm[k], [asked |-> now[p], at |-> clock])
      /\ \A j \in Key \ {k} : adm'[j] = adm[j] /\ tokens'[j] = tokens[j] /\ last'[j] = last[j]
      /\ tokens'[k] = r - Window /\ last'[k] = t
      /\ adm[k] \in Seq([asked : 0..clock, at : 0..clock])
  BY DEF RateTypeOK, Admit
<1>2. /\ Len(adm'[k]) = n + 1 /\ n \in Nat
      /\ adm'[k][n + 1].asked = now[p]
      /\ \A i \in 1..n : adm'[k][i] = adm[k][i]
  BY <1>1
<1>3. /\ Limit \in Nat /\ Window \in Nat /\ last[k] \in Int /\ t \in Int /\ now[p] \in Int
      /\ tokens[k] \in Int /\ r \in Int /\ Burst = Limit * Window /\ r <= Limit * Window
  BY RateAssumption, BurstHoldsOne DEF RateTypeOK, Burst
<1>4. \A i \in 1..(n + 1) :
        /\ Given(k, i)' = Window * (n - i + 1 + 1)
        /\ Allowed(k, i)' = Limit * (Window + (t - adm'[k][i].asked))
  <2> SUFFICES ASSUME NEW i \in 1..(n + 1)
               PROVE  /\ Given(k, i)' = Window * (n - i + 1 + 1)
                      /\ Allowed(k, i)' = Limit * (Window + (t - adm'[k][i].asked))
    OBVIOUS
  <2>1. Len(adm'[k]) - i + 1 = n - i + 1 + 1
    BY <1>2
  <2> QED BY <2>1, <1>1 DEF Given, Allowed
<1>5. \E i \in 1..(n + 1) : Given(k, i)' + tokens'[k] >= Allowed(k, i)'
  <2>1. CASE k \in known /\ r = tokens[k] + Limit * (t - last[k])
    <3>1. PICK i \in 1..n : Given(k, i) + tokens[k] >= Allowed(k, i)
      BY <2>1 DEF Used
    <3>2. Window * (n - i + 1) + tokens[k] >= Limit * (Window + (last[k] - adm[k][i].asked))
      BY <3>1 DEF Given, Allowed
    <3>3. n - i + 1 \in Int /\ adm[k][i].asked \in Int
      <4>1. n \in Nat /\ i \in 1..n
        BY <1>2, <3>1
      <4>2. adm[k][i].asked \in 0..clock /\ clock \in Nat
        BY <4>1, HistoryTyped
      <4> QED BY <4>1, <4>2
    <3>4. Window * (n - i + 1 + 1) + (r - Window) >= Limit * (Window + (t - adm[k][i].asked))
      <4> DEFINE m == n - i + 1
                 a == adm[k][i].asked
      <4>1. m \in Int /\ a \in Int /\ Window * m + tokens[k] >= Limit * (Window + (last[k] - a))
        BY <3>2, <3>3
      <4> HIDE DEF m, a
      <4>2. Window * (m + 1) + (r - Window) >= Limit * (Window + (t - a))
        <5>1. r >= tokens[k] + Limit * (t - last[k])
          BY <2>1, <1>3
        <5> QED BY <5>1, <4>1, <1>3, AccountKeptBelow
      <4> QED BY <4>2 DEF m, a
    <3>5. i \in 1..(n + 1) /\ adm'[k][i] = adm[k][i]
      BY <1>2
    <3> QED BY <3>4, <3>5, <1>1, <1>4
  <2>2. CASE r = Burst /\ t = now[p]
    <3>1. Window * 1 + (r - Window) >= Limit * (Window + (t - now[p]))
      <4>1. t >= now[p] /\ r = Limit * Window
        BY <2>2, <1>3
      <4> QED BY <4>1, <2>2, <1>3, AccountOpened
    <3>2. n + 1 \in 1..(n + 1) /\ n - (n + 1) + 1 + 1 = 1
      BY <1>2
    <3> QED BY <3>1, <3>2, <1>1, <1>2, <1>4
  <2> QED BY <2>1, <2>2
<1>6. ASSUME NEW c \in known', c # k
      PROVE  \E i \in 1..Len(adm'[c]) : Given(c, i)' + tokens'[c] >= Allowed(c, i)'
  <2>1. c \in known /\ c \in Key \ {k}
    BY <1>6 DEF RateTypeOK
  <2>2. PICK i \in 1..Len(adm[c]) : Given(c, i) + tokens[c] >= Allowed(c, i)
    BY <2>1 DEF Used
  <2>3. Given(c, i)' = Given(c, i) /\ Allowed(c, i)' = Allowed(c, i)
    BY <2>1, <1>1 DEF Given, Allowed
  <2> QED BY <2>1, <2>2, <2>3, <1>1
<1>7. \A c \in known' : \E i \in 1..Len(adm'[c]) : Given(c, i)' + tokens'[c] >= Allowed(c, i)'
  BY <1>2, <1>5, <1>6
<1> QED BY <1>7 DEF Used

\* A refused request changes neither what was given nor the balance.
LEMMA RefuseAccounts ==
  ASSUME RateTypeOK, Bound, Used, NEW p \in Proc, NEW k \in Key, Refuse(p, k)
  PROVE  Bound' /\ Used'
<1> DEFINE r == Refilled(p, k)
           t == Stamp(p, k)
<1>1. /\ adm' = adm /\ known' = known
      /\ \A j \in Key \ {k} : tokens'[j] = tokens[j] /\ last'[j] = last[j]
      /\ tokens'[k] = r /\ last'[k] = t
      /\ r < Window
  BY DEF Refuse, RateTypeOK
<1>2. /\ r <= tokens[k] + Limit * (t - last[k])
      /\ r = tokens[k] + Limit * (t - last[k]) \/ r = Burst
      /\ r \in 0..Burst /\ t \in 0..clock
  BY RefillIsSound
<1> HIDE DEF r, t
<1>3. /\ Limit \in Nat /\ Window \in Nat /\ last[k] \in Int /\ t \in Int
      /\ tokens[k] \in Int /\ r \in Int /\ clock \in Nat
  BY RateAssumption, BurstHoldsOne, <1>2 DEF RateTypeOK
<1>4. r = tokens[k] + Limit * (t - last[k])
  BY <1>1, <1>2, <1>3, BurstHoldsOne
<1>5. \A i \in 1..Len(adm[k]) : /\ Given(k, i)' = Given(k, i)
                                /\ Allowed(k, i)' = Limit * (Window + (t - adm[k][i].asked))
  BY <1>1 DEF Given, Allowed
<1>6. ASSUME NEW i \in 1..Len(adm[k])
      PROVE  /\ Given(k, i) + tokens[k] <= Allowed(k, i) => Given(k, i)' + r <= Allowed(k, i)'
             /\ Given(k, i) + tokens[k] >= Allowed(k, i) => Given(k, i)' + r >= Allowed(k, i)'
  <2>1. Len(adm[k]) - i + 1 \in Int /\ adm[k][i].asked \in Int
    BY HistoryTyped
  <2>2. /\ Window * (Len(adm[k]) - i + 1) + tokens[k] <= Limit * (Window + (last[k] - adm[k][i].asked))
           => Window * (Len(adm[k]) - i + 1) + r <= Limit * (Window + (t - adm[k][i].asked))
        /\ Window * (Len(adm[k]) - i + 1) + tokens[k] >= Limit * (Window + (last[k] - adm[k][i].asked))
           => Window * (Len(adm[k]) - i + 1) + r >= Limit * (Window + (t - adm[k][i].asked))
    <3> DEFINE m == Len(adm[k]) - i + 1
               a == adm[k][i].asked
    <3>1. m \in Int /\ a \in Int
      BY <2>1
    <3> HIDE DEF m, a
    <3>2. /\ Window * m + tokens[k] <= Limit * (Window + (last[k] - a))
             => Window * m + r <= Limit * (Window + (t - a))
          /\ Window * m + tokens[k] >= Limit * (Window + (last[k] - a))
             => Window * m + r >= Limit * (Window + (t - a))
      <4>1. r >= tokens[k] + Limit * (t - last[k])
        BY <1>3, <1>4
      <4> QED BY <4>1, <3>1, <1>2, <1>3, AccountKept, AccountKeptBelow
    <3> QED BY <3>2 DEF m, a
  <2> QED BY <2>2, <1>5 DEF Given, Allowed
<1>7. ASSUME NEW c \in Key, c # k, NEW i \in 1..Len(adm[c])
      PROVE  /\ Given(c, i)' = Given(c, i) /\ Allowed(c, i)' = Allowed(c, i)
             /\ tokens'[c] = tokens[c]
  BY <1>1, <1>7 DEF Given, Allowed
<1>8. ASSUME NEW c \in Key, NEW i \in 1..Len(adm'[c])
      PROVE  Given(c, i)' + tokens'[c] <= Allowed(c, i)'
  BY <1>1, <1>6, <1>7 DEF Bound
<1>9. ASSUME NEW c \in known'
      PROVE  \E i \in 1..Len(adm'[c]) : Given(c, i)' + tokens'[c] >= Allowed(c, i)'
  <2>1. c \in known /\ c \in Key
    BY <1>1 DEF RateTypeOK
  <2>2. PICK i \in 1..Len(adm[c]) : Given(c, i) + tokens[c] >= Allowed(c, i)
    BY <2>1 DEF Used
  <2> QED BY <2>1, <2>2, <1>1, <1>6, <1>7
<1>10. Bound'
  BY <1>8 DEF Bound
<1>11. Used'
  BY <1>9 DEF Used
<1> QED BY <1>10, <1>11

----------------------------------------------------------------------------
\* No bucket, no history.
LEMMA InvInit == Init => RateInv
<1> SUFFICES ASSUME Init PROVE RateInv
  OBVIOUS
<1>1. \A k \in Key : adm[k] = <<>> /\ 1..Len(adm[k]) = {} /\ DOMAIN adm[k] = {}
  <2>1. \A k \in Key : adm[k] = <<>>
    BY DEF Init
  <2>2. 1..Len(<< >>) = {} /\ DOMAIN << >> = {}
    OBVIOUS
  <2> QED BY <2>1, <2>2
<1>2. known = {}
  BY DEF Init
<1> QED BY <1>1, <1>2, TypeInit DEF RateInv, Bound, Used, Unknown, RateBounded

\* Every step keeps the accounts: requests that are let through by the Admit
\* lemmas, refusals by RefuseAccounts; the others touch no bucket.
LEMMA InvStep ==
  ASSUME RateInv, [Next]_vars
  PROVE  RateInv'
<1> USE DEF RateInv
<1>1. RateTypeOK'
  BY TypeStep
<1>2. CASE UNCHANGED <<known, tokens, last, adm>>
  <2>1. Bound' /\ Used' /\ Unknown'
    BY <1>2 DEF Bound, Used, Unknown, Given, Allowed
  <2>2. RateBounded'
    BY <1>2 DEF RateBounded, OverLimit
  <2> QED BY <1>1, <2>1, <2>2
<1>3. ASSUME NEW p \in Proc, NEW k \in Key, AllowNew(p, k)
      PROVE  RateInv'
  <2>1. /\ Burst \in 0..Burst /\ now[p] \in 0..clock /\ now[p] \in Int
        /\ now[p] >= now[p] /\ ~ (Len(adm[k]) > 0)
    BY BurstHoldsOne, <1>3 DEF AllowNew, RateTypeOK, Unknown
  <2>2. /\ known' = known \cup {k} /\ Admit(p, k)
        /\ tokens' = [tokens EXCEPT ![k] = Burst - Window]
        /\ last' = [last EXCEPT ![k] = now[p]]
    BY <1>3 DEF AllowNew
  <2>3. Bound'
    BY <2>1, <2>2, <1>1, AdmitAccounts, Zenon
  <2>4. Used'
    BY <2>1, <2>2, AdmitUsed
  <2>5. Unknown'
    BY <2>2 DEF Unknown, Admit, RateTypeOK
  <2>6. RateBounded'
    BY <2>2, <2>3, <1>1, AdmitBounded
  <2> QED BY <1>1, <2>3, <2>4, <2>5, <2>6
<1>4. ASSUME NEW p \in Proc, NEW k \in Key, Allow(p, k)
      PROVE  RateInv'
  <2> DEFINE r == Refilled(p, k)
             t == Stamp(p, k)
  <2>1. /\ r \in 0..Burst /\ t \in 0..clock /\ t >= now[p]
        /\ r <= tokens[k] + Limit * (t - last[k])
        /\ r = tokens[k] + Limit * (t - last[k]) \/ (r = Burst /\ t = now[p])
    BY RefillIsSound
  <2>2. /\ known' = known \cup {k} /\ k \in known /\ Admit(p, k)
        /\ tokens' = [tokens EXCEPT ![k] = r - Window]
        /\ last' = [last EXCEPT ![k] = t]
    BY <1>4 DEF Allow
  <2> HIDE DEF r, t
  <2>3. Bound'
    BY <2>1, <2>2, <1>1, AdmitAccounts
  <2>4. Used'
    BY <2>1, <2>2, AdmitUsed
  <2>5. Unknown'
    BY <2>2 DEF Unknown, Admit, RateTypeOK
  <2>6. RateBounded'
    BY <2>2, <2>3, <1>1, AdmitBounded
  <2> QED BY <1>1, <2>3, <2>4, <2>5, <2>6
<1>5. ASSUME NEW p \in Proc, NEW k \in Key, Refuse(p, k)
      PROVE  RateInv'
  <2>1. Bound' /\ Used'
    BY <1>5, RefuseAccounts
  <2>2. Unknown' /\ RateBounded'
    BY <1>5 DEF Refuse, Unknown, RateBounded, OverLimit
  <2> QED BY <1>1, <2>1, <2>2
<1>6. CASE Tick
  BY <1>2, <1>6 DEF Tick
<1>7. ASSUME NEW p \in Proc, NEW k \in Key, Ask(p, k)
      PROVE  RateInv'
  BY <1>2, <1>7 DEF Ask
<1>8. CASE UNCHANGED vars
  BY <1>2, <1>8 DEF vars
<1> QED BY <1>3, <1>4, <1>5, <1>6, <1>7, <1>8 DEF Next

\* The account of every bucket balances, always.
THEOREM RateInvHolds == Spec => []RateInv
<1>1. Init => RateInv
  BY InvInit
<1>2. RateInv /\ [Next]_vars => RateInv'
  BY InvStep
<1> QED BY <1>1, <1>2, PTL DEF Spec

\* For every limit and window, and however requests overtake each other: no
\* client gets more through than a burst and the rate (rateLimiter.allow).
THEOREM RateIsBounded == Spec => []RateBounded
<1>1. RateInv => RateBounded
  BY DEF RateInv
<1> QED BY <1>1, RateInvHolds, PTL

\* Buckets hold between nothing and the burst (rateLimiter.allow).
THEOREM RateTypesHold == Spec => []RateTypeOK
<1>1. RateInv => RateTypeOK
  BY DEF RateInv
<1> QED BY <1>1, RateInvHolds, PTL

\* What a refusal step shows of the client's bucket.
LEMMA RefusalJustified ==
  ASSUME RateInv, RateInv', NEW p \in Proc, NEW k \in Key, Refuse(p, k)
  PROVE  \E i \in DOMAIN adm[k] : OverLimit(Len(adm[k]) - i + 2, adm[k][i].asked, now[p])
<1>1. RateTypeOK /\ Used'
  BY DEF RateInv
<1>2. /\ adm' = adm /\ known' = known /\ k \in known
      /\ tokens'[k] = Refilled(p, k) /\ last'[k] = Stamp(p, k) /\ Refilled(p, k) < Window
  BY <1>1 DEF Refuse, RateTypeOK
<1>3. Refilled(p, k) \in 0..Burst /\ Stamp(p, k) \in 0..clock /\ Stamp(p, k) >= now[p]
  BY ONLY <1>1, RefillIsSound
<1>4. PICK i \in 1..Len(adm[k]) : Given(k, i)' + tokens'[k] >= Allowed(k, i)'
  BY <1>1, <1>2 DEF Used
<1> DEFINE a == adm[k][i].asked
           m == Len(adm[k]) - i + 1
           r == Refilled(p, k)
           t == Stamp(p, k)
<1>5. Window * m + r >= Limit * (Window + (t - a))
  BY <1>2, <1>4 DEF Given, Allowed
<1>6. /\ i \in DOMAIN adm[k] /\ a \in Int /\ m \in Int
      /\ clock \in Nat /\ Len(adm[k]) - i + 2 = m + 1
  BY <1>1, HistoryTyped
<1>7. /\ Limit \in Nat /\ Window \in Nat /\ now[p] \in Int /\ r \in Int /\ t \in Int
      /\ now[p] <= t /\ r < Window
  BY <1>1, <1>2, <1>3, <1>6, RateAssumption, BurstHoldsOne DEF RateTypeOK
<1> HIDE DEF a, m, r, t
<1>8. Limit * (Window + (now[p] - a)) <= Limit * (Window + (t - a))
  BY <1>6, <1>7, AllowedGrows
<1>9. Window * (m + 1) > Limit * (Window + (now[p] - a))
  <2>1. Window + (now[p] - a) \in Int /\ Window + (t - a) \in Int
    BY <1>6, <1>7
  <2>2. \A u, v \in Int : u * v \in Int
    BY SMT
  <2>3. Limit * (Window + (now[p] - a)) \in Int /\ Limit * (Window + (t - a)) \in Int
    BY <2>1, <2>2, <1>7
  <2> QED BY <2>3, <1>5, <1>6, <1>7, <1>8, StrictlyOver
<1> QED BY <1>6, <1>9 DEF OverLimit, a

\* Under any load, a request is refused only if the client has used up its burst
\* and its rate (rateLimiter.allow): the limiter loses no tokens.
THEOREM RefusalsAreJustified == Spec => RefusedOnlyOverLimit
<1> DEFINE Justified ==
      \A p \in Proc : pc[p] = "asked" /\ pc'[p] = "idle" /\ adm' = adm =>
        \E i \in DOMAIN adm[key[p]] :
          OverLimit(Len(adm[key[p]]) - i + 2, adm[key[p]][i].asked, now[p])
<1>1. ASSUME RateInv, RateInv', [Next]_vars
      PROVE  [Justified]_vars
  <2> SUFFICES ASSUME Next, NEW p \in Proc, pc[p] = "asked", pc'[p] = "idle", adm' = adm
               PROVE  \E i \in DOMAIN adm[key[p]] :
                        OverLimit(Len(adm[key[p]]) - i + 2, adm[key[p]][i].asked, now[p])
    BY <1>1
  <2>1. RateTypeOK
    BY <1>1 DEF RateInv
  <2>2. ~ Tick
    BY DEF Tick
  <2>3. ASSUME NEW q \in Proc, NEW k \in Key, Ask(q, k)
        PROVE  FALSE
    BY <2>1, <2>3 DEF Ask, RateTypeOK
  <2>4. ASSUME NEW q \in Proc, NEW k \in Key, Admit(q, k)
        PROVE  FALSE
    <3>1. /\ adm[k] \in Seq([asked : 0..clock, at : 0..clock])
          /\ adm'[k] = Append(adm[k], [asked |-> now[q], at |-> clock])
      BY <2>1, <2>4 DEF Admit, RateTypeOK
    <3>2. Len(adm'[k]) = Len(adm[k]) + 1 /\ Len(adm[k]) \in Nat
      BY <3>1
    <3> QED BY <3>2
  <2>5. PICK q \in Proc, k \in Key : Refuse(q, k)
    BY <2>2, <2>3, <2>4 DEF Next, AllowNew, Allow
  <2>6. q = p /\ key[p] = k
    BY <2>1, <2>5 DEF Refuse, RateTypeOK
  <2> QED BY <2>5, <2>6, <1>1, RefusalJustified
<1>2. RateInv /\ RateInv' /\ [Next]_vars => [Justified]_vars
  BY <1>1
<1> QED BY <1>2, RateInvHolds, PTL DEF Spec, RefusedOnlyOverLimit
============================================================================
