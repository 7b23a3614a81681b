---------------------------- MODULE RateLimiter ----------------------------
(***************************************************************************)
(* The token buckets of internal/api/middleware.go, one per client         *)
(* address, used by the handlers of concurrent HTTP requests.  allow reads *)
(* the clock before it takes the mutex, so that requests are decided in    *)
(* another order than that of their time stamps.                           *)
(*                                                                         *)
(* Time is counted in ticks and tokens in units of 1/Window of a token, so *)
(* that the refill of a tick, Limit/Window tokens, is the integer Limit:   *)
(* the code's floating point is taken to be exact.                         *)
(***************************************************************************)
EXTENDS Integers, Sequences

CONSTANTS
  Key,       \* client addresses
  Proc,      \* requests in flight
  Limit,     \* requests per window, and the burst (newRateLimiter)
  Window,    \* ticks in a window
  MaxClock   \* bound: ticks

\* A limit that is not positive gives no limiter, and every request passes.
ASSUME RateAssumption ==
  /\ Limit \in Nat \ {0} /\ Window \in Nat \ {0}
  /\ MaxClock \in Nat

VARIABLES
  clock,
  known, tokens, last,  \* rl.buckets: its keys, and their buckets
  pc, key, now,         \* the requests: where they are, the client, time.Now()
  adm                   \* history: by client, when each request that was let
                        \* through asked and when it was let through
vars == <<clock, known, tokens, last, pc, key, now, adm>>

Burst == Limit * Window

Init ==
  /\ clock = 0
  /\ known = {} /\ tokens = [k \in Key |-> 0] /\ last = [k \in Key |-> 0]
  /\ pc = [p \in Proc |-> "idle"] /\ now = [p \in Proc |-> 0]
  /\ key \in [Proc -> Key]
  /\ adm = [k \in Key |-> <<>>]

Tick ==
  /\ clock < MaxClock
  /\ clock' = clock + 1
  /\ UNCHANGED <<known, tokens, last, pc, key, now, adm>>

\* A request of client k arrives: getClientIP, and the clock is read.
Ask(p, k) ==
  /\ pc[p] = "idle"
  /\ pc' = [pc EXCEPT ![p] = "asked"]
  /\ key' = [key EXCEPT ![p] = k]
  /\ now' = [now EXCEPT ![p] = clock]
  /\ UNCHANGED <<clock, known, tokens, last, adm>>

\* allow returns true, and the next handler runs.
Admit(p, k) ==
  /\ pc' = [pc EXCEPT ![p] = "idle"]
  /\ adm' = [adm EXCEPT ![k] = Append(@, [asked |-> now[p], at |-> clock])]
  /\ UNCHANGED <<clock, key, now>>

----------------------------------------------------------------------------
(* allow, from the lock on.                                                *)

\* The first request of a client makes its bucket.
AllowNew(p, k) ==
  /\ pc[p] = "asked" /\ key[p] = k
  /\ k \notin known
  /\ known' = known \cup {k}
  /\ tokens' = [tokens EXCEPT ![k] = Burst - Window]
  /\ last' = [last EXCEPT ![k] = now[p]]
  /\ Admit(p, k)

\* The tokens of the bucket at the time of the request.
Refilled(p, k) ==
  LET more == tokens[k] + Limit * (now[p] - last[k]) IN
  IF now[p] <= last[k] THEN tokens[k]
  ELSE IF more > Burst THEN Burst ELSE more

\* Mutant of Stamp: the time stamp is set although it is not later.
StampAlways(p, k) == now[p]

\* The bucket's time after the refill.
Stamp(p, k) == IF now[p] > last[k] THEN now[p] ELSE last[k]

Allow(p, k) ==
  /\ pc[p] = "asked" /\ key[p] = k
  /\ k \in known
  /\ Refilled(p, k) >= Window
  /\ tokens' = [tokens EXCEPT ![k] = Refilled(p, k) - Window]
  /\ last' = [last EXCEPT ![k] = Stamp(p, k)]
  /\ Admit(p, k)
  /\ UNCHANGED known

\* Mutant of Refuse: a refused request costs a token too.
RefuseCharges(p, k) ==
  /\ pc[p] = "asked" /\ key[p] = k
  /\ k \in known
  /\ Refilled(p, k) < Window
  /\ tokens' = [tokens EXCEPT ![k] = Refilled(p, k) - Window]
  /\ last' = [last EXCEPT ![k] = Stamp(p, k)]
  /\ pc' = [pc EXCEPT ![p] = "idle"]
  /\ UNCHANGED <<clock, known, key, now, adm>>

\* Mutant of Refuse: the refill is not written back, the time stamp is.
RefuseLosesRefill(p, k) ==
  /\ pc[p] = "asked" /\ key[p] = k
  /\ k \in known
  /\ Refilled(p, k) < Window
  /\ last' = [last EXCEPT ![k] = Stamp(p, k)]
  /\ pc' = [pc EXCEPT ![p] = "idle"]
  /\ UNCHANGED <<clock, known, tokens, key, now, adm>>

\* allow returns false, and the client gets 429.
Refuse(p, k) ==
  /\ pc[p] = "asked" /\ key[p] = k
  /\ k \in known
  /\ Refilled(p, k) < Window
  /\ tokens' = [tokens EXCEPT ![k] = Refilled(p, k)]
  /\ last' = [last EXCEPT ![k] = Stamp(p, k)]
  /\ pc' = [pc EXCEPT ![p] = "idle"]
  /\ UNCHANGED <<clock, known, key, now, adm>>

Next ==
  \/ Tick
  \/ \E p \in Proc, k \in Key : Ask(p, k) \/ AllowNew(p, k) \/ Allow(p, k) \/ Refuse(p, k)

Spec == Init /\ [][Next]_vars

----------------------------------------------------------------------------
\* Buckets never hold more than the burst or less than nothing.
RateTypeOK ==
  /\ clock \in 0..MaxClock
  /\ known \subseteq Key
  /\ tokens \in [Key -> 0..Burst] /\ last \in [Key -> 0..clock]
  /\ pc \in [Proc -> {"idle", "asked"}]
  /\ key \in [Proc -> Key] /\ now \in [Proc -> 0..clock]
  /\ adm \in [Key -> Seq([asked : 0..clock, at : 0..clock])]

\* n requests, of which the first asked at time a and the last was let through
\* at time b, are more than the limit allows: a burst, and the rate from a to b.
OverLimit(n, a, b) == Window * n > Limit * (Window + (b - a))

\* allow holds every client to the burst and the rate, between any two requests
\* that it let through, in whatever order concurrent requests get the mutex.
\* (Measured from when the first of them asked: a request that waited for the
\* mutex was counted for the time at which it asked.)
RateBounded ==
  \A k \in Key : \A j \in DOMAIN adm[k] : \A i \in 1..j :
    ~ OverLimit(j - i + 1, adm[k][i].asked, adm[k][j].at)

\* allow turns a request away only if it would have been over the limit,
\* counted from some request of the same client: no refusal, late time stamp or
\* other client costs a client anything.
RefusedOnlyOverLimit ==
  [][\A p \in Proc : pc[p] = "asked" /\ pc'[p] = "idle" /\ adm' = adm =>
       \E i \in DOMAIN adm[key[p]] :
         OverLimit(Len(adm[key[p]]) - i + 2, adm[key[p]][i].asked, now[p])]_vars
============================================================================
