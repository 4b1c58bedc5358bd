---------------------------- MODULE GatewayEdge ----------------------------
(***************************************************************************)
(* A request on its way through apps/gateway: the rate limiter, whose      *)
(* fixed window is one counter per caller in the Redis that all replicas   *)
(* share, and the circuit breaker of the upstream service, one per         *)
(* process.  Modelled for one caller, one replica and one upstream; a      *)
(* request whose token is refused ends before all this.                    *)
(*                                                                         *)
(* A hit is two commands, and the key may expire, another request come or  *)
(* the process stop between them.  The breaker is opossum's, external: the *)
(* share of failures at which it opens is left open.                       *)
(***************************************************************************)
EXTENDS Integers

CONSTANTS
  Hits,        \* requests that may be under way at once
  Limit,       \* RATE_LIMIT_MAX
  MaxCount,    \* bound on the requests of one window
  MaxWindows   \* bound on the windows of one behaviour

EdgeBounds == Limit \in Nat \ {0} /\ MaxCount \in Nat /\ MaxWindows \in Nat

VARIABLES
  inward,     \* what each request does; the count and the window of its hit
  count,      \* the counter, 0 when the key is not there
  expires,    \* the key has an expiry
  window,     \* windows begun so far
  refusedIn,  \* windows in which a request was answered 429
  breaker,    \* the state of the upstream's breaker
  mayProbe    \* opossum's pendingClose: the next call is let through

limitVars == <<count, expires, window>>
breakerVars == <<breaker, mayProbe>>
vars == <<inward, limitVars, refusedIn, breakerVars>>

Away == [pc |-> "IDLE", count |-> 0, window |-> 0]

Init ==
  /\ inward = [r \in Hits |-> Away]
  /\ count = 0 /\ expires = FALSE /\ window = 0
  /\ refusedIn = {}
  /\ breaker = "CLOSED" /\ mayProbe = FALSE

-----------------------------------------------------------------------------
(* RateLimitGuard and RedisRateLimitStore.hit.                             *)

\* INCR creates a key that is not there, without an expiry.
Incr(r) ==
  /\ inward[r] = Away
  /\ count < MaxCount /\ (count = 0 => window < MaxWindows)
  /\ count' = count + 1
  /\ window' = IF count = 0 THEN window + 1 ELSE window
  /\ inward' = [inward EXCEPT ![r] =
       [pc |-> IF count' = 1 THEN "EXPIRE" ELSE "TTL", count |-> count', window |-> window']]
  /\ UNCHANGED <<expires, refusedIn, breakerVars>>

\* The guard's verdict on the count that INCR returned.
Decide(r) ==
  IF inward[r].count > Limit
  THEN /\ refusedIn' = refusedIn \cup {inward[r].window}
       /\ inward' = [inward EXCEPT ![r] = Away]
  ELSE /\ refusedIn' = refusedIn
       /\ inward' = [inward EXCEPT ![r].pc = "FORWARD"]

\* Mutant: nobody looks whether the key has an expiry.
TrustExpiry(r) ==
  /\ inward[r].pc = "TTL"
  /\ Decide(r)
  /\ UNCHANGED <<limitVars, breakerVars>>

\* No expiry, because the first request stopped halfway: give the key one.
Ttl(r) ==
  /\ inward[r].pc = "TTL"
  /\ IF count > 0 /\ expires
     THEN Decide(r)
     ELSE inward' = [inward EXCEPT ![r].pc = "EXPIRE"] /\ UNCHANGED refusedIn
  /\ UNCHANGED <<limitVars, breakerVars>>

\* EXPIRE does nothing for a key that is gone.
Expire(r) ==
  /\ inward[r].pc = "EXPIRE"
  /\ expires' = (count > 0)
  /\ Decide(r)
  /\ UNCHANGED <<count, window, breakerVars>>

WindowEnds ==
  /\ expires
  /\ count' = 0 /\ expires' = FALSE
  /\ UNCHANGED <<inward, window, refusedIn, breakerVars>>

\* Redis fails: the request passes.
FailOpen(r) ==
  /\ inward[r] = Away \/ inward[r].pc \in {"TTL", "EXPIRE"}
  /\ inward' = [inward EXCEPT ![r].pc = "FORWARD"]
  /\ UNCHANGED <<limitVars, refusedIn, breakerVars>>

-----------------------------------------------------------------------------
(* HttpForwarder and the breaker.                                          *)

\* An open breaker answers 503 at once, a half-open one lets one call through.
Fire(r) ==
  /\ inward[r].pc = "FORWARD"
  /\ IF breaker = "CLOSED" \/ mayProbe
     THEN inward' = [inward EXCEPT ![r].pc = "CALLING"] /\ mayProbe' = FALSE
     ELSE inward' = [inward EXCEPT ![r] = Away] /\ UNCHANGED mayProbe
  /\ UNCHANGED <<limitVars, refusedIn, breaker>>

\* Any answer of the upstream counts, an error status too.
Succeed(r) ==
  /\ inward[r].pc = "CALLING"
  /\ inward' = [inward EXCEPT ![r] = Away]
  /\ breaker' = IF breaker = "HALF_OPEN" THEN "CLOSED" ELSE breaker
  /\ mayProbe' = FALSE
  /\ UNCHANGED <<limitVars, refusedIn>>

\* 502, or 504 when FORWARD_TIMEOUT_MS has passed.
FailCall(r) ==
  /\ inward[r].pc = "CALLING"
  /\ inward' = [inward EXCEPT ![r] = Away]
  /\ \/ breaker \in {"CLOSED", "HALF_OPEN"} /\ breaker' = "OPEN" /\ mayProbe' = FALSE
     \/ breaker \in {"CLOSED", "OPEN"} /\ UNCHANGED breakerVars
  /\ UNCHANGED <<limitVars, refusedIn>>

ResetTimeout ==
  /\ breaker = "OPEN"
  /\ breaker' = "HALF_OPEN" /\ mayProbe' = TRUE
  /\ UNCHANGED <<inward, limitVars, refusedIn>>

\* The process stops and starts: Redis keeps what was written.
StopGateway ==
  /\ inward' = [r \in Hits |-> Away]
  /\ breaker' = "CLOSED" /\ mayProbe' = FALSE
  /\ UNCHANGED <<limitVars, refusedIn>>

-----------------------------------------------------------------------------
Handle(r) ==
  \/ Incr(r) \/ Ttl(r) \/ Expire(r) \/ FailOpen(r)
  \/ Fire(r) \/ Succeed(r) \/ FailCall(r)

Next == (\E r \in Hits : Handle(r)) \/ WindowEnds \/ ResetTimeout \/ StopGateway

Spec == Init /\ [][Next]_vars

-----------------------------------------------------------------------------
(* The state is what the declarations say.                                 *)
TypeOK ==
  /\ inward \in [Hits -> [pc : {"IDLE", "TTL", "EXPIRE", "FORWARD", "CALLING"},
                          count : 0..MaxCount, window : 0..MaxWindows]]
  /\ count \in 0..MaxCount
  /\ expires \in BOOLEAN
  /\ window \in 0..MaxWindows
  /\ refusedIn \in SUBSET (1..MaxWindows)
  /\ breaker \in {"CLOSED", "OPEN", "HALF_OPEN"}
  /\ mayProbe \in BOOLEAN

\* Whatever turns callers away comes to an end: a window in which a request
\* was refused has an expiry as long as it lasts, though the request that
\* opened it may have stopped before setting one, and a half-open breaker
\* either lets the next call through or waits for one under way.
EdgeRecovers ==
  /\ count > 0 /\ window \in refusedIn => expires
  /\ breaker = "HALF_OPEN" /\ ~mayProbe => \E r \in Hits : inward[r].pc = "CALLING"

=============================================================================
