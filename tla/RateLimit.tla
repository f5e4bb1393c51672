------------------------------ MODULE RateLimit ------------------------------
(***************************************************************************)
(* enforce_rate_limit (backend/app/services/rate_limit.py): a counter in    *)
(* Redis per bucket, address and e-mail.  INCR and TTL are one MULTI; the   *)
(* EXPIRE that starts the window is a command of its own, sent by whoever   *)
(* finds the counter without a time to live.                                *)
(*                                                                          *)
(*   call: idle -> incr -> (expire) -> idle                                 *)
(***************************************************************************)
EXTENDS Integers, Functions

CONSTANTS
    Calls,         \* requests that may be in flight at once
    Limit, Window, \* the limit per window, and its seconds
    MaxCrashes     \* how often the worker may die during a call

ASSUME LimitAssumption == Limit \in Nat \ {0} /\ Window \in Nat \ {0} /\ MaxCrashes \in Nat

VARIABLES
    call,          \* where each request is
    count, ttl,    \* the counter; 0 when there is none, and its TTL
    crashes,       \* worker crashes so far
    recent         \* history: calls admitted 0, 1, ... Window - 1 seconds ago

limiter == <<call, count, ttl, crashes, recent>>

NoTtl == -1

RateInit ==
    /\ call = [c \in Calls |-> "idle"]
    /\ count = 0 /\ ttl = 0 /\ crashes = 0
    /\ recent = [age \in 0 .. Window - 1 |-> 0]

Enforce(c) ==
    /\ call[c] = "idle"
    /\ call' = [call EXCEPT ![c] = "incr"]
    /\ UNCHANGED <<count, ttl, crashes, recent>>

\* Wrong on purpose: one call too many.
OverByOne(n) == n > Limit + 1
Over(n) == n > Limit

\* The usual form; wrong here: only the call that made the counter sends EXPIRE.
NeedsExpireFirst(n, left) == n = 1
NeedsExpire(n, left) == left < 0

\* INCR makes a counter without a TTL.  Its value decides the answer: 429 beyond the limit,
\* where it makes no further difference, and the handler below it.
Increment(c) ==
    LET n == count + 1
        left == IF count = 0 THEN NoTtl ELSE ttl
    IN  /\ call[c] = "incr"
        /\ count' = IF n > Limit + 2 THEN count ELSE n
        /\ ttl' = left
        /\ recent' = [recent EXCEPT ![0] = IF Over(n) THEN @ ELSE @ + 1]
        /\ call' = [call EXCEPT ![c] = IF NeedsExpire(n, left) THEN "expire" ELSE "idle"]
        /\ UNCHANGED crashes

\* Wrong on purpose: EXPIRE brings a counter back.
ExpireBlind(c) ==
    /\ call[c] = "expire"
    /\ ttl' = Window
    /\ call' = [call EXCEPT ![c] = "idle"]
    /\ UNCHANGED <<count, crashes, recent>>

\* EXPIRE of a counter that is gone does nothing.
Expire(c) ==
    /\ call[c] = "expire"
    /\ ttl' = IF count = 0 THEN 0 ELSE Window
    /\ call' = [call EXCEPT ![c] = "idle"]
    /\ UNCHANGED <<count, crashes, recent>>

CrashCall(c) ==
    /\ call[c] # "idle" /\ crashes < MaxCrashes
    /\ crashes' = crashes + 1
    /\ call' = [call EXCEPT ![c] = "idle"]
    /\ UNCHANGED <<count, ttl, recent>>

\* A second passes; Redis deletes a counter whose time is up.
RateSecond ==
    /\ ttl' = IF ttl > 0 THEN ttl - 1 ELSE ttl
    /\ count' = IF ttl = 1 THEN 0 ELSE count
    /\ recent' = [age \in DOMAIN recent |-> IF age = 0 THEN 0 ELSE recent[age - 1]]
    /\ UNCHANGED <<call, crashes>>

LimiterStep(c) == Increment(c) \/ Expire(c)

-----------------------------------------------------------------------------

RateTypeOK ==
    /\ call \in [Calls -> {"idle", "incr", "expire"}]
    /\ count \in 0 .. Limit + 2 /\ ttl \in NoTtl .. Window
    /\ count = 0 <=> ttl = 0
    /\ crashes \in 0 .. MaxCrashes
    /\ recent \in [0 .. Window - 1 -> Nat]

\* Fixed windows: any Window seconds in a row touch two lives of the counter at most, so
\* twice the limit gets through, never more, although the window starts only with the
\* EXPIRE, which may come late, twice, or from a call of the counter's previous life.
TwiceTheLimitAtMost ==
    SumFunction(recent) <= 2 * Limit

\* A customer who was locked out gets in again: if requests keep coming, a counter beyond
\* the limit disappears, also when a worker died between INCR and EXPIRE and left it without
\* a time to live, and although refused calls count too.
LockoutEnds ==
    ([]<>(\E c \in Calls : call[c] = "incr")) => (Over(count) ~> count = 0)
=============================================================================
