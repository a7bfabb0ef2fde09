----------------------------- MODULE StateStore -----------------------------
(***************************************************************************)
(* The rate-limit half of core.StateStore: what one call does to the value *)
(* of one key, for the memory store (pkg/store/memory.go) and for the      *)
(* Redis store (pkg/store/lua).  Each operation is atomic: the memory      *)
(* store holds the entry's mutex, Redis runs a script.                     *)
(*                                                                         *)
(* Time is a natural number.  Bucket levels are kept as multiples of       *)
(* 1/window, so that refilling `rate' tokens per window is exact.          *)
(***************************************************************************)
EXTENDS Integers

VARIABLE scene     \* the deployment and the workload, chosen once

Backend == scene.backend   \* "memory" or "redis"

Never == -1        \* the zero time.Time

AtLeast(x, y) == IF x < y THEN y ELSE x

AtMost(x, y) == IF x > y THEN y ELSE x

(***************************************************************************)
(* Fixed windows.  In Redis resetAt is when the key expires.               *)
(***************************************************************************)
Counter == [on : BOOLEAN, count : Int, window : Nat, resetAt : Int]

NoCounter == [on |-> FALSE, count |-> 0, window |-> 0, resetAt |-> Never]

CounterLive(c, now) == c.on /\ (Backend = "redis" => now < c.resetAt)

MemoryIncr(c, tokens, window, now) ==
    LET w == IF c.on THEN c.window ELSE window
        over == c.resetAt = Never \/ now > c.resetAt
    IN  [on |-> TRUE, count |-> tokens + IF over THEN 0 ELSE c.count,
         window |-> w, resetAt |-> IF over THEN now + w ELSE c.resetAt]

RedisIncr(c, tokens, window, now) ==
    IF CounterLive(c, now) THEN [c EXCEPT !.count = @ + tokens]
    ELSE [on |-> TRUE, count |-> tokens, window |-> window, resetAt |-> now + window]

RateLimitIncr(c, tokens, window, now) ==
    IF Backend = "memory" THEN MemoryIncr(c, tokens, window, now)
    ELSE RedisIncr(c, tokens, window, now)

\* The memory store creates a missing entry, with a window of zero; Redis
\* leaves a missing key alone.
RateLimitRefund(c, tokens, now) ==
    IF Backend = "memory" \/ CounterLive(c, now)
    THEN [c EXCEPT !.on = TRUE, !.count = AtLeast(@ - tokens, 0)]
    ELSE c

(***************************************************************************)
(* Token buckets.  expireAt and settlement exist only in Redis.            *)
(***************************************************************************)
Bucket == [on : BOOLEAN, level : Int, last : Nat, expireAt : Int, settlement : BOOLEAN]

NoBucket == [on |-> FALSE, level |-> 0, last |-> 0, expireAt |-> Never, settlement |-> FALSE]

BucketLive(b, now) ==
    b.on /\ (Backend = "redis" /\ b.expireAt # Never => now < b.expireAt)

\* The level now, refilled since the last update; a missing bucket is full.
Refilled(b, rate, capacity, window, now) ==
    IF ~BucketLive(b, now) THEN capacity * window
    ELSE AtMost(b.level + AtLeast(now - b.last, 0) * rate, capacity * window)

CeilDiv(x, y) == (x + y - 1) \div y

\* rate_limit_take.lua: when the key expires after consuming.
ExpireAt(b, level, rate, capacity, window, now, debtAware) ==
    IF ~debtAware THEN now + 2 * window
    ELSE IF rate > 0 THEN now + AtLeast(2 * window, CeilDiv(capacity * window - level, rate))
    ELSE Never

\* Take (adjustment = FALSE) and Adjust (adjustment = TRUE).
apply(b, requested, rate, capacity, window, now, adjustment) ==
    LET level == Refilled(b, rate, capacity, window, now)
        allowed == adjustment \/ requested < 0 \/ level >= requested * window
        left == IF allowed THEN AtMost(level - requested * window, capacity * window) ELSE level
        debtAware == adjustment \/ (BucketLive(b, now) /\ b.settlement)
        at == IF BucketLive(b, now) THEN AtLeast(b.last, now) ELSE now
    IN  [allowed |-> allowed,
         bucket  |->
            CASE Backend = "memory" ->
                   [on |-> TRUE, level |-> left, last |-> at, expireAt |-> Never,
                    settlement |-> FALSE]
              [] Backend = "redis" /\ ~BucketLive(b, now) /\ requested < 0 -> NoBucket
              [] Backend = "redis" /\ ~allowed -> b
              [] OTHER ->
                   [on |-> TRUE, level |-> left, last |-> at, settlement |-> debtAware,
                    expireAt |-> IF requested > 0
                                 THEN ExpireAt(b, left, rate, capacity, window, now, debtAware)
                                 ELSE IF BucketLive(b, now) THEN b.expireAt ELSE Never]]
=============================================================================
