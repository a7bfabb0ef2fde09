---------------------------- MODULE MCRateLimit ----------------------------
(***************************************************************************)
(* Small instances of RateLimit for TLC.                                   *)
(***************************************************************************)
EXTENDS RateLimit

RequestSymmetry == Permutations(Requests)

Fixed(len, threshold) == [len |-> len, threshold |-> threshold, capacity |-> 0]

Burst(len, threshold, capacity) == [len |-> len, threshold |-> threshold, capacity |-> capacity]

Limit(id, type, windows) ==
    [id |-> id, type |-> type, windows |-> windows, byModel |-> TRUE, wait |-> FALSE]

\* Two windows of tokens, the second the tighter one, then a cost budget that
\* waits; the first policy is listed twice (global and per-model policies may
\* repeat one).
TokenAndCost ==
    <<Limit(1, "token", <<Fixed(2, 5), Fixed(3, 4)>>),
      [Limit(2, "cost", <<Burst(2, 4, 6)>>) EXCEPT !.wait = TRUE],
      Limit(1, "token", <<Fixed(2, 5), Fixed(3, 4)>>)>>

\* A request count, a policy without windows, a token window and a cost bucket.
CountAndTokens ==
    <<Limit(1, "request", <<Fixed(2, 1)>>), Limit(3, "token", <<>>),
      Limit(2, "token", <<Fixed(2, 6)>>), Limit(4, "cost", <<Burst(2, 5, 10)>>)>>

\* Short windows, so that they start over and refill while requests run.
ShortTokensAndCost ==
    <<Limit(1, "token", <<Fixed(1, 4)>>), Limit(2, "cost", <<Burst(1, 3, 6)>>)>>

TokensOnly == <<Limit(1, "token", <<Fixed(2, 4)>>)>>

\* The default prices of the precharge are higher than those of the settlement.
Price1 == [in |-> 1, out |-> 1]

Price2 == [in |-> 1, out |-> 2]

Various == {[in |-> 1, out |-> 1], [in |-> 1, out |-> 3]}

More == {[in |-> 1, out |-> 3]}

AsEstimated == {[in |-> 1, out |-> 2], [in |-> 2, out |-> 2]}

\* Three tracked requests race for the windows of the memory store.
Racing ==
    [backend |-> "memory", requests |-> 3, models |-> {"m1"}, policies |-> TokenAndCost,
     tracked |-> TRUE, image |-> FALSE, usages |-> More, mayFail |-> TRUE, maxClock |-> 0,
     maxTries |-> 1, maxFaults |-> 0]

\* Redis, with windows that end while requests run.
Expiring ==
    [Racing EXCEPT !.backend = "redis", !.requests = 2, !.policies = ShortTokensAndCost,
                   !.usages = Various, !.maxClock = 2]

\* Redis and the credit service fail.
Failing == [Racing EXCEPT !.backend = "redis", !.requests = 2, !.usages = Various, !.maxFaults = 2]

\* Requests that are not tracked, with averages that move.
Untracked ==
    [Racing EXCEPT !.requests = 2, !.policies = CountAndTokens, !.tracked = FALSE,
                   !.usages = Various, !.maxClock = 2, !.maxTries = 0]

Images == [Untracked EXCEPT !.image = TRUE]

MCScenes == {Racing, Expiring, Failing, Untracked, Images}

\* A call may end on another model than it began with.
FallenBack ==
    {[Untracked EXCEPT !.models = {"m1", "m2"}, !.policies = TokensOnly, !.usages = AsEstimated,
                       !.mayFail = FALSE, !.maxClock = 0]}
=============================================================================
