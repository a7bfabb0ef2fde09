----------------------------- MODULE ConfigSync -----------------------------
(***************************************************************************)
(* How a gateway instance hears of what the Admin console changed.         *)
(*   redis backend  the Admin writes Redis and publishes on a channel; the *)
(*     gateway's subscription (internal/bootstrap/engine.go) purges caches *)
(*   http backend   a poller (pkg/config/http_poller.go) asks for the      *)
(*     configuration, the policies and the API keys in turn, each with the *)
(*     ETag of what it last applied                                        *)
(* A revision stands for an ETag.  What a kind of document is and what     *)
(* applying it does belong to the modules that extend this one; they are   *)
(* put together in ControlPlane.                                           *)
(***************************************************************************)
EXTENDS Integers, Sequences, FiniteSets

CONSTANTS
    Nil,          \* a nil pointer, an absent entry
    Actor,        \* requests, lookups and queries in flight
    MaxRetries    \* failed subscriptions in a row that are retried (code: 5)

VARIABLES
    scene,    \* chosen once: backend ("redis" or "http"), the parts in use, their inputs
              \* and the bounds maxFaults (calls to Redis or the Admin that fail),
              \* maxWrites (of the Admin), maxDeductions and actors (in flight)
    faults,   \* calls that failed so far
    writes,   \* writes of the Admin so far
    sub,      \* the subscription: [at, retries]
    inbox,    \* signals sent to the subscription and not yet handled
    rev,      \* [kind -> revision the Admin serves]
    poll      \* the poller: [at, kind, rev, body, etag]

syncVars == <<scene, faults, writes, sub, inbox, rev, poll>>

Redis == scene.backend = "redis"
Http  == scene.backend = "http"

Kinds == {"config", "policies", "keys"}

\* pollAll: the three polls run one after the other, then the ticker is awaited.
NextKind(kind) ==
    CASE kind = "config" -> "policies" [] kind = "policies" -> "keys" [] kind = "keys" -> "config"

SyncInit ==
    /\ faults = 0 /\ writes = 0
    /\ sub = [at |-> IF Redis THEN "connecting" ELSE "off", retries |-> 0]
    /\ inbox = {}
    /\ rev = [k \in Kinds |-> 1]
    /\ poll = [at |-> IF Http THEN "ask" ELSE "off", kind |-> "config", rev |-> 0, body |-> Nil,
               etag |-> [k \in Kinds |-> 0]]

\* One more call that fails.
Fault == faults < scene.maxFaults /\ faults' = faults + 1

(* ------------------------------ subscription ---------------------------- *)

\* What the Admin publishes reaches a subscription that listens, and is lost
\* otherwise: the channels keep nothing.
Published(channel) == IF sub.at = "listening" THEN inbox \cup {channel} ELSE inbox

\* A write of the Admin to the documents of a kind.
AdminWrites(kind, channel) ==
    /\ writes < scene.maxWrites /\ writes' = writes + 1
    /\ rev' = [rev EXCEPT ![kind] = @ + 1]
    /\ inbox' = IF Redis THEN Published(channel) ELSE inbox
    /\ UNCHANGED <<scene, faults, sub, poll>>

\* The first receive confirms the subscription and resets the retries.
Subscribe ==
    /\ sub.at = "connecting"
    /\ sub' = [at |-> "listening", retries |-> 0]
    /\ UNCHANGED <<scene, faults, writes, inbox, rev, poll>>

\* It fails: retried after a delay, MaxRetries times in a row, then for ever
\* left to the expiry of the caches.  A server that does not know the command
\* is not asked again.
SubscribeFails ==
    /\ sub.at = "connecting" /\ Fault
    /\ \/ sub' = [sub EXCEPT !.at = "gone"]
       \/ sub' = IF sub.retries + 1 > MaxRetries THEN [sub EXCEPT !.at = "gone"]
                 ELSE [sub EXCEPT !.retries = @ + 1]
    /\ UNCHANGED <<scene, writes, inbox, rev, poll>>

\* The connection is lost with what was on its way; it is restored by the client
\* library, or the channel is closed and subscribed to again.  Nothing is purged
\* when it comes back.
Disconnect ==
    /\ sub.at = "listening" /\ Fault
    /\ \E at \in {"cut", "connecting"} : sub' = [sub EXCEPT !.at = at]
    /\ inbox' = {}
    /\ UNCHANGED <<scene, writes, rev, poll>>

Reconnect ==
    /\ sub.at = "cut"
    /\ sub' = [sub EXCEPT !.at = "listening"]
    /\ UNCHANGED <<scene, faults, writes, inbox, rev, poll>>

\* The goroutine takes a signal from the channel.
Receive(channel) ==
    /\ sub.at = "listening" /\ channel \in inbox
    /\ inbox' = inbox \ {channel}
    /\ UNCHANGED <<scene, faults, writes, sub, rev, poll>>

(* --------------------------------- poller ------------------------------- *)

\* The next poll; its ETag stays as it is.
Onward == [poll EXCEPT !.at = "ask", !.kind = NextKind(poll.kind), !.body = Nil, !.rev = 0]

\* The Admin answers 304 to the ETag of what it serves, and the document
\* otherwise.
PollAnswered(document) ==
    /\ poll.at = "ask"
    /\ poll' = IF poll.etag[poll.kind] = rev[poll.kind] THEN Onward
               ELSE [poll EXCEPT !.at = "apply", !.rev = rev[poll.kind], !.body = document]
    /\ UNCHANGED <<scene, faults, writes, sub, inbox, rev>>

\* Mutant: the ETag of an answer is kept although the answer was not applied.
PollFailsKept ==
    /\ poll.at \in {"ask", "apply"} /\ Fault
    /\ poll' = [Onward EXCEPT !.etag[poll.kind] = IF poll.at = "apply" THEN poll.rev ELSE @]
    /\ UNCHANGED <<scene, writes, sub, inbox, rev>>

\* No answer, an unexpected status, a body that does not decode or does not
\* validate: the ETag is not touched and the document is asked for again in the
\* next round.
PollFails ==
    /\ poll.at \in {"ask", "apply"} /\ Fault
    /\ poll' = Onward
    /\ UNCHANGED <<scene, writes, sub, inbox, rev>>

\* The provider's copy is replaced (by the modules that extend this one); the
\* callback comes next.
PollApplied ==
    /\ poll.at = "apply"
    /\ poll' = [poll EXCEPT !.at = "notify"]
    /\ UNCHANGED <<scene, faults, writes, sub, inbox, rev>>

\* The callback has run: only now is the ETag kept.
PollNotified ==
    /\ poll.at = "notify"
    /\ poll' = [Onward EXCEPT !.etag[poll.kind] = poll.rev]
    /\ UNCHANGED <<scene, faults, writes, sub, inbox, rev>>

\* A document that does not validate is dropped.
PollRefused ==
    /\ poll.at = "apply"
    /\ poll' = Onward
    /\ UNCHANGED <<scene, faults, writes, sub, inbox, rev>>

\* The callback fails: the copy stays replaced, the ETag is not kept.
PollRejected ==
    /\ poll.at = "notify" /\ Fault
    /\ poll' = Onward
    /\ UNCHANGED <<scene, writes, sub, inbox, rev>>
=============================================================================
