------------------------------ MODULE ApiKeys ------------------------------
(***************************************************************************)
(* One API key as the gateway sees it: the record kept by the Admin, the   *)
(* copy of the HTTP provider, the service's two caches                     *)
(* (internal/service/apikey.go) and the requests that use the key.         *)
(*                                                                         *)
(* A request verifies the key (middleware), checks its credits (inbound    *)
(* filter), is served and pays (outbound filter); every one of these calls *)
(* ValidateKey, which looks into the caches, reads the record and fills    *)
(* the caches in separate steps.  A record is [status, credits, personal,  *)
(* expires]; expires says that the key lapses, lapsed that the time has    *)
(* come.  Finished requests start again: traffic never ends.               *)
(***************************************************************************)
EXTENDS ConfigSync

CONSTANTS
    KeyRecords,     \* records the Admin may write; Nil deletes the key
    Costs           \* what a served request may cost, in micro-yuan

VARIABLES
    key,         \* the Admin's record (in Redis, or behind its HTTP interface)
    lapsed,      \* the expiry time of the record has passed
    copy,        \* the HTTP provider's cachedApiKeys entry
    valid,       \* validCache: Nil or the record
    invalid,     \* invalidCache: Nil or the message
    call,        \* [Actor -> the request]
    deductions,  \* deductions made so far
    copyRev,     \* revision the copy comes from
    strayed      \* a lookup overwrote the copy with an older record

keyVars == <<key, lapsed, copy, valid, invalid, call, deductions, copyRev, strayed>>

NewCall == [stage |-> "verify", at |-> "get", item |-> Nil, rev |-> 0, cost |-> 0]

KeysInit ==
    /\ key = scene.key
    /\ lapsed = FALSE
    /\ copy = Nil /\ copyRev = 0 /\ strayed = FALSE
    /\ valid = Nil /\ invalid = Nil
    /\ call = [r \in Actor |-> NewCall]
    /\ deductions = 0

(* ---------------------------- ValidateKey -------------------------------- *)

\* The message of a record that may not be used, Nil when it may.
Refusal(item) ==
    CASE item = Nil -> "invalid"
      [] item # Nil /\ item.status # 1 -> "disabled"
      [] item # Nil /\ item.status = 1 /\ item.expires /\ lapsed -> "expired"
      [] OTHER -> Nil

\* The middleware has verified the key.  A personal key's credits are checked by
\* the inbound filter; a tenant's request is neither checked nor charged.
Verified(c, info) ==
    [c EXCEPT !.stage = IF info.personal THEN "credits" ELSE "done", !.at = IF info.personal THEN "get" ELSE "end"]

\* CheckCredits passes an unlimited (-1) or positive balance.
CheckCredits(c, info) ==
    [c EXCEPT !.stage = IF info.personal /\ info.credits # -1 /\ info.credits <= 0 THEN "refused" ELSE "serve",
              !.at = "end"]

\* DeductCredits goes on to the provider, unless the key is a tenant's or unlimited.
DeductCredits(c, info) ==
    IF ~info.personal \/ info.credits = -1 THEN [c EXCEPT !.stage = "done", !.at = "end"] ELSE [c EXCEPT !.at = "charge"]

\* The call that asked for the key goes on with the record it was given.
Accepted(c, info) ==
    CASE c.stage = "verify"  -> Verified(c, info)
      [] c.stage = "credits" -> CheckCredits(c, info)
      [] c.stage = "settle"  -> DeductCredits(c, info)

\* The key was not accepted: a request that has been served stays unpaid.
Rejected(c) == [c EXCEPT !.stage = IF c.stage = "settle" THEN "unsettled" ELSE "refused", !.at = "end"]

\* cache.Get: the negative cache comes first.
Get(r) ==
    /\ call[r].at = "get"
    /\ call' = [call EXCEPT ![r] =
           IF invalid # Nil THEN Rejected(@)
           ELSE IF valid # Nil THEN Accepted(@, valid)
           ELSE [@ EXCEPT !.at = "read"]]
    /\ UNCHANGED <<syncVars, key, lapsed, copy, valid, invalid, deductions, copyRev, strayed>>

\* What a provider read returns to the call; rev is history, the revision that the
\* Admin's answer belongs to.
Reading(c, item, at) == [c EXCEPT !.at = at, !.item = item, !.rev = rev["keys"]]

\* GetApiKey.  Redis: one HGETALL.  HTTP: the copy, or a lookup at the Admin.
Read(r) ==
    /\ call[r].at = "read"
    /\ call' = [call EXCEPT ![r] = IF Redis THEN Reading(@, key, "fill")
                                   ELSE IF copy # Nil THEN Reading(@, copy, "fill")
                                   ELSE [@ EXCEPT !.at = "ask"]]
    /\ UNCHANGED <<syncVars, key, lapsed, copy, valid, invalid, deductions, copyRev, strayed>>

\* The Admin answers the lookup of one key; an unknown key is an error.
Ask(r) ==
    /\ call[r].at = "ask"
    /\ call' = [call EXCEPT ![r] = Reading(@, key, IF key = Nil THEN "fill" ELSE "keep")]
    /\ UNCHANGED <<syncVars, key, lapsed, copy, valid, invalid, deductions, copyRev, strayed>>

\* The answer is put into the copy, whatever was put there meanwhile.
Keep(r) ==
    /\ call[r].at = "keep"
    /\ copy' = call[r].item /\ copyRev' = call[r].rev
    /\ strayed' = (strayed \/ call[r].rev < copyRev)
    /\ call' = [call EXCEPT ![r].at = "fill"]
    /\ UNCHANGED <<syncVars, key, lapsed, valid, invalid, deductions>>

\* Redis or the Admin does not answer: treated like an unknown key.
ReadFails(r) ==
    /\ \/ call[r].at = "read" /\ Redis
       \/ call[r].at = "ask"
    /\ Fault
    /\ call' = [call EXCEPT ![r].at = "fill", ![r].item = Nil]
    /\ UNCHANGED <<scene, writes, sub, inbox, rev, poll, key, lapsed, copy, valid, invalid, deductions,
                   copyRev, strayed>>

\* The record is judged and the answer cached; the other cache is not touched.
Fill(r) ==
    LET item == call[r].item
    IN  /\ call[r].at = "fill"
        /\ invalid' = IF Refusal(item) # Nil THEN Refusal(item) ELSE invalid
        /\ valid' = IF Refusal(item) # Nil THEN valid ELSE item
        /\ call' = [call EXCEPT ![r] = [IF Refusal(item) # Nil THEN Rejected(@) ELSE Accepted(@, item)
                                        EXCEPT !.item = Nil, !.rev = 0]]
        /\ UNCHANGED <<syncVars, key, lapsed, copy, deductions, copyRev, strayed>>

(* ------------------------------- payment -------------------------------- *)

\* The upstream answered.  A request that failed or cost nothing is not charged.
Serve(r) ==
    /\ call[r].stage = "serve"
    /\ \E cost \in Costs \cup {0} :
           /\ cost > 0 => deductions + Cardinality({q \in Actor : call[q].stage = "settle"}) < scene.maxDeductions
           /\ call' = [call EXCEPT ![r] = IF cost = 0 THEN [@ EXCEPT !.stage = "done"]
                                          ELSE [@ EXCEPT !.stage = "settle", !.at = "get", !.cost = cost]]
    /\ UNCHANGED <<syncVars, key, lapsed, copy, valid, invalid, deductions, copyRev, strayed>>

Unsettled(r) == [call EXCEPT ![r].stage = "unsettled", ![r].at = "end"]

\* DeductCredits of the provider.  Redis: the record is read first.  HTTP: the
\* copy is charged at once, under the provider's lock, unless it is unlimited.
Charge(r) ==
    /\ call[r].at = "charge"
    /\ \/ /\ Redis
          /\ call' = IF key = Nil THEN Unsettled(r) ELSE [call EXCEPT ![r].at = "incr"]
          /\ UNCHANGED <<copy, deductions>>
       \/ /\ Http /\ copy = Nil
          /\ call' = Unsettled(r)
          /\ UNCHANGED <<copy, deductions>>
       \/ /\ Http /\ copy # Nil
          /\ call' = [call EXCEPT ![r].at = "clear"]
          /\ IF copy.credits = -1 THEN UNCHANGED <<copy, deductions>>
             ELSE copy' = [copy EXCEPT !.credits = @ - call[r].cost] /\ deductions' = deductions + 1
    /\ UNCHANGED <<syncVars, key, lapsed, valid, invalid, copyRev, strayed>>

Charged(cost) == IF key = Nil THEN Nil ELSE [key EXCEPT !.credits = @ - cost]

\* HINCRBY.  On a deleted key it leaves a hash that reads as an unknown key.
Incr(r) ==
    /\ call[r].at = "incr"
    /\ key' = Charged(call[r].cost) /\ deductions' = deductions + 1
    /\ call' = [call EXCEPT ![r].at = "clear"]
    /\ UNCHANGED <<syncVars, lapsed, copy, valid, invalid, copyRev, strayed>>

\* An error of Redis, before or after the command took effect.
ChargeFails(r) ==
    /\ Redis /\ call[r].at \in {"charge", "incr"} /\ Fault
    /\ \/ UNCHANGED <<key, deductions>>
       \/ call[r].at = "incr" /\ key' = Charged(call[r].cost) /\ deductions' = deductions + 1
    /\ call' = Unsettled(r)
    /\ UNCHANGED <<scene, writes, sub, inbox, rev, poll, lapsed, copy, valid, invalid, copyRev, strayed>>

\* Mutant: the caches keep the balance from before the deduction.
ClearNothing(r) ==
    /\ call[r].at = "clear"
    /\ call' = [call EXCEPT ![r].stage = "done", ![r].at = "end"]
    /\ UNCHANGED <<syncVars, key, lapsed, copy, valid, invalid, deductions, copyRev, strayed>>

\* cache.Remove: both caches forget the key.
Clear(r) ==
    /\ call[r].at = "clear"
    /\ valid' = Nil /\ invalid' = Nil
    /\ call' = [call EXCEPT ![r].stage = "done", ![r].at = "end"]
    /\ UNCHANGED <<syncVars, key, lapsed, copy, deductions, copyRev, strayed>>

\* The next request with this key.
Again(r) ==
    /\ call[r].at = "end" /\ call[r].stage # "serve"
    /\ call' = [call EXCEPT ![r] = NewCall]
    /\ UNCHANGED <<syncVars, key, lapsed, copy, valid, invalid, deductions, copyRev, strayed>>

RequestStep(r) ==
    \/ Get(r) \/ Read(r) \/ Ask(r) \/ Keep(r) \/ Fill(r)
    \/ Serve(r) \/ Charge(r) \/ Incr(r) \/ Clear(r) \/ Again(r)

(* --------------------------- time and the Admin -------------------------- *)

\* The entries live 30 and 10 seconds.
ExpireValid == valid # Nil /\ valid' = Nil
               /\ UNCHANGED <<syncVars, key, lapsed, copy, invalid, call, deductions, copyRev, strayed>>

ExpireInvalid == invalid # Nil /\ invalid' = Nil
                 /\ UNCHANGED <<syncVars, key, lapsed, copy, valid, call, deductions, copyRev, strayed>>

Lapse == ~lapsed /\ key # Nil /\ key.expires /\ lapsed' = TRUE
         /\ UNCHANGED <<syncVars, key, copy, valid, invalid, call, deductions, copyRev, strayed>>

\* The Admin creates, changes, disables, tops up or deletes the key.
WriteKey ==
    /\ \E record \in KeyRecords \cup {Nil} : record # key /\ key' = record
    /\ AdminWrites("keys", "apikey_update")
    /\ UNCHANGED <<lapsed, copy, valid, invalid, call, deductions, copyRev, strayed>>

\* ApiKeyService.PurgeCache.
PurgeKeys == valid' = Nil /\ invalid' = Nil

\* UpdateApiKeys: the copy becomes what the answer says; what was deducted from it
\* since, and what a single lookup put there, is overwritten.
UpdateApiKeys == copy' = poll.body /\ copyRev' = poll.rev /\ strayed' = FALSE
============================================================================
