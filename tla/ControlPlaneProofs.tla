------------------------- MODULE ControlPlaneProofs -------------------------
(***************************************************************************)
(* Proofs about ControlPlane, for any actors, scenes, names, documents and *)
(* bounds: an ETag is kept only for what was applied, and what Redis makes *)
(* a smart model is not served as an ordinary one.                         *)
(***************************************************************************)
EXTENDS ControlPlane, TLAPS

(* --------------------------- the sync invariant -------------------------- *)

PollFields == {"at", "kind", "rev", "body", "etag"}
CallFields == {"stage", "at", "item", "rev", "cost"}

\* A request waits for the key only at one of the three places that ask for it.
CallShape(c) ==
    /\ DOMAIN c = CallFields
    /\ c.rev \in Nat
    /\ c.at \in {"get", "read", "ask", "keep", "fill"} => c.stage \in {"verify", "credits", "settle"}

SyncTypes ==
    /\ rev \in [Kinds -> Nat]
    /\ DOMAIN poll = PollFields
    /\ poll.kind \in Kinds /\ poll.rev \in Nat /\ poll.etag \in [Kinds -> Nat]
    /\ copyRev \in Nat /\ strayed \in BOOLEAN /\ list.rev \in Nat
    /\ DOMAIN call = Actor
    /\ \A r \in Actor : CallShape(call[r])

\* An ETag is that of a revision served before; an answer on its way to the
\* provider is not older than the ETag it was asked with.
EtagsServed ==
    /\ \A k \in Kinds : poll.etag[k] <= rev[k]
    /\ poll.rev <= rev[poll.kind]
    /\ poll.at \in {"apply", "notify"} => poll.etag[poll.kind] <= poll.rev

\* Between the provider's update and the callback the answer is in place, though
\* its ETag is not kept yet.
AnswerInPlace ==
    /\ poll.at = "notify" /\ poll.kind = "keys" /\ poll.rev > copyRev => strayed
    /\ poll.at = "notify" /\ poll.kind = "policies" => poll.rev <= list.rev

SyncInv == SyncTypes /\ EtagsServed /\ AnswerInPlace /\ EtagMeansApplied

(* -------------------------- the model invariant -------------------------- *)

QueryFields == {"op", "goal", "at", "name", "model", "doc", "bad", "ver", "list", "split", "todo", "isKnown",
                "answer", "from", "sure", "owned"}
SourceFields == {"cache", "last", "smart", "err", "managed", "split", "told"}

\* Where a query stands: what it asks for, and how far it has come.
QueryShape(r) ==
    /\ DOMAIN r = QueryFields
    /\ r.op = "endpoints" <=> r.goal = "endpoints"
    /\ r.goal = "endpoints" => r.model = r.name
    /\ r.goal \in {"check", "alias", "has"} => r.op \in {"validate", "resolve"}
    /\ r.at \in {"smart", "deps", "fill", "static", "nested", "resolved"}
           => r.goal \in {"endpoints", "check", "alias", "has"}
    /\ r.at = "alias" => r.op = "resolve"
    /\ r.at = "exists" => r.goal \in {"alias", "has"}
    /\ r.at \in {"list", "fetch", "version", "store", "default"} => r.goal = "endpoints"
    /\ r.op = "endpoints" => r.name \in Name
    /\ r.at = "smart" => ~r.bad
    /\ r.at \in {"deps", "nested"} => r.doc # Nil
    /\ r.at = "fill" /\ r.bad => r.doc # Nil

\* GetEndpoints holds a document, or the error of one.
Holding(r) ==
    \/ r.at \in {"deps", "fill", "nested"} /\ r.doc # Nil
    \/ r.at = "resolved" /\ (r.doc # Nil \/ r.bad)

\* What is known of a query about a model that had a document in Redis all along:
\* GetEndpoints holds it until it answers with no endpoints.
SureQuery(r, docsNow, redis) ==
    r.sure => /\ redis /\ r.name \in Name /\ docsNow[r.name] # Nil
              /\ r.op = "endpoints" => r.at = "smart" \/ Holding(r) \/ (r.at = "end" /\ r.answer = {})

\* What is known of a query about a model that a request had been told is smart
\* before it began: the source remembers the model, and the static configuration
\* is not asked.
OwnedQuery(r, managed, redis) ==
    r.owned => /\ redis /\ r.name \in Name /\ managed[r.name]
               /\ r.op = "endpoints" => r.at # "static" /\ r.from # "static"

\* A query that is about to tell a request that Redis makes the model a smart one:
\* the source remembers the model.
Telling(r) ==
    /\ r.op = "endpoints" /\ r.at \in {"nested", "resolved"} /\ r.from # "static"
    /\ r.doc # Nil \/ r.bad

TellingQuery(r, managed) == Telling(r) => managed[r.name]

QuerySound(r, docsNow, managed, redis) ==
    QueryShape(r) /\ SureQuery(r, docsNow, redis) /\ OwnedQuery(r, managed, redis) /\ TellingQuery(r, managed)

\* The source remembers that Redis owned a model it holds a document or an error
\* of, or that a request was told is smart.
Remembers(s) == \A n \in Name : s.smart[n] # Nil \/ s.err[n] \/ s.told[n] => s.managed[n]

SourceShape(s) ==
    /\ DOMAIN s = SourceFields /\ s.managed \in [Name -> BOOLEAN]
    /\ DOMAIN s.smart = Name /\ DOMAIN s.err = Name /\ DOMAIN s.told = Name
    /\ Remembers(s)

ModelInv ==
    /\ scene \in Scenes
    /\ DOMAIN query = Actor /\ DOMAIN smart = Name /\ SourceShape(src)
    /\ \A q \in Actor : QuerySound(query[q], smart, src.managed, Redis)

Inv == SyncInv /\ ModelInv

(* ------------------------------ requests --------------------------------- *)

\* A step that leaves the poller, the revisions, the provider's copies and the
\* requests alone keeps the invariant.
LEMMA SyncFrame ==
    ASSUME SyncInv, UNCHANGED <<rev, poll, copyRev, strayed, list, call>>
    PROVE  SyncInv'
  BY DEF SyncInv, SyncTypes, EtagsServed, AnswerInPlace, EtagMeansApplied, CallShape

\* So does a step of one request that leaves the others alone.
LEMMA CallMoves ==
    ASSUME SyncInv, NEW r \in Actor, DOMAIN call' = Actor, CallShape(call'[r]),
           \A x \in Actor : x # r => call'[x] = call[x],
           UNCHANGED <<rev, poll, copyRev, strayed, list>>
    PROVE  SyncInv'
  <1>1. \A x \in Actor : CallShape(call'[x])
    <2>1. \A x \in Actor : CallShape(call[x])
      BY DEF SyncInv, SyncTypes
    <2> QED BY <2>1
  <1>2. EtagsServed' /\ AnswerInPlace' /\ EtagMeansApplied'
    BY DEF SyncInv, EtagsServed, AnswerInPlace, EtagMeansApplied
  <1>3. SyncTypes'
    BY <1>1 DEF SyncInv, SyncTypes
  <1> QED BY <1>2, <1>3 DEF SyncInv

\* What becomes of a request when ValidateKey returns (internal/service/apikey.go):
\* it goes on to the next place or ends.
LEMMA CallGoesOn ==
    ASSUME NEW c, NEW info, CallShape(c), c.stage \in {"verify", "credits", "settle"}
    PROVE  CallShape(Accepted(c, info)) /\ CallShape(Rejected(c))
  <1>1. CallShape(Rejected(c))
    BY DEF CallShape, CallFields, Rejected
  <1>2. CASE c.stage = "verify"
    <2>1. Accepted(c, info) = Verified(c, info)
      BY <1>2 DEF Accepted
    <2> QED BY <1>1, <1>2, <2>1 DEF CallShape, CallFields, Verified
  <1>3. CASE c.stage = "credits"
    <2>1. Accepted(c, info) = CheckCredits(c, info)
      BY <1>3 DEF Accepted
    <2> QED BY <1>1, <1>3, <2>1 DEF CallShape, CallFields, CheckCredits
  <1>4. CASE c.stage = "settle"
    <2>1. Accepted(c, info) = DeductCredits(c, info)
      BY <1>4 DEF Accepted
    <2> QED BY <1>1, <1>4, <2>1 DEF CallShape, CallFields, DeductCredits
  <1> QED BY <1>2, <1>3, <1>4

\* cache.Get.
LEMMA GetStep ==
    ASSUME SyncInv, NEW r \in Actor, Get(r), UNCHANGED list
    PROVE  SyncInv'
  <1>1. CallShape(call[r]) /\ call[r].stage \in {"verify", "credits", "settle"} /\ DOMAIN call = Actor
    BY DEF SyncInv, SyncTypes, CallShape, Get
  <1>2. CallShape(Rejected(call[r])) /\ \A info : CallShape(Accepted(call[r], info))
    BY <1>1, CallGoesOn
  <1>3. CallShape([call[r] EXCEPT !.at = "read"])
    BY <1>1 DEF CallShape, CallFields
  <1>4. call'[r] = IF invalid # Nil THEN Rejected(call[r])
                   ELSE IF valid # Nil THEN Accepted(call[r], valid) ELSE [call[r] EXCEPT !.at = "read"]
    BY <1>1 DEF Get
  <1>5. CallShape(call'[r])
    BY <1>2, <1>3, <1>4
  <1>6. DOMAIN call' = Actor /\ \A x \in Actor : x # r => call'[x] = call[x]
    BY <1>1 DEF Get
  <1> QED BY <1>5, <1>6, CallMoves DEF Get, syncVars

\* The provider's answer, or an error.
LEMMA ReadSteps ==
    ASSUME SyncInv, NEW r \in Actor, Read(r) \/ Ask(r) \/ ReadFails(r), UNCHANGED list
    PROVE  SyncInv'
  <1>1. CallShape(call[r]) /\ call[r].stage \in {"verify", "credits", "settle"} /\ DOMAIN call = Actor
    BY DEF SyncInv, SyncTypes, CallShape, Read, Ask, ReadFails
  <1>2. rev["keys"] \in Nat
    BY DEF SyncInv, SyncTypes, Kinds
  <1>3. \A item, at : CallShape(Reading(call[r], item, at))
    BY <1>1, <1>2 DEF CallShape, CallFields, Reading
  <1>4. CallShape([call[r] EXCEPT !.at = "ask"]) /\ CallShape([call[r] EXCEPT !.at = "fill", !.item = Nil])
    BY <1>1 DEF CallShape, CallFields
  <1>5. CallShape(call'[r])
    <2>1. CASE Read(r)
      <3>1. call'[r] = IF Redis THEN Reading(call[r], key, "fill")
                       ELSE IF copy # Nil THEN Reading(call[r], copy, "fill") ELSE [call[r] EXCEPT !.at = "ask"]
        BY <1>1, <2>1 DEF Read
      <3> QED BY <1>3, <1>4, <3>1
    <2>2. CASE Ask(r)
      <3>1. call'[r] = Reading(call[r], key, IF key = Nil THEN "fill" ELSE "keep")
        BY <1>1, <2>2 DEF Ask
      <3> QED BY <1>3, <3>1
    <2>3. CASE ReadFails(r)
      <3>1. call'[r] = [call[r] EXCEPT !.at = "fill", !.item = Nil]
        BY <1>1, <2>3 DEF ReadFails
      <3> QED BY <1>4, <3>1
    <2> QED BY <2>1, <2>2, <2>3
  <1>6. DOMAIN call' = Actor /\ \A x \in Actor : x # r => call'[x] = call[x]
    BY <1>1 DEF Read, Ask, ReadFails
  <1>7. UNCHANGED <<rev, poll, copyRev, strayed>>
    BY DEF Read, Ask, ReadFails, syncVars
  <1> QED BY <1>5, <1>6, <1>7, CallMoves

\* A late answer of the Admin overwrites the copy: when it is older than what the
\* poller put there, strayed says so (GetApiKey of pkg/config/http_provider.go).
LEMMA KeepStep ==
    ASSUME SyncInv, NEW r \in Actor, Keep(r), UNCHANGED list
    PROVE  SyncInv'
  <1>1. CallShape(call[r]) /\ DOMAIN call = Actor /\ copyRev \in Nat /\ strayed \in BOOLEAN
    BY DEF SyncInv, SyncTypes
  <1>2. DOMAIN call' = Actor /\ \A x \in Actor : CallShape(call'[x])
    <2>1. \A x \in Actor : x # r => call'[x] = call[x] /\ CallShape(call[x])
      BY <1>1 DEF SyncInv, SyncTypes, Keep
    <2>2. call'[r] = [call[r] EXCEPT !.at = "fill"]
      BY <1>1 DEF Keep
    <2>3. CallShape(call'[r])
      BY <1>1, <2>2 DEF CallShape, CallFields, Keep
    <2> QED BY <1>1, <2>1, <2>3 DEF Keep
  <1>3. call[r].rev \in Nat /\ copyRev' = call[r].rev /\ strayed' = (strayed \/ call[r].rev < copyRev)
    BY <1>1 DEF CallShape, Keep
  <1>4. UNCHANGED <<rev, poll, list>>
    BY DEF Keep, syncVars
  <1>5. SyncTypes'
    BY <1>2, <1>3, <1>4 DEF SyncInv, SyncTypes
  <1>6. EtagsServed'
    BY <1>4 DEF SyncInv, EtagsServed
  <1>7. PICK etag \in Nat : etag = poll.etag["keys"]
    BY DEF SyncInv, SyncTypes, Kinds
  <1>8. \A n \in Nat : (n > copyRev => strayed) => (n > copyRev' => strayed')
    <2>1. strayed \/ call[r].rev < copyRev => strayed'
      BY <1>3, Zenon
    <2>2. \A n \in Nat : n > copyRev' => n > copyRev \/ call[r].rev < copyRev
      BY <1>1, <1>3
    <2> QED BY <2>1, <2>2, Zenon
  <1>9. poll.rev \in Nat
    BY DEF SyncInv, SyncTypes
  <1>10. EtagMeansApplied' /\ AnswerInPlace'
    BY <1>4, <1>7, <1>8, <1>9, Zenon DEF SyncInv, EtagMeansApplied, AnswerInPlace
  <1> QED BY <1>5, <1>6, <1>10 DEF SyncInv

\* The record is judged and cached.
LEMMA FillStep ==
    ASSUME SyncInv, NEW r \in Actor, Fill(r), UNCHANGED list
    PROVE  SyncInv'
  <1>1. CallShape(call[r]) /\ call[r].stage \in {"verify", "credits", "settle"} /\ DOMAIN call = Actor
    BY DEF SyncInv, SyncTypes, CallShape, Fill
  <1>2. UNCHANGED <<rev, poll, list, copyRev, strayed>>
    BY DEF Fill, syncVars
  <1>3. CallShape(Rejected(call[r])) /\ \A info : CallShape(Accepted(call[r], info))
    BY <1>1, CallGoesOn
  <1>4. PICK c : c = (IF Refusal(call[r].item) # Nil THEN Rejected(call[r]) ELSE Accepted(call[r], call[r].item))
    BY Zenon
  <1>5. CallShape(c)
    BY <1>3, <1>4
  <1>6. call' = [call EXCEPT ![r] = [c EXCEPT !.item = Nil, !.rev = 0]]
    BY <1>1, <1>4 DEF Fill
  <1>7. CallShape([c EXCEPT !.item = Nil, !.rev = 0])
    BY <1>5 DEF CallShape, CallFields
  <1>8. DOMAIN call' = Actor /\ \A x \in Actor : CallShape(call'[x])
    <2>1. call'[r] = [c EXCEPT !.item = Nil, !.rev = 0]
      BY <1>1, <1>6
    <2>2. DOMAIN call' = Actor /\ \A x \in Actor : x # r => call'[x] = call[x]
      BY <1>1, <1>6
    <2>3. \A x \in Actor : CallShape(call[x])
      BY DEF SyncInv, SyncTypes
    <2> QED BY <1>7, <2>1, <2>2, <2>3
  <1>9. SyncTypes'
    BY <1>2, <1>8 DEF SyncInv, SyncTypes
  <1>10. EtagsServed' /\ AnswerInPlace' /\ EtagMeansApplied'
    BY <1>2 DEF SyncInv, EtagsServed, AnswerInPlace, EtagMeansApplied
  <1> QED BY <1>9, <1>10 DEF SyncInv

\* The upstream answers, and the next request begins.
LEMMA ServeSteps ==
    ASSUME SyncInv, NEW r \in Actor, Serve(r) \/ Again(r), UNCHANGED list
    PROVE  SyncInv'
  <1>1. CallShape(call[r]) /\ DOMAIN call = Actor
    BY DEF SyncInv, SyncTypes
  <1>2. UNCHANGED <<rev, poll, copyRev, strayed>>
    BY Zenon DEF Serve, Again, syncVars
  <1>3. CASE Serve(r)
    <2>1. PICK cost \in Costs \cup {0} :
              call' = [call EXCEPT ![r] = IF cost = 0 THEN [call[r] EXCEPT !.stage = "done"]
                                          ELSE [call[r] EXCEPT !.stage = "settle", !.at = "get", !.cost = cost]]
      BY <1>3, Zenon DEF Serve
    <2>2. call[r].stage = "serve"
      BY <1>3, Zenon DEF Serve
    <2>3. CallShape([call[r] EXCEPT !.stage = "done"])
      BY <1>1, <2>2 DEF CallShape, CallFields
    <2>4. CallShape([call[r] EXCEPT !.stage = "settle", !.at = "get", !.cost = cost])
      BY <1>1 DEF CallShape, CallFields
    <2>5. call'[r] = IF cost = 0 THEN [call[r] EXCEPT !.stage = "done"]
                     ELSE [call[r] EXCEPT !.stage = "settle", !.at = "get", !.cost = cost]
      BY <1>1, <2>1
    <2>6. DOMAIN call' = Actor /\ \A x \in Actor : x # r => call'[x] = call[x]
      BY <1>1, <2>1
    <2>7. CallShape(call'[r])
      BY <2>4, <2>5, <2>3
    <2> QED BY <1>2, <2>6, <2>7, CallMoves
  <1>4. CASE Again(r)
    <2>1. call'[r] = NewCall /\ DOMAIN call' = Actor /\ \A x \in Actor : x # r => call'[x] = call[x]
      BY <1>1, <1>4 DEF Again
    <2>2. CallShape(NewCall)
      BY DEF CallShape, CallFields, NewCall
    <2>3. CallShape(call'[r])
      BY <2>1, <2>2
    <2> QED BY <1>2, <2>1, <2>3, CallMoves
  <1> QED BY <1>3, <1>4

\* DeductCredits: a deduction made, refused or failed.
LEMMA ChargeSteps ==
    ASSUME SyncInv, NEW r \in Actor, Charge(r) \/ Incr(r) \/ ChargeFails(r), UNCHANGED list
    PROVE  SyncInv'
  <1>1. CallShape(call[r]) /\ DOMAIN call = Actor
    BY DEF SyncInv, SyncTypes
  <1>2. UNCHANGED <<rev, poll, copyRev, strayed>>
    BY Zenon DEF Charge, Incr, ChargeFails, syncVars
  <1>3. \/ call' = Unsettled(r)
        \/ call' = [call EXCEPT ![r].at = "incr"]
        \/ call' = [call EXCEPT ![r].at = "clear"]
    BY Zenon DEF Charge, Incr, ChargeFails
  <1>4. DOMAIN call' = Actor /\ \A x \in Actor : x # r => call'[x] = call[x]
    BY <1>1, <1>3 DEF Unsettled
  <1>5. CallShape(call'[r])
    <2>1. CASE call' = Unsettled(r)
      <3>1. call'[r] = [call[r] EXCEPT !.stage = "unsettled", !.at = "end"]
        BY <1>1, <2>1 DEF Unsettled
      <3> QED BY <1>1, <3>1 DEF CallShape, CallFields
    <2>2. CASE call' = [call EXCEPT ![r].at = "incr"]
      <3>1. call'[r] = [call[r] EXCEPT !.at = "incr"]
        BY <1>1, <2>2
      <3> QED BY <1>1, <3>1 DEF CallShape, CallFields
    <2>3. CASE call' = [call EXCEPT ![r].at = "clear"]
      <3>1. call'[r] = [call[r] EXCEPT !.at = "clear"]
        BY <1>1, <2>3
      <3> QED BY <1>1, <3>1 DEF CallShape, CallFields
    <2> QED BY <1>3, <2>1, <2>2, <2>3
  <1> QED BY <1>2, <1>4, <1>5, CallMoves

\* cache.Remove after a deduction.
LEMMA ClearStep ==
    ASSUME SyncInv, NEW r \in Actor, Clear(r), UNCHANGED list
    PROVE  SyncInv'
  <1>1. \A x \in Actor : CallShape(call[x])
    BY DEF SyncInv, SyncTypes
  <1>2. DOMAIN call = Actor
    BY DEF SyncInv, SyncTypes
  <1>3. call'[r] = [call[r] EXCEPT !.stage = "done", !.at = "end"]
    BY <1>2 DEF Clear
  <1>4. CallShape(call'[r])
    BY <1>1, <1>3 DEF CallShape, CallFields
  <1>5. DOMAIN call' = Actor /\ \A x \in Actor : x # r => call'[x] = call[x]
    BY <1>2 DEF Clear
  <1>6. UNCHANGED <<rev, poll, copyRev, strayed>>
    BY DEF Clear, syncVars
  <1> QED BY <1>4, <1>5, <1>6, CallMoves

\* Everything a request does.
LEMMA RequestStepSync ==
    ASSUME SyncInv, NEW r \in Actor, RequestStep(r) \/ ReadFails(r) \/ ChargeFails(r), UNCHANGED list
    PROVE  SyncInv'
  BY GetStep, ReadSteps, KeepStep, FillStep, ServeSteps, ChargeSteps, ClearStep, Zenon DEF RequestStep

(* --------------------------- time and the Admin -------------------------- *)

\* Entries expire, the record lapses.
LEMMA KeyTimeSync ==
    ASSUME SyncInv, ExpireValid \/ ExpireInvalid \/ Lapse, UNCHANGED list
    PROVE  SyncInv'
  <1>1. UNCHANGED <<rev, poll, copyRev, strayed, call>>
    BY Zenon DEF ExpireValid, ExpireInvalid, Lapse, syncVars
  <1> QED BY <1>1, SyncFrame

\* The Admin's revisions only grow, so an ETag stays one of a revision served.
LEMMA RevisionGrows ==
    ASSUME SyncInv, NEW kind \in Kinds, NEW channel, AdminWrites(kind, channel),
           UNCHANGED <<copyRev, strayed, list, call>>
    PROVE  SyncInv'
  <1>1. rev \in [Kinds -> Nat] /\ poll.etag \in [Kinds -> Nat] /\ poll.kind \in Kinds /\ poll.rev \in Nat
    BY DEF SyncInv, SyncTypes
  <1>2. rev' = [rev EXCEPT ![kind] = rev[kind] + 1] /\ UNCHANGED poll
    BY DEF AdminWrites
  <1>3. rev' \in [Kinds -> Nat] /\ \A k \in Kinds : rev[k] <= rev'[k]
    BY <1>1, <1>2
  <1>4. EtagsServed'
    BY <1>1, <1>2, <1>3 DEF SyncInv, EtagsServed
  <1>5. AnswerInPlace' /\ EtagMeansApplied'
    BY <1>2 DEF SyncInv, AnswerInPlace, EtagMeansApplied
  <1>6. SyncTypes'
    BY <1>2, <1>3 DEF SyncInv, SyncTypes
  <1> QED BY <1>4, <1>5, <1>6 DEF SyncInv

(* -------------------------------- the poller ----------------------------- *)

\* The poller goes on to the next kind, nothing but its place changed.
LEMMA PollOnward ==
    ASSUME SyncInv, poll' = Onward, UNCHANGED <<rev, copyRev, strayed, list, call>>
    PROVE  SyncInv'
  <1>1. /\ rev \in [Kinds -> Nat] /\ DOMAIN poll = PollFields /\ poll.kind \in Kinds
        /\ poll.etag \in [Kinds -> Nat]
    BY DEF SyncInv, SyncTypes
  <1>2. NextKind(poll.kind) \in Kinds
    BY <1>1 DEF NextKind, Kinds
  <1>3. /\ DOMAIN poll' = PollFields /\ poll'.at = "ask" /\ poll'.kind = NextKind(poll.kind) /\ poll'.rev = 0
        /\ poll'.etag = poll.etag
    BY <1>1 DEF Onward, PollFields
  <1>4. SyncTypes'
    BY <1>1, <1>2, <1>3 DEF SyncInv, SyncTypes
  <1>5. EtagsServed'
    BY <1>1, <1>2, <1>3 DEF SyncInv, EtagsServed
  <1>6. AnswerInPlace'
    BY <1>3 DEF AnswerInPlace
  <1>7. EtagMeansApplied'
    BY <1>3 DEF SyncInv, EtagMeansApplied
  <1> QED BY <1>4, <1>5, <1>6, <1>7 DEF SyncInv

\* An answer: 304 goes on, a document carries the revision served now.
LEMMA PollAnsweredSync ==
    ASSUME SyncInv, NEW document, PollAnswered(document),
           UNCHANGED <<copyRev, strayed, list, call>>
    PROVE  SyncInv'
  <1>1. /\ rev \in [Kinds -> Nat] /\ DOMAIN poll = PollFields /\ poll.kind \in Kinds
        /\ poll.etag \in [Kinds -> Nat]
    BY DEF SyncInv, SyncTypes
  <1>2. UNCHANGED rev
    BY DEF PollAnswered
  <1>3. CASE poll.etag[poll.kind] = rev[poll.kind]
    <2>1. poll' = Onward
      BY <1>3 DEF PollAnswered
    <2> QED BY <1>2, <2>1, PollOnward
  <1>4. CASE poll.etag[poll.kind] # rev[poll.kind]
    <2>1. poll' = [poll EXCEPT !.at = "apply", !.rev = rev[poll.kind], !.body = document]
      BY <1>4 DEF PollAnswered
    <2>2. /\ DOMAIN poll' = PollFields /\ poll'.at = "apply" /\ poll'.kind = poll.kind
          /\ poll'.rev = rev[poll.kind] /\ poll'.etag = poll.etag
      BY <1>1, <2>1 DEF PollFields
    <2>3. SyncTypes'
      BY <1>1, <1>2, <2>2 DEF SyncInv, SyncTypes
    <2>4. EtagsServed'
      BY <1>1, <1>2, <2>2 DEF SyncInv, EtagsServed
    <2>5. AnswerInPlace'
      BY <2>2 DEF AnswerInPlace
    <2>6. EtagMeansApplied'
      BY <2>2 DEF SyncInv, EtagMeansApplied
    <2> QED BY <2>3, <2>4, <2>5, <2>6 DEF SyncInv
  <1> QED BY <1>3, <1>4

\* An answer is put into the provider: the copies of its kind become those of its
\* revision, the others stay.
LEMMA PollAppliedSync ==
    ASSUME SyncInv, PollApplied,
           UNCHANGED <<call>>,
           IF poll.kind = "keys" THEN copyRev' = poll.rev /\ strayed' = FALSE ELSE UNCHANGED <<copyRev, strayed>>,
           IF poll.kind = "policies" THEN list'.rev = poll.rev ELSE UNCHANGED list
    PROVE  SyncInv'
  <1>1. /\ rev \in [Kinds -> Nat] /\ DOMAIN poll = PollFields /\ poll.kind \in Kinds
        /\ poll.rev \in Nat /\ poll.etag \in [Kinds -> Nat] /\ copyRev \in Nat /\ list.rev \in Nat
        /\ strayed \in BOOLEAN
    BY DEF SyncInv, SyncTypes
  <1>2. /\ poll.at = "apply" /\ UNCHANGED rev
        /\ DOMAIN poll' = PollFields /\ poll'.at = "notify" /\ poll'.kind = poll.kind
        /\ poll'.rev = poll.rev /\ poll'.etag = poll.etag
    BY <1>1 DEF PollApplied, PollFields
  <1>3. poll.etag[poll.kind] <= poll.rev
    BY <1>2 DEF SyncInv, EtagsServed
  <1>4. copyRev' \in Nat /\ strayed' \in BOOLEAN /\ list'.rev \in Nat
    BY <1>1, Zenon
  <1>5. SyncTypes'
    BY <1>1, <1>2, <1>4 DEF SyncInv, SyncTypes
  <1>6. EtagsServed'
    BY <1>2, <1>3 DEF SyncInv, EtagsServed
  <1>8. AnswerInPlace'
    <2>1. poll.kind = "keys" => ~(poll.rev > copyRev')
      BY <1>1
    <2>2. poll.kind = "policies" => poll.rev <= list'.rev
      BY <1>1
    <2> QED BY <1>2, <2>1, <2>2 DEF AnswerInPlace
  <1>9. poll.etag["keys"] > copyRev' => strayed'
    <2>1. CASE poll.kind = "keys"
      <3>1. copyRev' = poll.rev /\ poll.etag["keys"] <= poll.rev /\ poll.etag["keys"] \in Nat
        BY <1>1, <1>3, <2>1
      <3> QED BY <1>1, <3>1
    <2>2. CASE poll.kind # "keys"
      BY <2>2 DEF SyncInv, EtagMeansApplied
    <2> QED BY <2>1, <2>2
  <1>10. poll.etag["policies"] <= list'.rev
    <2>1. CASE poll.kind = "policies"
      BY <1>1, <1>3, <2>1
    <2>2. CASE poll.kind # "policies"
      BY <2>2 DEF SyncInv, EtagMeansApplied
    <2> QED BY <2>1, <2>2
  <1>11. EtagMeansApplied'
    BY <1>2, <1>9, <1>10 DEF EtagMeansApplied
  <1> QED BY <1>5, <1>6, <1>8, <1>11 DEF SyncInv

\* The callback has run and the ETag is kept: what it stands for is in place.
LEMMA PollNotifiedSync ==
    ASSUME SyncInv, PollNotified, UNCHANGED <<copyRev, strayed, list, call>>
    PROVE  SyncInv'
  <1>1. /\ rev \in [Kinds -> Nat] /\ DOMAIN poll = PollFields /\ poll.kind \in Kinds
        /\ poll.rev \in Nat /\ poll.etag \in [Kinds -> Nat] /\ copyRev \in Nat /\ list.rev \in Nat
    BY DEF SyncInv, SyncTypes
  <1>2. NextKind(poll.kind) \in Kinds
    BY <1>1 DEF NextKind, Kinds
  <1>3. /\ poll.at = "notify" /\ UNCHANGED rev
        /\ DOMAIN poll' = PollFields /\ poll'.at = "ask" /\ poll'.kind = NextKind(poll.kind) /\ poll'.rev = 0
        /\ poll'.etag = [poll.etag EXCEPT ![poll.kind] = poll.rev]
    BY <1>1 DEF PollNotified, Onward, PollFields
  <1>4. poll'.etag \in [Kinds -> Nat]
    BY <1>1, <1>3
  <1>5. SyncTypes'
    BY <1>1, <1>2, <1>3, <1>4 DEF SyncInv, SyncTypes
  <1>6. EtagsServed'
    BY <1>1, <1>2, <1>3 DEF SyncInv, EtagsServed
  <1>7. AnswerInPlace'
    BY <1>3 DEF AnswerInPlace
  <1>8. poll'.etag["keys"] > copyRev => strayed
    BY <1>1, <1>3 DEF SyncInv, AnswerInPlace, EtagMeansApplied, Kinds
  <1>9. poll'.etag["policies"] <= list.rev
    BY <1>1, <1>3 DEF SyncInv, AnswerInPlace, EtagMeansApplied, Kinds
  <1>10. EtagMeansApplied'
    BY <1>8, <1>9 DEF EtagMeansApplied
  <1> QED BY <1>5, <1>6, <1>7, <1>10 DEF SyncInv

(* ---------------------------- the whole system --------------------------- *)

\* Lookups of policies and queries of models leave the keys, the poller and the
\* provider's list alone.
LEMMA OthersSync ==
    ASSUME SyncInv, NEW q \in Actor,
           \/ InPolicies /\ (LookupStep(q) \/ ReadScopeFails(q) \/ FillPermissionsFails(q))
           \/ InModels /\ (QueryStep(q) \/ QueryFails(q))
    PROVE  SyncInv'
  <1>1. UNCHANGED keyVars
    BY Zenon DEF InPolicies, InModels
  <1>2. UNCHANGED <<copyRev, strayed, call>>
    BY <1>1 DEF keyVars
  <1>3. UNCHANGED <<rev, poll, list>>
    <2>1. CASE InPolicies /\ (LookupStep(q) \/ ReadScopeFails(q) \/ FillPermissionsFails(q))
      BY <2>1, Zenon DEF LookupStep, StartLookup, ReadScope, ReadList, Match, Merge, FillPermissions, FillFallback,
             Add, ReadScopeFails, FillPermissionsFails, syncVars
    <2>2. CASE InModels /\ (QueryStep(q) \/ QueryFails(q))
      <3>1. UNCHANGED list
        BY <2>2, Zenon DEF InModels, policyVars
      <3>2. UNCHANGED <<rev, poll>>
        BY <2>2, Zenon DEF QueryStep, StartQuery, ReadSmart, CheckDeps, FillSmart, ReadStatic, CheckNested, Resolved,
               List, Fetch, FetchVersion, StoreList, Default, Exists, Tenant, SecondLook, ReadAlias, Normalize,
               KeepAlias, NormalizeModelCode, NormalizeFails, QueryFails, ReadSmartFails, CheckDepsFails, CheckNestedFails, FetchFails, ExistsFails,
               TenantFails, ReadAliasFails, syncVars
      <3> QED BY <3>1, <3>2
    <2> QED BY <2>1, <2>2
  <1> QED BY <1>2, <1>3, SyncFrame

\* Expiry and the version poll.
LEMMA TimeSync ==
    ASSUME SyncInv, ExpireKey \/ VersionPoll \/ (\E m \in Models : ExpireModel(m)) \/ (\E n \in Name : ExpireName(n))
    PROVE  SyncInv'
  <1>1. CASE ExpireKey
    <2>1. UNCHANGED list
      BY <1>1, Zenon DEF ExpireKey, InKeys, policyVars
    <2> QED BY <1>1, <2>1, KeyTimeSync DEF ExpireKey
  <1>2. CASE VersionPoll
    <2>1. UNCHANGED <<rev, poll, copyRev, strayed, list, call>>
      BY <1>2, Zenon DEF VersionPoll, InModels, keyVars, policyVars, ReadVersions, Evict, syncVars
    <2> QED BY <2>1, SyncFrame
  <1>3. ASSUME NEW m \in Models, ExpireModel(m)
        PROVE  SyncInv'
    <2>1. UNCHANGED <<rev, poll, copyRev, strayed, list, call>>
      BY <1>3, Zenon DEF ExpireModel, InPolicies, keyVars, ExpirePolicy, ExpireMiss, syncVars
    <2> QED BY <2>1, SyncFrame
  <1>4. ASSUME NEW n \in Name, ExpireName(n)
        PROVE  SyncInv'
    <2>1. UNCHANGED <<rev, poll, copyRev, strayed, list, call>>
      BY <1>4, Zenon DEF ExpireName, InModels, keyVars, policyVars, ExpireAlias, syncVars
    <2> QED BY <2>1, SyncFrame
  <1> QED BY <1>1, <1>2, <1>3, <1>4

\* What the Admin does.
LEMMA AdminSync ==
    ASSUME SyncInv, Admin
    PROVE  SyncInv'
  <1>1. {"keys", "policies", "config"} \subseteq Kinds
    BY DEF Kinds
  <1>2. CASE InKeys /\ WriteKey
    <2>1. AdminWrites("keys", "apikey_update") /\ UNCHANGED <<copyRev, strayed, list, call>>
      BY <1>2, Zenon DEF InKeys, WriteKey, policyVars
    <2> QED BY <1>1, <2>1, RevisionGrows
  <1>3. CASE InKeys /\ Lapse
    <2>1. UNCHANGED list
      BY <1>3, Zenon DEF InKeys, policyVars
    <2> QED BY <1>3, <2>1, KeyTimeSync
  <1>4. CASE InPolicies /\ WritePolicy
    <2>1. /\ AdminWrites("policies", "policy_update")
          /\ UNCHANGED <<copyRev, strayed, list, call>>
      BY <1>4, Zenon DEF InPolicies, WritePolicy, keyVars
    <2> QED BY <1>1, <2>1, RevisionGrows
  <1>5. CASE InModels /\ (WriteModel \/ WriteAlias)
    <2>1. UNCHANGED <<rev, poll, copyRev, strayed, list, call>>
      BY <1>5, Zenon DEF InModels, WriteModel, WriteAlias, keyVars, policyVars
    <2> QED BY <2>1, SyncFrame
  <1>6. CASE InModels /\ WriteConfig
    <2>1. AdminWrites("config", "none") /\ UNCHANGED <<copyRev, strayed, list, call>>
      BY <1>6, Zenon DEF InModels, WriteConfig, keyVars, policyVars
    <2> QED BY <1>1, <2>1, RevisionGrows
  <1> QED BY <1>2, <1>3, <1>4, <1>5, <1>6 DEF Admin

\* The poller, from the answer to the callback, failures included.
LEMMA PollerSync ==
    ASSUME SyncInv, Poller \/ PollError \/ EngineRefuses
    PROVE  SyncInv'
  <1>1. CASE PollAnswer
    <2>1. PollAnswered(Document(poll.kind)) /\ UNCHANGED <<copyRev, strayed, list, call>>
      BY <1>1, Zenon DEF PollAnswer, keyVars, policyVars
    <2> QED BY <2>1, PollAnsweredSync
  <1>2. CASE PollError \/ EngineRefuses
    <2>1. poll' = Onward /\ UNCHANGED <<rev, copyRev, strayed, list, call>>
      BY <1>2, Zenon DEF PollError, EngineRefuses, PollFails, PollRejected, keyVars, policyVars
    <2> QED BY <2>1, PollOnward
  <1>3. CASE ApplyConfig
    <2>1. poll.kind = "config" /\ UNCHANGED <<copyRev, strayed, list, call>>
      BY <1>3, Zenon DEF ApplyConfig, keyVars
    <2>2. CASE ValidConfig(poll.body.models)
      <3>1. PollApplied
        BY <1>3, <2>2, Zenon DEF ApplyConfig
      <3> QED BY <2>1, <3>1, PollAppliedSync
    <2>3. CASE ~ValidConfig(poll.body.models)
      <3>1. poll' = Onward /\ UNCHANGED rev
        BY <1>3, <2>3, Zenon DEF ApplyConfig, PollRefused
      <3> QED BY <2>1, <3>1, PollOnward
    <2> QED BY <2>2, <2>3
  <1>4. CASE ApplyPolicies
    <2>1. /\ poll.kind = "policies" /\ PollApplied /\ list' = [docs |-> poll.body, rev |-> poll.rev]
          /\ UNCHANGED <<copyRev, strayed, call>>
      BY <1>4, Zenon DEF ApplyPolicies, UpdatePolicies, keyVars
    <2>2. list'.rev = poll.rev
      BY <2>1
    <2> QED BY <2>1, <2>2, PollAppliedSync
  <1>5. CASE ApplyKeys
    <2>1. /\ poll.kind = "keys" /\ PollApplied /\ copyRev' = poll.rev /\ strayed' = FALSE
          /\ UNCHANGED <<list, call>>
      BY <1>5, Zenon DEF ApplyKeys, UpdateApiKeys, policyVars
    <2> QED BY <2>1, PollAppliedSync, Zenon
  <1>6. CASE NotifyConfig \/ NotifyPolicies
    <2>1. PollNotified /\ UNCHANGED <<copyRev, strayed, list, call>>
      BY <1>6, Zenon DEF NotifyConfig, NotifyPolicies, keyVars, policyVars
    <2> QED BY <2>1, PollNotifiedSync
  <1>7. CASE NotifyKeys
    <2>1. PollNotified /\ UNCHANGED <<copyRev, strayed, list, call>>
      BY <1>7, Zenon DEF NotifyKeys, PurgeKeys, policyVars
    <2> QED BY <2>1, PollNotifiedSync
  <1> QED BY <1>1, <1>2, <1>3, <1>4, <1>5, <1>6, <1>7 DEF Poller

\* The subscription only empties caches.
LEMMA SubscriptionSync ==
    ASSUME SyncInv, Subscription \/ ReceivePolicies \/ ReceiveKeys
    PROVE  SyncInv'
  <1>1. UNCHANGED <<rev, poll, copyRev, strayed, list, call>>
    BY Zenon DEF Subscription, Subscribe, SubscribeFails, Disconnect, Reconnect, ReceivePolicies, ReceiveKeys, Receive,
           keyVars, policyVars
  <1> QED BY <1>1, SyncFrame

(* -------------------------- queries about models ------------------------- *)

\* What Redis owns stays owned, through deletions, failures and evictions.
Grown(s, t) == SourceShape(t) /\ \A n \in Name : s.managed[n] => t.managed[n]

\* What is true of a query stays true when more models are owned.
LEMMA SoundGrows ==
    ASSUME NEW r, NEW docsNow, NEW redis, NEW managed, NEW more,
           QuerySound(r, docsNow, managed, redis), \A n \in Name : managed[n] => more[n]
    PROVE  QuerySound(r, docsNow, more, redis)
  BY Zenon DEF QuerySound, QueryShape, OwnedQuery, TellingQuery, Telling

\* A step of one query.
LEMMA QueryMoves ==
    ASSUME ModelInv, NEW q \in Actor, DOMAIN query' = Actor,
           QuerySound(query'[q], smart, src'.managed, Redis),
           \A x \in Actor : x # q => query'[x] = query[x],
           Grown(src, src'), UNCHANGED <<scene, smart>>
    PROVE  ModelInv'
  <1>1. Redis' = Redis
    BY DEF Redis
  <1>2. \A x \in Actor : QuerySound(query[x], smart, src'.managed, Redis)
    BY SoundGrows, Zenon DEF ModelInv, Grown
  <1>3. \A x \in Actor : QuerySound(query'[x], smart, src'.managed, Redis)
    BY <1>2, Zenon
  <1>4. \A x \in Actor : QuerySound(query'[x], smart', src'.managed, Redis')
    BY <1>1, <1>3, Zenon
  <1> QED BY <1>4 DEF ModelInv, Grown, SourceShape

\* A step that touches neither the queries nor what they rely on.
LEMMA ModelFrame ==
    ASSUME ModelInv, Grown(src, src'), UNCHANGED <<scene, query, smart>>
    PROVE  ModelInv'
  <1>1. Redis' = Redis
    BY DEF Redis
  <1>2. \A x \in Actor : QuerySound(query[x], smart, src'.managed, Redis)
    BY SoundGrows, Zenon DEF ModelInv, Grown
  <1>3. \A x \in Actor : QuerySound(query'[x], smart', src'.managed, Redis')
    BY <1>1, <1>2, Zenon
  <1> QED BY <1>3, Zenon DEF ModelInv, Grown, SourceShape

\* A source that is left alone owns what it owned.
LEMMA SourceSame ==
    ASSUME ModelInv, UNCHANGED src
    PROVE  Grown(src, src')
  BY Zenon DEF ModelInv, Grown

\* A query is answered: with nothing when it was sure of a document, and not from
\* the static configuration when Redis owned the model.
LEMMA AnswerSound ==
    ASSUME NEW r, NEW docsNow, NEW managed, NEW redis, NEW value, NEW from,
           QuerySound(r, docsNow, managed, redis),
           r.sure /\ r.op = "endpoints" => value = {},
           r.owned /\ r.op = "endpoints" => from # "static"
    PROVE  QuerySound(Answer(r, value, from), docsNow, managed, redis)
  <1>1. PICK a : a = Answer(r, value, from)
    BY Zenon
  <1>2. DOMAIN r = QueryFields
    BY DEF QuerySound, QueryShape
  <1>3. /\ DOMAIN a = QueryFields /\ a.at = "end" /\ a.answer = value /\ a.from = from
        /\ a.op = r.op /\ a.goal = r.goal /\ a.model = r.model /\ a.name = r.name
        /\ a.sure = r.sure /\ a.owned = r.owned
    BY <1>1, <1>2 DEF Answer, QueryFields
  <1>4. QueryShape(a)
    BY <1>3, Zenon DEF QuerySound, QueryShape
  <1>5. SureQuery(a, docsNow, redis)
    BY <1>3, Zenon DEF QuerySound, SureQuery
  <1>6. OwnedQuery(a, managed, redis) /\ TellingQuery(a, managed)
    BY <1>3 DEF QuerySound, OwnedQuery, TellingQuery, Telling
  <1> QED BY <1>1, <1>4, <1>5, <1>6 DEF QuerySound

\* ValidateModel and Resolve turn to the next GetSmartRouting.
LEMMA TowardSound ==
    ASSUME NEW r, NEW docsNow, NEW managed, NEW redis, NEW goal \in {"check", "alias", "has"}, NEW m,
           QuerySound(r, docsNow, managed, redis), r.op \in {"validate", "resolve"}
    PROVE  QuerySound(Toward(r, goal, m), docsNow, managed, redis)
  <1>1. PICK a : a = Toward(r, goal, m)
    BY Zenon
  <1>2. DOMAIN r = QueryFields
    BY DEF QuerySound, QueryShape
  <1>3. /\ DOMAIN a = QueryFields /\ a.at = "smart" /\ a.goal = goal /\ a.op = r.op /\ a.name = r.name
        /\ a.sure = r.sure /\ a.owned = r.owned
    BY <1>1, <1>2 DEF Toward, QueryFields
  <1>7. ~a.bad
    BY <1>1, <1>2 DEF Toward, QueryFields
  <1>4. QueryShape(a)
    BY <1>3, <1>7 DEF QuerySound, QueryShape
  <1>5. SureQuery(a, docsNow, redis)
    BY <1>3 DEF QuerySound, SureQuery
  <1>6. OwnedQuery(a, managed, redis) /\ TellingQuery(a, managed)
    BY <1>3 DEF QuerySound, OwnedQuery, TellingQuery, Telling
  <1> QED BY <1>1, <1>4, <1>5, <1>6 DEF QuerySound

\* A query of ValidateModel or Resolve takes any other step.
LEMMA OtherSound ==
    ASSUME NEW r, NEW docsNow, NEW managed, NEW redis, NEW a,
           QuerySound(r, docsNow, managed, redis), r.op \in {"validate", "resolve"},
           DOMAIN a = QueryFields, a.op = r.op, a.goal = r.goal, a.name = r.name,
           a.sure = r.sure, a.owned = r.owned, a.at \in {"tenant", "again", "keep", "normal"}
    PROVE  QuerySound(a, docsNow, managed, redis)
  <1>1. QueryShape(a)
    BY Zenon DEF QuerySound, QueryShape
  <1>2. SureQuery(a, docsNow, redis)
    BY DEF QuerySound, SureQuery
  <1>3. OwnedQuery(a, managed, redis) /\ TellingQuery(a, managed)
    BY DEF QuerySound, OwnedQuery, TellingQuery, Telling
  <1> QED BY <1>1, <1>2, <1>3 DEF QuerySound

\* HasModel is answered.
LEMMA HasModelSound ==
    ASSUME NEW r, NEW docsNow, NEW managed, NEW redis, NEW yes,
           QuerySound(r, docsNow, managed, redis), r.goal \in {"alias", "has"}
    PROVE  QuerySound(HasModel(r, yes), docsNow, managed, redis)
  <1>1. r.op \in {"validate", "resolve"} /\ DOMAIN r = QueryFields
    BY Zenon DEF QuerySound, QueryShape
  <1>2. \A m, goal : goal \in {"check", "alias", "has"} => QuerySound(Toward(r, goal, m), docsNow, managed, redis)
    BY <1>1, TowardSound
  <1>3. QuerySound([r EXCEPT !.isKnown = yes, !.at = "tenant"], docsNow, managed, redis)
    <2>1. PICK a : a = [r EXCEPT !.isKnown = yes, !.at = "tenant"]
      BY Zenon
    <2>2. /\ DOMAIN a = QueryFields /\ a.op = r.op /\ a.goal = r.goal /\ a.name = r.name
          /\ a.sure = r.sure /\ a.owned = r.owned /\ a.at = "tenant"
      BY <1>1, <2>1 DEF QueryFields
    <2>3. QuerySound(a, docsNow, managed, redis)
      BY <1>1, <2>2, OtherSound
    <2> QED BY <2>1, <2>3, Zenon
  <1>4. \A to : QuerySound([r EXCEPT !.answer = to, !.at = "keep"], docsNow, managed, redis)
    <2> SUFFICES ASSUME NEW to PROVE QuerySound([r EXCEPT !.answer = to, !.at = "keep"], docsNow, managed, redis)
      BY Zenon
    <2>1. PICK a : a = [r EXCEPT !.answer = to, !.at = "keep"]
      BY Zenon
    <2>2. /\ DOMAIN a = QueryFields /\ a.op = r.op /\ a.goal = r.goal /\ a.name = r.name
          /\ a.sure = r.sure /\ a.owned = r.owned /\ a.at = "keep"
      BY <1>1, <2>1 DEF QueryFields
    <2>3. QuerySound(a, docsNow, managed, redis)
      BY <1>1, <2>2, OtherSound
    <2> QED BY <2>1, <2>3, Zenon
  <1>5. QuerySound([r EXCEPT !.at = "normal"], docsNow, managed, redis)
    <2>1. PICK a : a = [r EXCEPT !.at = "normal"]
      BY Zenon
    <2>2. /\ DOMAIN a = QueryFields /\ a.op = r.op /\ a.goal = r.goal /\ a.name = r.name
          /\ a.sure = r.sure /\ a.owned = r.owned /\ a.at = "normal"
      BY <1>1, <2>1 DEF QueryFields
    <2>3. QuerySound(a, docsNow, managed, redis)
      BY <1>1, <2>2, OtherSound
    <2> QED BY <2>1, <2>3, Zenon
  <1>6. CASE r.op = "validate" /\ r.goal = "alias"
    <2>1. HasModel(r, yes) = Toward(r, "check", IF yes THEN r.model ELSE r.name)
      BY <1>6 DEF HasModel
    <2> QED BY <1>2, <2>1
  <1>7. CASE r.op = "validate" /\ r.goal = "has"
    <2>1. HasModel(r, yes) = [r EXCEPT !.isKnown = yes, !.at = "tenant"]
      BY <1>7 DEF HasModel
    <2> QED BY <1>3, <2>1
  <1>8. CASE r.op = "resolve" /\ r.goal = "alias"
    <2>1. HasModel(r, yes) = IF yes THEN [r EXCEPT !.answer = r.model, !.at = "keep"] ELSE Toward(r, "has", r.name)
      BY <1>8 DEF HasModel
    <2> QED BY <1>2, <1>4, <2>1, Zenon
  <1>9. CASE r.op = "resolve" /\ r.goal = "has"
    <2>1. HasModel(r, yes) = IF yes THEN [r EXCEPT !.answer = Nil, !.at = "keep"] ELSE [r EXCEPT !.at = "normal"]
      BY <1>9 DEF HasModel
    <2> QED BY <1>4, <1>5, <2>1, Zenon
  <1> QED BY <1>1, <1>6, <1>7, <1>8, <1>9

\* A query takes a step, whatever the source learns meanwhile.
LEMMA QueryTakes ==
    ASSUME ModelInv, NEW q \in Actor, NEW a, QuerySound(a, smart, src.managed, Redis),
           query' = [query EXCEPT ![q] = a], Grown(src, src'), UNCHANGED <<scene, smart>>
    PROVE  ModelInv'
  <1>1. DOMAIN query = Actor
    BY DEF ModelInv
  <1>2. DOMAIN query' = Actor /\ query'[q] = a /\ \A x \in Actor : x # q => query'[x] = query[x]
    BY <1>1
  <1>3. QuerySound(a, smart, src'.managed, Redis)
    BY SoundGrows, Zenon DEF Grown
  <1>4. QuerySound(query'[q], smart, src'.managed, Redis)
    BY <1>2, <1>3, Zenon
  <1> QED BY <1>2, <1>4, QueryMoves, Zenon

\* A query takes a step of its own.
LEMMA QueryAlone ==
    ASSUME ModelInv, NEW q \in Actor, NEW a, QuerySound(a, smart, src.managed, Redis),
           query' = [query EXCEPT ![q] = a], UNCHANGED <<scene, smart, src>>
    PROVE  ModelInv'
  BY SourceSame, QueryTakes, Zenon

\* What is true of a query now.
LEMMA QueryNow ==
    ASSUME ModelInv, NEW q \in Actor
    PROVE  QuerySound(query[q], smart, src.managed, Redis) /\ DOMAIN query[q] = QueryFields
  BY Zenon DEF ModelInv, QuerySound, QueryShape

\* A name more is marked.
LEMMA MarkingGrows ==
    ASSUME NEW f \in [Name -> BOOLEAN], NEW m, NEW g, g = [f EXCEPT ![m] = TRUE]
    PROVE  g \in [Name -> BOOLEAN] /\ \A n \in Name : f[n] => g[n]
  BY Zenon

\* The source remembers that it owns a model, and what it reads of one.
LEMMA OwningGrows ==
    ASSUME NEW s, NEW m, NEW configured, SourceShape(s)
    PROVE  Grown(s, Owning(s, m, configured))
  <1>1. CASE Owning(s, m, configured) = s
    BY <1>1 DEF Grown
  <1>2. CASE Owning(s, m, configured) = [s EXCEPT !.managed[m] = TRUE]
    <2>1. PICK t : t = [s EXCEPT !.managed[m] = TRUE]
      BY Zenon
    <2>2. /\ DOMAIN t = SourceFields /\ t.managed = [s.managed EXCEPT ![m] = TRUE]
          /\ t.smart = s.smart /\ t.err = s.err /\ t.told = s.told
      BY <2>1 DEF SourceShape, SourceFields
    <2>3. t.managed \in [Name -> BOOLEAN] /\ \A n \in Name : s.managed[n] => t.managed[n]
      BY <2>2, MarkingGrows, Zenon DEF SourceShape
    <2>4. Remembers(t)
      BY <2>2, <2>3, Zenon DEF SourceShape, Remembers
    <2> QED BY <1>2, <2>1, <2>2, <2>3, <2>4 DEF Grown, SourceShape
  <1> QED BY <1>1, <1>2 DEF Owning

\* Storing what was found of a smart model never forgets that a model is managed,
\* and a document or an error is stored for a managed one only.
LEMMA AbsorbGrows ==
    ASSUME NEW s, NEW m, NEW doc, NEW wrong, NEW version, SourceShape(s)
    PROVE  /\ Grown(s, Absorb(s, m, doc, wrong, version))
           /\ m \in Name /\ doc # Nil => Absorb(s, m, doc, wrong, version).managed[m]
  <1>1. PICK t : t = Absorb(s, m, doc, wrong, version)
    BY Zenon
  <1>2. CASE doc = Nil
    <2>1. t = [s EXCEPT !.smart[m] = Nil, !.err[m] = FALSE]
      BY <1>1, <1>2 DEF Absorb
    <2>2. /\ DOMAIN t = SourceFields /\ t.managed = s.managed /\ t.told = s.told
          /\ t.smart = [s.smart EXCEPT ![m] = Nil] /\ t.err = [s.err EXCEPT ![m] = FALSE]
      BY <2>1 DEF SourceShape, SourceFields
    <2>3. DOMAIN t.smart = Name /\ DOMAIN t.err = Name /\ DOMAIN t.told = Name
      BY <2>2 DEF SourceShape
    <2>4. \A n \in Name : t.smart[n] \in {Nil, s.smart[n]} /\ (t.err[n] => s.err[n])
      BY <2>2, Zenon DEF SourceShape
    <2>5. Remembers(t)
      BY <2>2, <2>4, Zenon DEF SourceShape, Remembers
    <2> QED BY <1>1, <1>2, <2>2, <2>3, <2>5, Zenon DEF Grown, SourceShape
  <1>3. CASE doc # Nil
    <2>1. t = [s EXCEPT !.managed[m] = TRUE, !.last[m] = version, !.cache[m] = Nil,
                        !.smart[m] = IF wrong THEN Nil ELSE doc, !.err[m] = wrong]
      BY <1>1, <1>3 DEF Absorb
    <2>2. /\ DOMAIN t = SourceFields /\ t.managed = [s.managed EXCEPT ![m] = TRUE] /\ t.told = s.told
          /\ t.smart = [s.smart EXCEPT ![m] = IF wrong THEN Nil ELSE doc] /\ t.err = [s.err EXCEPT ![m] = wrong]
      BY <2>1 DEF SourceShape, SourceFields
    <2>3. t.managed \in [Name -> BOOLEAN]
      BY <2>2, MarkingGrows, Zenon DEF SourceShape
    <2>8. \A n \in Name : s.managed[n] => t.managed[n]
      BY <2>2 DEF SourceShape
    <2>4. DOMAIN t.smart = Name /\ DOMAIN t.err = Name /\ DOMAIN t.told = Name
      BY <2>2 DEF SourceShape
    <2>5. m \in Name => t.managed[m]
      BY <2>2, Zenon DEF SourceShape
    <2>6. \A n \in Name : n # m => t.smart[n] = s.smart[n] /\ t.err[n] = s.err[n]
      BY <2>2, Zenon DEF SourceShape
    <2>7. Remembers(t)
      BY <2>2, <2>5, <2>6, <2>8, Zenon DEF SourceShape, Remembers
    <2> QED BY <1>1, <2>2, <2>3, <2>4, <2>5, <2>7, <2>8, Zenon DEF Grown, SourceShape
  <1> QED BY <1>2, <1>3

\* Nor does any step that only learns of a model.
LEMMA LearningGrows ==
    ASSUME NEW s, NEW m, NEW doc, NEW wrong, NEW version, NEW configured, SourceShape(s)
    PROVE  /\ Grown(s, Owning(Absorb(s, m, doc, wrong, version), m, configured))
           /\ m \in Name /\ doc # Nil => Owning(Absorb(s, m, doc, wrong, version), m, configured).managed[m]
  <1>1. PICK t : t = Absorb(s, m, doc, wrong, version)
    BY Zenon
  <1>2. Grown(s, t) /\ (m \in Name /\ doc # Nil => t.managed[m])
    BY <1>1, AbsorbGrows
  <1>3. Grown(t, Owning(t, m, configured))
    BY <1>2, OwningGrows DEF Grown
  <1> QED BY <1>1, <1>2, <1>3, Zenon DEF Grown

\* The loop over the known models.
LEMMA GlanceAllGrows ==
    ASSUME NEW s, NEW models, SourceShape(s)
    PROVE  Grown(s, GlanceAll(s, models))
  <1>1. \A n : Grown(s, Glance(s, n))
    BY LearningGrows, Zenon DEF Glance
  <1>2. PICK t : t = GlanceAll(s, models)
    BY Zenon
  <1>3. DOMAIN t = SourceFields
    BY <1>2 DEF GlanceAll, SourceShape
  <1>4. t.managed = [n \in Name |-> IF n \in models THEN Glance(s, n).managed[n] ELSE s.managed[n]]
    BY <1>2 DEF GlanceAll, SourceShape, SourceFields
  <1>5. \A n \in Name : Glance(s, n).managed[n] \in BOOLEAN /\ s.managed[n] \in BOOLEAN
    BY <1>1, Zenon DEF Grown, SourceShape
  <1>6. \A n \in Name : s.managed[n] => Glance(s, n).managed[n]
    BY <1>1, Zenon DEF Grown
  <1>7. t.managed \in [Name -> BOOLEAN]
    BY <1>4, <1>5, Zenon
  <1>8. \A n \in Name : s.managed[n] => t.managed[n]
    BY <1>4, <1>6, Zenon
  <1>9. /\ t.smart = [n \in Name |-> IF n \in models THEN Glance(s, n).smart[n] ELSE s.smart[n]]
        /\ t.err = [n \in Name |-> IF n \in models THEN Glance(s, n).err[n] ELSE s.err[n]]
        /\ t.told = [n \in Name |-> IF n \in models THEN Glance(s, n).told[n] ELSE s.told[n]]
    BY <1>2 DEF GlanceAll, SourceShape, SourceFields
  <1>10. ASSUME NEW n \in Name, t.smart[n] # Nil \/ t.err[n] \/ t.told[n]
         PROVE  t.managed[n]
    <2>1. CASE n \in models
      <3>1. PICK g : g = Glance(s, n)
        BY Zenon
      <3>2. g.smart[n] # Nil \/ g.err[n] \/ g.told[n] => g.managed[n]
        BY <1>1, <3>1, Zenon DEF Grown, SourceShape, Remembers
      <3>3. t.managed[n] = g.managed[n] /\ t.smart[n] = g.smart[n] /\ t.err[n] = g.err[n] /\ t.told[n] = g.told[n]
        BY <1>4, <1>9, <2>1, <3>1
      <3> QED BY <1>10, <3>2, <3>3, Zenon
    <2>2. CASE n \notin models
      BY <1>4, <1>9, <1>10, <2>2, Zenon DEF SourceShape, Remembers
    <2> QED BY <2>1, <2>2
  <1>11. Remembers(t)
    BY <1>10 DEF Remembers
  <1>12. DOMAIN t.smart = Name /\ DOMAIN t.err = Name /\ DOMAIN t.told = Name
    BY <1>9
  <1> QED BY <1>2, <1>3, <1>7, <1>8, <1>11, <1>12 DEF Grown, SourceShape

\* A step of a query that leaves its question alone and holds on to its document.
LEMMA SeekingSound ==
    ASSUME NEW r, NEW docsNow, NEW managed, NEW redis, NEW a,
           QuerySound(r, docsNow, managed, redis),
           DOMAIN a = QueryFields, a.op = r.op, a.goal = r.goal, a.model = r.model, a.name = r.name,
           a.owned = r.owned, a.from = r.from, a.at \notin {"end", "alias", "smart"},
           a.at \in {"smart", "deps", "fill", "static", "nested", "resolved"} =>
               a.goal \in {"endpoints", "check", "alias", "has"},
           a.at = "exists" => a.goal \in {"alias", "has"},
           a.at \in {"list", "fetch", "version", "store", "default"} => a.goal = "endpoints",
           a.at = "static" => ~(r.owned /\ r.op = "endpoints"),
           a.at \in {"deps", "nested"} \/ (a.at = "fill" /\ a.bad) => a.doc # Nil,
           a.at \in {"nested", "resolved"} => TellingQuery(a, managed),
           a.sure => r.sure /\ (r.op = "endpoints" => Holding(a))
    PROVE  QuerySound(a, docsNow, managed, redis)
  <1>1. QueryShape(a)
    BY Zenon DEF QuerySound, QueryShape
  <1>2. SureQuery(a, docsNow, redis)
    BY Zenon DEF QuerySound, SureQuery
  <1>3. OwnedQuery(a, managed, redis)
    BY Zenon DEF QuerySound, OwnedQuery
  <1>4. TellingQuery(a, managed)
    BY Zenon DEF TellingQuery, Telling
  <1> QED BY <1>1, <1>2, <1>3, <1>4 DEF QuerySound

\* A request asks about its model: what it is sure of and what Redis owns is noted.
LEMMA StartQueryStep ==
    ASSUME ModelInv, NEW q \in Actor, StartQuery(q)
    PROVE  ModelInv'
  <1>1. UNCHANGED <<scene, smart, src>>
    BY Zenon DEF StartQuery, syncVars
  <1> DEFINE Begun(op, n) == [NoQuery EXCEPT !.op = op, !.name = n, !.sure = Redis /\ smart[n] # Nil,
                                            !.owned = Redis /\ src.told[n]]
             Moved(r, op, n) ==
                 CASE op = "endpoints" -> Toward(r, "endpoints", n)
                   [] op = "validate"  -> IF StaticAlias(n) # Nil THEN Toward(r, "alias", StaticAlias(n))
                                          ELSE Toward(r, "check", n)
                   [] op = "resolve"   -> IF known[n] # Nil THEN Answer(r, known[n], Nil)
                                          ELSE [r EXCEPT !.at = "alias"]
  <1>2. PICK op \in scene.ops, n \in scene.names : query' = [query EXCEPT ![q] = Moved(Begun(op, n), op, n)]
    BY Zenon DEF StartQuery
  <1>3. PICK r, a : r = Begun(op, n) /\ a = Moved(r, op, n) /\ query' = [query EXCEPT ![q] = a]
    BY <1>2, Zenon
  <1>4. op \in {"endpoints", "validate", "resolve"} /\ n \in Name /\ Nil \notin {"endpoints", "static"}
    BY SceneAssumption DEF ModelInv
  <1>5. /\ DOMAIN r = QueryFields /\ r.op = op /\ r.name = n /\ r.at = "end" /\ r.from = Nil /\ r.goal = Nil
        /\ (r.sure => Redis /\ smart[n] # Nil) /\ (r.owned => Redis /\ src.told[n])
    BY <1>3, Zenon DEF NoQuery, QueryFields
  <1>8. r.owned => Redis /\ src.managed[n]
    BY <1>4, <1>5, Zenon DEF ModelInv, SourceShape, Remembers
  <1>6. CASE op = "endpoints"
    <2>1. a = Toward(r, "endpoints", n)
      BY <1>3, <1>6
    <2>2. /\ DOMAIN a = QueryFields /\ a.op = op /\ a.goal = "endpoints" /\ a.at = "smart" /\ a.name = n
          /\ a.model = n /\ a.sure = r.sure /\ a.owned = r.owned /\ a.from = Nil /\ a.bad = FALSE
      BY <1>5, <2>1 DEF Toward, QueryFields
    <2>3. QueryShape(a)
      BY <1>4, <1>6, <2>2 DEF QueryShape
    <2>4. SureQuery(a, smart, Redis) /\ OwnedQuery(a, src.managed, Redis) /\ TellingQuery(a, src.managed)
      BY <1>4, <1>5, <1>8, <2>2 DEF SureQuery, OwnedQuery, TellingQuery, Telling
    <2>5. QuerySound(a, smart, src.managed, Redis)
      BY <2>3, <2>4 DEF QuerySound
    <2> QED BY <1>1, <1>3, <2>5, QueryAlone, Zenon
  <1>7. CASE op \in {"validate", "resolve"}
    <2>1. QuerySound(r, smart, src.managed, Redis)
      <3>1. QueryShape(r)
        BY <1>4, <1>5, <1>7 DEF QueryShape
      <3>2. SureQuery(r, smart, Redis) /\ OwnedQuery(r, src.managed, Redis) /\ TellingQuery(r, src.managed)
        BY <1>4, <1>5, <1>7, <1>8 DEF SureQuery, OwnedQuery, TellingQuery, Telling
      <3> QED BY <3>1, <3>2 DEF QuerySound
    <2>2. \A goal \in {"alias", "check"} : \A m : QuerySound(Toward(r, goal, m), smart, src.managed, Redis)
      BY <1>5, <1>7, <2>1, TowardSound, Zenon
    <2>3. \A value : QuerySound(Answer(r, value, Nil), smart, src.managed, Redis)
      BY <1>4, <1>5, <1>7, <2>1, AnswerSound, Zenon
    <2>4. ASSUME op = "resolve"
          PROVE  QuerySound([r EXCEPT !.at = "alias"], smart, src.managed, Redis)
      <3>1. PICK b : b = [r EXCEPT !.at = "alias"]
        BY Zenon
      <3>2. /\ DOMAIN b = QueryFields /\ b.op = op /\ b.goal = r.goal /\ b.at = "alias" /\ b.name = n
            /\ b.sure = r.sure /\ b.owned = r.owned /\ b.model = r.model
        BY <1>5, <3>1 DEF QueryFields
      <3>3. QueryShape(b)
        BY <1>4, <1>5, <2>4, <3>2 DEF QueryShape
      <3>4. SureQuery(b, smart, Redis) /\ OwnedQuery(b, src.managed, Redis) /\ TellingQuery(b, src.managed)
        BY <1>4, <1>5, <1>7, <1>8, <3>2 DEF SureQuery, OwnedQuery, TellingQuery, Telling
      <3> QED BY <3>1, <3>3, <3>4 DEF QuerySound
    <2>5. \/ \E goal \in {"alias", "check"} : \E m : a = Toward(r, goal, m)
          \/ \E value : a = Answer(r, value, Nil)
          \/ op = "resolve" /\ a = [r EXCEPT !.at = "alias"]
      BY <1>3, <1>7
    <2>6. QuerySound(a, smart, src.managed, Redis)
      BY <2>2, <2>3, <2>4, <2>5, Zenon
    <2> QED BY <1>1, <1>3, <2>6, QueryAlone, Zenon
  <1> QED BY <1>4, <1>6, <1>7

\* The pipeline of GetSmartRouting.
LEMMA ReadSmartStep ==
    ASSUME ModelInv, NEW q \in Actor, ReadSmart(q)
    PROVE  ModelInv'
  <1>1. UNCHANGED <<scene, smart, src>>
    BY Zenon DEF ReadSmart, syncVars
  <1>2. PICK r, m, a :
            /\ r = query[q] /\ m = r.model /\ r.at = "smart"
            /\ a = IF ~Redis THEN [r EXCEPT !.at = "static"]
                   ELSE IF smart[m] = Nil THEN [r EXCEPT !.at = "fill", !.isKnown = eps[m] # Nil, !.ver = 0]
                   ELSE [r EXCEPT !.doc = smart[m], !.ver = ver[m], !.bad = ~ValidDoc(m, smart[m]),
                                  !.at = IF ValidDoc(m, smart[m]) THEN "deps" ELSE "fill"]
            /\ query' = [query EXCEPT ![q] = a]
    BY Zenon DEF ReadSmart
  <1>3. QuerySound(r, smart, src.managed, Redis) /\ DOMAIN r = QueryFields
    BY <1>2, QueryNow
  <1>4. /\ DOMAIN a = QueryFields /\ a.op = r.op /\ a.goal = r.goal /\ a.model = r.model /\ a.name = r.name
        /\ a.owned = r.owned /\ a.sure = r.sure /\ a.from = r.from /\ a.at \in {"static", "fill", "deps"}
    BY <1>2, <1>3 DEF QueryFields
  <1>5. Redis /\ smart[m] # Nil => a.at \in {"fill", "deps"} /\ a.doc # Nil
    BY <1>2, <1>3 DEF QueryFields
  <1>6. r.goal \in {"endpoints", "check", "alias", "has"} /\ ~r.bad /\ (r.owned => Redis)
    BY <1>2, <1>3 DEF QuerySound, QueryShape, OwnedQuery
  <1>9. (a.at = "static" => ~Redis) /\ (a.at = "deps" \/ (a.at = "fill" /\ a.bad) => a.doc # Nil)
    BY <1>2, <1>3, <1>6 DEF QueryFields
  <1>7. r.sure /\ r.op = "endpoints" => Redis /\ smart[m] # Nil
    BY <1>2, <1>3 DEF QuerySound, QueryShape, SureQuery
  <1>8. QuerySound(a, smart, src.managed, Redis)
    BY <1>3, <1>4, <1>5, <1>6, <1>7, <1>9, SeekingSound, Zenon DEF Holding
  <1> QED BY <1>1, <1>2, <1>8, QueryAlone, Zenon

\* The dependencies are looked at, or Redis fails then.
LEMMA CheckDepsSteps ==
    ASSUME ModelInv, NEW q \in Actor, CheckDeps(q) \/ CheckDepsFails(q)
    PROVE  ModelInv'
  <1>1. UNCHANGED <<scene, smart, src>>
    BY Zenon DEF CheckDeps, CheckDepsFails, syncVars
  <1>2. PICK r : r = query[q]
    BY Zenon
  <1>3. QuerySound(r, smart, src.managed, Redis) /\ DOMAIN r = QueryFields /\ r.at = "deps" /\ DOMAIN query = Actor
    BY <1>2, QueryNow DEF CheckDeps, CheckDepsFails, ModelInv
  <1>4. PICK wrong : query' = [query EXCEPT ![q].at = "fill", ![q].bad = wrong]
    BY Zenon DEF CheckDeps, CheckDepsFails
  <1>5. PICK a : a = [r EXCEPT !.at = "fill", !.bad = wrong]
    BY Zenon
  <1>6. query' = [query EXCEPT ![q] = a]
    BY <1>2, <1>3, <1>4, <1>5, Zenon
  <1>7. /\ DOMAIN a = QueryFields /\ a.op = r.op /\ a.goal = r.goal /\ a.model = r.model /\ a.name = r.name
        /\ a.owned = r.owned /\ a.sure = r.sure /\ a.from = r.from /\ a.at = "fill" /\ a.doc = r.doc
    BY <1>3, <1>5 DEF QueryFields
  <1>8. r.goal \in {"endpoints", "check", "alias", "has"} /\ r.doc # Nil
    BY <1>3, Zenon DEF QuerySound, QueryShape
  <1>9. QuerySound(a, smart, src.managed, Redis)
    BY <1>3, <1>7, <1>8, SeekingSound, Zenon DEF Holding
  <1> QED BY <1>1, <1>6, <1>9, QueryAlone, Zenon

\* Redis does not answer: a query stays sure of a document when the source holds
\* one, or the error of one.
LEMMA ReadSmartFailsStep ==
    ASSUME ModelInv, NEW q \in Actor, ReadSmartFails(q)
    PROVE  ModelInv'
  <1>1. UNCHANGED <<scene, smart>>
    BY Zenon DEF ReadSmartFails
  <1>2. PICK r : r = query[q]
    BY Zenon
  <1>3. QuerySound(r, smart, src.managed, Redis) /\ DOMAIN r = QueryFields /\ r.at = "smart" /\ SourceShape(src)
    BY <1>2, QueryNow, Zenon DEF ReadSmartFails, ModelInv
  <1> DEFINE d == src.smart[query[q].model]
             w == src.smart[query[q].model] = Nil /\ src.err[query[q].model]
             h == src.smart[query[q].model] # Nil \/ src.err[query[q].model]
             c == h \/ src.managed[query[q].model]
  <1>a. /\ query' = [query EXCEPT ![q] = [Found(query[q], d, w, c) EXCEPT !.sure = @ /\ h]]
        /\ src' = Owning(src, query[q].model, c)
    BY Zenon DEF ReadSmartFails
  <1>b. PICK doc, wrong, held, configured : doc = d /\ wrong = w /\ held = h /\ configured = c
    BY Zenon
  <1>c. /\ doc = src.smart[r.model] /\ wrong = (doc = Nil /\ src.err[r.model])
        /\ held = (doc # Nil \/ src.err[r.model]) /\ configured = (held \/ src.managed[r.model])
    BY <1>2, <1>b, Zenon
  <1>4. /\ doc = src.smart[r.model] /\ wrong = (doc = Nil /\ src.err[r.model])
        /\ held = (doc # Nil \/ src.err[r.model]) /\ configured = (held \/ src.managed[r.model])
        /\ query' = [query EXCEPT ![q] = [Found(r, doc, wrong, configured) EXCEPT !.sure = @ /\ held]]
        /\ src' = Owning(src, r.model, configured)
    <2> HIDE DEF d, w, h, c
    <2>1. query' = [query EXCEPT ![q] = [Found(r, doc, wrong, configured) EXCEPT !.sure = @ /\ held]]
      BY <1>2, <1>a, <1>b
    <2>2. src' = Owning(src, r.model, configured)
      BY <1>2, <1>a, <1>b
    <2> QED BY <1>c, <2>1, <2>2, Zenon
  <1> HIDE DEF d, w, h, c
  <1>5. PICK f, a : f = Found(r, doc, wrong, configured) /\ a = [f EXCEPT !.sure = @ /\ held]
    BY Zenon
  <1>6. query' = [query EXCEPT ![q] = a]
    BY <1>4, <1>5, Zenon
  <1>7. /\ DOMAIN f = QueryFields /\ f.op = r.op /\ f.goal = r.goal /\ f.model = r.model /\ f.name = r.name
        /\ f.owned = r.owned /\ f.sure = r.sure /\ f.from = r.from /\ f.doc = doc /\ f.bad = wrong
        /\ f.at = IF ~configured THEN "static" ELSE IF wrong \/ doc = Nil THEN "resolved" ELSE "nested"
    BY <1>3, <1>5 DEF Found, QueryFields
  <1>8. /\ DOMAIN a = QueryFields /\ a.op = r.op /\ a.goal = r.goal /\ a.model = r.model /\ a.name = r.name
        /\ a.owned = r.owned /\ a.from = r.from /\ a.doc = doc /\ a.bad = wrong /\ a.at = f.at
        /\ a.sure = (r.sure /\ held)
    BY <1>5, <1>7 DEF QueryFields
  <1>9. /\ r.goal \in {"endpoints", "check", "alias", "has"} /\ (r.op = "endpoints" => r.model = r.name /\ r.name \in Name)
        /\ (r.owned /\ r.op = "endpoints" => src.managed[r.model])
    BY <1>3, Zenon DEF QuerySound, QueryShape, OwnedQuery
  <1>10. a.at \in {"static", "resolved", "nested"} /\ (a.at = "static" => ~configured) /\ (a.at = "nested" => doc # Nil)
    BY <1>7, <1>8
  <1>11. TellingQuery(a, src.managed)
    BY <1>3, <1>4, <1>8, <1>9, Zenon DEF TellingQuery, Telling, SourceShape, Remembers
  <1>12. a.sure /\ r.op = "endpoints" => Holding(a)
    <2>1. held => configured /\ (doc # Nil \/ wrong)
      BY <1>4, Zenon
    <2> QED BY <1>8, <1>10, <2>1, Zenon DEF Holding
  <1>13. QuerySound(a, smart, src.managed, Redis)
    BY <1>3, <1>4, <1>8, <1>9, <1>10, <1>11, <1>12, SeekingSound, Zenon
  <1>14. Grown(src, src')
    BY <1>3, <1>4, OwningGrows
  <1> QED BY <1>1, <1>6, <1>13, <1>14, QueryTakes, Zenon

\* The source keeps what was read; a document found is the query's document, and
\* the source remembers its model.
LEMMA FillSmartStep ==
    ASSUME ModelInv, NEW q \in Actor, FillSmart(q)
    PROVE  ModelInv'
  <1>1. UNCHANGED <<scene, smart>>
    BY Zenon DEF FillSmart, syncVars
  <1>2. PICK r : r = query[q]
    BY Zenon
  <1>3. /\ QuerySound(r, smart, src.managed, Redis) /\ DOMAIN r = QueryFields /\ r.at = "fill" /\ SourceShape(src)
        /\ DOMAIN query = Actor
    BY <1>2, QueryNow DEF FillSmart, ModelInv
  <1>4. PICK configured :
            /\ configured = (r.doc # Nil \/ r.isKnown \/ src.managed[r.model])
            /\ query' = [query EXCEPT ![q] = [Found(r, r.doc, r.bad, configured) EXCEPT !.isKnown = FALSE]]
            /\ src' = Owning(Absorb(src, r.model, r.doc, r.bad, r.ver), r.model, configured)
    BY <1>2, Zenon DEF FillSmart
  <1>5. PICK f, a : f = Found(r, r.doc, r.bad, configured) /\ a = [f EXCEPT !.isKnown = FALSE]
    BY Zenon
  <1>6. query' = [query EXCEPT ![q] = a]
    BY <1>4, <1>5, Zenon
  <1>7. /\ DOMAIN f = QueryFields /\ f.op = r.op /\ f.goal = r.goal /\ f.model = r.model /\ f.name = r.name
        /\ f.owned = r.owned /\ f.sure = r.sure /\ f.from = r.from /\ f.doc = r.doc /\ f.bad = r.bad
        /\ f.at = IF ~configured THEN "static" ELSE IF r.bad \/ r.doc = Nil THEN "resolved" ELSE "nested"
    BY <1>3, <1>5 DEF Found, QueryFields
  <1>8. /\ DOMAIN a = QueryFields /\ a.op = r.op /\ a.goal = r.goal /\ a.model = r.model /\ a.name = r.name
        /\ a.owned = r.owned /\ a.sure = r.sure /\ a.from = r.from /\ a.doc = r.doc /\ a.bad = r.bad /\ a.at = f.at
    BY <1>5, <1>7 DEF QueryFields
  <1>9. /\ r.goal \in {"endpoints", "check", "alias", "has"} /\ (r.op = "endpoints" => r.model = r.name /\ r.name \in Name)
        /\ (r.owned /\ r.op = "endpoints" => src.managed[r.model]) /\ (r.bad => r.doc # Nil)
        /\ (r.sure /\ r.op = "endpoints" => r.doc # Nil)
    BY <1>3, Zenon DEF QuerySound, QueryShape, OwnedQuery, SureQuery, Holding
  <1>10. a.at \in {"static", "resolved", "nested"} /\ (a.at = "static" => ~configured) /\ (a.at = "nested" => r.doc # Nil)
    BY <1>7, <1>8
  <1>11. Grown(src, src') /\ (r.model \in Name /\ r.doc # Nil => src'.managed[r.model])
    BY <1>3, <1>4, LearningGrows
  <1>12. QuerySound(r, smart, src'.managed, Redis)
    BY <1>3, <1>11, SoundGrows, Zenon DEF Grown
  <1>13. TellingQuery(a, src'.managed)
    BY <1>8, <1>9, <1>11, Zenon DEF TellingQuery, Telling
  <1>14. r.sure /\ r.op = "endpoints" => Holding(a)
    BY <1>4, <1>8, <1>9, <1>10, Zenon DEF Holding
  <1>15. QuerySound(a, smart, src'.managed, Redis)
    BY <1>4, <1>8, <1>9, <1>10, <1>12, <1>13, <1>14, SeekingSound, Zenon
  <1>16. DOMAIN query' = Actor /\ query'[q] = a /\ \A x \in Actor : x # q => query'[x] = query[x]
    BY <1>3, <1>6
  <1>17. QuerySound(query'[q], smart, src'.managed, Redis)
    BY <1>15, <1>16, Zenon
  <1> QED BY <1>1, <1>11, <1>16, <1>17, QueryMoves, Zenon

\* The static definition.
LEMMA ReadStaticStep ==
    ASSUME ModelInv, NEW q \in Actor, ReadStatic(q)
    PROVE  ModelInv'
  <1>1. UNCHANGED <<scene, smart, src>>
    BY Zenon DEF ReadStatic, syncVars
  <1>2. PICK r : r = query[q]
    BY Zenon
  <1>3. QuerySound(r, smart, src.managed, Redis) /\ r.at = "static"
    BY <1>2, QueryNow, Zenon DEF ReadStatic
  <1>4. PICK doc, wrong, f, a :
            /\ f = Found(r, doc, wrong, TRUE) /\ a = [f EXCEPT !.from = "static"]
            /\ query' = [query EXCEPT ![q] = a]
    BY <1>2, Zenon DEF ReadStatic
  <1>5. /\ r.goal \in {"endpoints", "check", "alias", "has"} /\ ~(r.sure /\ r.op = "endpoints")
        /\ ~(r.owned /\ r.op = "endpoints") /\ DOMAIN r = QueryFields
    BY <1>3 DEF QuerySound, QueryShape, SureQuery, OwnedQuery, Holding
  <1>6. /\ DOMAIN f = QueryFields /\ f.op = r.op /\ f.goal = r.goal /\ f.model = r.model /\ f.name = r.name
        /\ f.owned = r.owned /\ f.sure = r.sure /\ f.at \in {"nested", "resolved"} /\ (f.at = "nested" => f.doc # Nil)
    BY <1>4, <1>5 DEF Found, QueryFields
  <1>7. /\ DOMAIN a = QueryFields /\ a.op = r.op /\ a.goal = r.goal /\ a.model = r.model /\ a.name = r.name
        /\ a.owned = r.owned /\ a.sure = r.sure /\ a.at = f.at /\ a.doc = f.doc /\ a.from = "static"
    BY <1>4, <1>6 DEF QueryFields
  <1>8. QueryShape(a)
    BY <1>3, <1>5, <1>6, <1>7, Zenon DEF QuerySound, QueryShape
  <1>9. SureQuery(a, smart, Redis) /\ OwnedQuery(a, src.managed, Redis) /\ TellingQuery(a, src.managed)
    BY <1>3, <1>5, <1>7, Zenon DEF QuerySound, SureQuery, OwnedQuery, TellingQuery, Telling
  <1>10. QuerySound(a, smart, src.managed, Redis)
    BY <1>8, <1>9 DEF QuerySound
  <1> QED BY <1>1, <1>4, <1>10, QueryAlone, Zenon

\* A dependency is accepted or refused: the document stays the query's.
LEMMA RefusedSound ==
    ASSUME NEW r, NEW docsNow, NEW managed, NEW redis, NEW yes, NEW d,
           QuerySound(r, docsNow, managed, redis), r.at = "nested"
    PROVE  QuerySound(Refused(r, yes, d), docsNow, managed, redis)
  <1>1. PICK a : a = Refused(r, yes, d)
    BY Zenon
  <1>2. DOMAIN r = QueryFields
    BY DEF QuerySound, QueryShape
  <1>3. /\ DOMAIN a = QueryFields /\ a.op = r.op /\ a.goal = r.goal /\ a.model = r.model /\ a.name = r.name
        /\ a.owned = r.owned /\ a.sure = r.sure /\ a.from = r.from /\ a.doc = r.doc /\ a.at \in {"nested", "resolved"}
    BY <1>1, <1>2 DEF Refused, QueryFields
  <1>4. r.goal \in {"endpoints", "check", "alias", "has"} /\ r.doc # Nil
    BY DEF QuerySound, QueryShape
  <1>5. TellingQuery(a, managed)
    BY <1>3, <1>4, Zenon DEF QuerySound, TellingQuery, Telling
  <1>6. QuerySound(a, docsNow, managed, redis)
    BY <1>3, <1>4, <1>5, SeekingSound, Zenon DEF Holding
  <1> QED BY <1>1, <1>6, Zenon

\* The dependencies of a smart model are looked up one at a time by the manager.
LEMMA CheckNestedSteps ==
    ASSUME ModelInv, NEW q \in Actor, CheckNested(q) \/ CheckNestedFails(q)
    PROVE  ModelInv'
  <1>1. UNCHANGED <<scene, smart>>
    BY Zenon DEF CheckNested, CheckNestedFails, syncVars
  <1>2. PICK r : r = query[q]
    BY Zenon
  <1>3. QuerySound(r, smart, src.managed, Redis) /\ r.at = "nested" /\ SourceShape(src)
    BY <1>2, QueryNow, Zenon DEF CheckNested, CheckNestedFails, ModelInv
  <1>4. PICK yes, d :
            /\ query' = [query EXCEPT ![q] = Refused(r, yes, d)]
            /\ src' \in {src, Glance(src, d)} \cup {Owning(src, d, c) : c \in BOOLEAN}
    <2>1. CASE CheckNested(q)
      BY <1>2, <2>1, Zenon DEF CheckNested
    <2>2. CASE CheckNestedFails(q)
      <3>1. PICK d \in r.todo :
                /\ src' = Owning(src, d, (src.smart[d] # Nil \/ src.err[d]) \/ src.managed[d])
                /\ \E yes : query' = [query EXCEPT ![q] = Refused(r, yes, d)]
        BY <1>2, <2>2, Zenon DEF CheckNestedFails
      <3>2. ((src.smart[d] # Nil \/ src.err[d]) \/ src.managed[d]) \in BOOLEAN
        BY Zenon
      <3> QED BY <3>1, <3>2, Zenon
    <2> QED BY <2>1, <2>2
  <1>5. Grown(src, src')
    <2>1. Grown(src, src)
      BY <1>3 DEF Grown
    <2>2. Grown(src, Glance(src, d))
      BY <1>3, LearningGrows, Zenon DEF Glance
    <2>3. \A c : Grown(src, Owning(src, d, c))
      BY <1>3, OwningGrows
    <2> QED BY <1>4, <2>1, <2>2, <2>3, Zenon
  <1>6. PICK a : a = Refused(r, yes, d)
    BY Zenon
  <1>7. QuerySound(a, smart, src.managed, Redis)
    BY <1>3, <1>6, RefusedSound
  <1>8. query' = [query EXCEPT ![q] = a]
    BY <1>4, <1>6, Zenon
  <1> QED BY <1>1, <1>5, <1>7, <1>8, QueryTakes, Zenon

\* GetSmartRouting returns: a query sure of its document is answered with nothing.
LEMMA ResolvedStep ==
    ASSUME ModelInv, NEW q \in Actor, Resolved(q)
    PROVE  ModelInv'
  <1>1. UNCHANGED <<scene, smart>>
    BY Zenon DEF Resolved, syncVars
  <1>2. PICK r : r = query[q]
    BY Zenon
  <1>3. QuerySound(r, smart, src.managed, Redis) /\ DOMAIN r = QueryFields /\ r.at = "resolved" /\ SourceShape(src)
    BY <1>2, QueryNow, Zenon DEF Resolved, ModelInv
  <1>4. PICK a :
            /\ a = CASE r.goal = "endpoints" -> IF r.doc = Nil /\ ~r.bad THEN [r EXCEPT !.at = "list"]
                                                ELSE Answer(r, {}, r.from)
                     [] r.goal = "check" -> IF r.bad THEN Answer(r, "error", Nil) ELSE Toward(r, "has", r.model)
                     [] OTHER -> IF r.bad THEN HasModel(r, FALSE)
                                 ELSE IF r.doc # Nil THEN HasModel(r, TRUE) ELSE [r EXCEPT !.at = "exists"]
            /\ query' = [query EXCEPT ![q] = a]
    BY <1>2, Zenon DEF Resolved
  <1>5. /\ r.goal \in {"endpoints", "check", "alias", "has"} /\ (r.op = "endpoints" <=> r.goal = "endpoints")
        /\ (r.sure /\ r.op = "endpoints" => r.doc # Nil \/ r.bad)
        /\ (r.owned /\ r.op = "endpoints" => r.from # "static")
        /\ (r.goal \in {"check", "alias", "has"} => r.op \in {"validate", "resolve"})
    BY <1>3, Zenon DEF QuerySound, QueryShape, SureQuery, OwnedQuery, Holding
  <1>9. Grown(src, src')
    <2>1. CASE r.goal = "endpoints" /\ ~(r.doc = Nil /\ ~r.bad) /\ r.from # "static"
      <3>1. src' = [src EXCEPT !.told[r.model] = TRUE]
        BY <1>2, <2>1, Zenon DEF Resolved
      <3>2. /\ DOMAIN src' = SourceFields /\ src'.managed = src.managed /\ src'.smart = src.smart /\ src'.err = src.err
            /\ src'.told = [src.told EXCEPT ![r.model] = TRUE]
        BY <1>3, <3>1 DEF SourceShape, SourceFields
      <3>3. src.managed[r.model]
        BY <1>3, <1>5, <2>1, Zenon DEF QuerySound, QueryShape, TellingQuery, Telling
      <3>4. \A n \in Name : n # r.model => src'.told[n] = src.told[n]
        BY <1>3, <3>2, Zenon DEF SourceShape
      <3>5. Remembers(src')
        BY <1>3, <3>2, <3>3, <3>4, Zenon DEF SourceShape, Remembers
      <3>6. DOMAIN src'.told = Name
        BY <1>3, <3>2 DEF SourceShape
      <3> QED BY <1>3, <3>2, <3>5, <3>6, Zenon DEF Grown, SourceShape
    <2>2. CASE ~(r.goal = "endpoints" /\ ~(r.doc = Nil /\ ~r.bad) /\ r.from # "static")
      <3>1. UNCHANGED src
        BY <1>2, <2>2, Zenon DEF Resolved
      <3> QED BY <3>1, SourceSame
    <2> QED BY <2>1, <2>2
  <1>6. CASE r.goal = "endpoints"
    <2>1. a = IF r.doc = Nil /\ ~r.bad THEN [r EXCEPT !.at = "list"] ELSE Answer(r, {}, r.from)
      BY <1>4, <1>6
    <2>2. QuerySound(Answer(r, {}, r.from), smart, src.managed, Redis)
      BY <1>3, <1>5, AnswerSound
    <2>3. CASE r.doc = Nil /\ ~r.bad
      <3>1. a = [r EXCEPT !.at = "list"]
        BY <2>1, <2>3
      <3>2. /\ DOMAIN a = QueryFields /\ a.op = r.op /\ a.goal = r.goal /\ a.model = r.model /\ a.name = r.name
            /\ a.owned = r.owned /\ a.sure = r.sure /\ a.from = r.from /\ a.at = "list"
        BY <1>3, <3>1 DEF QueryFields
      <3>3. QuerySound(a, smart, src.managed, Redis)
        BY <1>3, <1>5, <1>6, <2>3, <3>2, SeekingSound, Zenon
      <3> QED BY <1>1, <1>4, <1>9, <3>3, QueryTakes, Zenon
    <2>4. CASE ~(r.doc = Nil /\ ~r.bad)
      <3>1. QuerySound(a, smart, src.managed, Redis)
        BY <2>1, <2>2, <2>4
      <3> QED BY <1>1, <1>4, <1>9, <3>1, QueryTakes, Zenon
    <2> QED BY <2>3, <2>4
  <1>7. CASE r.goal = "check"
    <2>1. a = IF r.bad THEN Answer(r, "error", Nil) ELSE Toward(r, "has", r.model)
      BY <1>4, <1>7
    <2>2. QuerySound(Answer(r, "error", Nil), smart, src.managed, Redis)
      BY <1>3, <1>5, <1>7, AnswerSound, SceneAssumption, Zenon
    <2>3. QuerySound(Toward(r, "has", r.model), smart, src.managed, Redis)
      BY <1>3, <1>5, <1>7, TowardSound
    <2>4. QuerySound(a, smart, src.managed, Redis)
      BY <2>1, <2>2, <2>3, Zenon
    <2> QED BY <1>1, <1>4, <1>9, <2>4, QueryTakes, Zenon
  <1>8. CASE r.goal \in {"alias", "has"}
    <2>1. a = IF r.bad THEN HasModel(r, FALSE)
              ELSE IF r.doc # Nil THEN HasModel(r, TRUE) ELSE [r EXCEPT !.at = "exists"]
      BY <1>4, <1>8, Zenon
    <2>2. \A yes : QuerySound(HasModel(r, yes), smart, src.managed, Redis)
      BY <1>3, <1>8, HasModelSound
    <2>3. QuerySound([r EXCEPT !.at = "exists"], smart, src.managed, Redis)
      <3>1. PICK b : b = [r EXCEPT !.at = "exists"]
        BY Zenon
      <3>2. /\ DOMAIN b = QueryFields /\ b.op = r.op /\ b.goal = r.goal /\ b.model = r.model /\ b.name = r.name
            /\ b.owned = r.owned /\ b.sure = r.sure /\ b.from = r.from /\ b.at = "exists"
        BY <1>3, <3>1 DEF QueryFields
      <3>3. QuerySound(b, smart, src.managed, Redis)
        BY <1>3, <1>5, <1>8, <3>2, SeekingSound, Zenon
      <3> QED BY <3>1, <3>3, Zenon
    <2>4. QuerySound(a, smart, src.managed, Redis)
      BY <2>1, <2>2, <2>3, Zenon
    <2> QED BY <1>1, <1>4, <1>9, <2>4, QueryTakes, Zenon
  <1> QED BY <1>5, <1>6, <1>7, <1>8

\* RedisConfigSource.GetEndpoints, from the cache to the stored answer: only a
\* query that was never sure of a document comes here.
LEMMA FetchSteps ==
    ASSUME ModelInv, NEW q \in Actor,
           List(q) \/ Fetch(q) \/ FetchFails(q) \/ FetchVersion(q) \/ StoreList(q)
    PROVE  ModelInv'
  <1>1. UNCHANGED <<scene, smart>>
    BY Zenon DEF List, Fetch, FetchFails, FetchVersion, StoreList, syncVars
  <1>2. PICK r : r = query[q]
    BY Zenon
  <1>3. /\ QuerySound(r, smart, src.managed, Redis) /\ DOMAIN r = QueryFields /\ SourceShape(src)
        /\ r.at \in {"list", "fetch", "version", "store"} /\ DOMAIN query = Actor
    BY <1>2, QueryNow DEF List, Fetch, FetchFails, FetchVersion, StoreList, ModelInv
  <1>4. r.goal = "endpoints" /\ ~r.sure
    BY <1>3, Zenon DEF QuerySound, QueryShape, SureQuery, Holding
  <1> DEFINE Onto(a) == /\ DOMAIN a = QueryFields /\ a.op = r.op /\ a.goal = r.goal /\ a.model = r.model
                        /\ a.name = r.name /\ a.owned = r.owned /\ a.from = r.from /\ ~a.sure
                        /\ a.at \in {"fetch", "version", "store", "default"}
  <1>5. \A a : Onto(a) => QuerySound(a, smart, src.managed, Redis)
    BY <1>3, <1>4, SeekingSound, Zenon
  <1>6. \A value : QuerySound(Answer(r, value, "redis"), smart, src.managed, Redis)
    BY <1>3, <1>4, AnswerSound
  <1>7. \A value : QuerySound(Listed(r, value), smart, src.managed, Redis)
    <2>1. Onto([r EXCEPT !.at = "default"])
      BY <1>3, <1>4 DEF QueryFields
    <2>2. \A value : Listed(r, value) \in {[r EXCEPT !.at = "default"], Answer(r, value, "redis")}
      BY Zenon DEF Listed
    <2> HIDE DEF Onto
    <2> QED BY <1>5, <1>6, <2>1, <2>2, Zenon
  <1>8. PICK a : QuerySound(a, smart, src.managed, Redis) /\ query' = [query EXCEPT ![q] = a]
    <2>1. CASE List(q)
      <3>1. PICK a : /\ a = IF ~Redis THEN [r EXCEPT !.at = "default"]
                            ELSE IF src.cache[r.model] # Nil THEN Listed(r, src.cache[r.model])
                            ELSE [r EXCEPT !.at = "fetch"]
                     /\ query' = [query EXCEPT ![q] = a]
        BY <1>2, <2>1, Zenon DEF List
      <3>2. Onto([r EXCEPT !.at = "default"]) /\ Onto([r EXCEPT !.at = "fetch"])
        BY <1>3, <1>4 DEF QueryFields
      <3> HIDE DEF Onto
      <3>3. QuerySound(a, smart, src.managed, Redis)
        BY <1>5, <1>7, <3>1, <3>2, Zenon
      <3> QED BY <3>1, <3>3, Zenon
    <2>2. CASE Fetch(q)
      <3>1. PICK a : /\ a = IF eps[r.model] = Nil THEN [r EXCEPT !.at = "default"]
                            ELSE [r EXCEPT !.list = eps[r.model], !.ver = ver[r.model], !.split = FALSE,
                                           !.at = IF scene.torn THEN "version" ELSE "store"]
                     /\ query' = [query EXCEPT ![q] = a]
        BY <1>2, <2>2, Zenon DEF Fetch
      <3>2. Onto(a)
        BY <1>3, <1>4, <3>1 DEF QueryFields
      <3> HIDE DEF Onto
      <3> QED BY <1>5, <3>1, <3>2, Zenon
    <2>3. CASE FetchFails(q)
      <3>1. PICK a : a = [r EXCEPT !.at = "default"]
        BY Zenon
      <3>2. query' = [query EXCEPT ![q] = a]
        BY <1>2, <1>3, <2>3, <3>1, Zenon DEF FetchFails
      <3>3. Onto(a)
        BY <1>3, <1>4, <3>1 DEF QueryFields
      <3> HIDE DEF Onto
      <3> QED BY <1>5, <3>2, <3>3, Zenon
    <2>4. CASE FetchVersion(q)
      <3>1. PICK a : a = [r EXCEPT !.ver = ver[r.model], !.at = "store", !.split = ver[r.model] # r.ver]
        BY Zenon
      <3>2. query' = [query EXCEPT ![q] = a]
        BY <1>2, <1>3, <2>4, <3>1, Zenon DEF FetchVersion
      <3>3. Onto(a)
        BY <1>3, <1>4, <3>1 DEF QueryFields
      <3> HIDE DEF Onto
      <3> QED BY <1>5, <3>2, <3>3, Zenon
    <2>5. CASE StoreList(q)
      <3>1. query' = [query EXCEPT ![q] = Listed(r, r.list)]
        BY <1>2, <2>5, Zenon DEF StoreList
      <3> QED BY <1>7, <3>1, Zenon
    <2> QED BY <2>1, <2>2, <2>3, <2>4, <2>5
  <1>9. Grown(src, src')
    <2>1. CASE StoreList(q)
      <3>1. src' = [src EXCEPT !.cache[r.model] = r.list, !.last[r.model] = r.ver, !.split[r.model] = r.split]
        BY <1>2, <2>1, Zenon DEF StoreList
      <3>2. /\ DOMAIN src' = SourceFields /\ src'.managed = src.managed
            /\ src'.smart = src.smart /\ src'.err = src.err /\ src'.told = src.told
        BY <1>3, <3>1 DEF SourceShape, SourceFields
      <3> QED BY <1>3, <3>2, Zenon DEF Grown, SourceShape, Remembers
    <2>2. CASE UNCHANGED src
      BY <2>2, SourceSame
    <2> QED BY <2>1, <2>2, Zenon DEF List, Fetch, FetchFails, FetchVersion
  <1> QED BY <1>1, <1>8, <1>9, QueryTakes, Zenon

\* No endpoints in Redis: what Redis has owned is not looked up in the static
\* configuration.
LEMMA DefaultStep ==
    ASSUME ModelInv, NEW q \in Actor, Default(q)
    PROVE  ModelInv'
  <1>1. UNCHANGED <<scene, smart, src>>
    BY Zenon DEF Default, syncVars
  <1>2. PICK r : r = query[q]
    BY Zenon
  <1>3. QuerySound(r, smart, src.managed, Redis) /\ DOMAIN r = QueryFields /\ r.at = "default"
    BY <1>2, QueryNow, Zenon DEF Default
  <1>4. ~r.sure /\ (r.owned => Redis /\ src.managed[r.model])
    BY <1>3 DEF QuerySound, QueryShape, SureQuery, OwnedQuery, Holding
  <1>5. PICK a : /\ a = IF Redis /\ src.managed[r.model] THEN Answer(r, {}, "owner")
                        ELSE Answer(r, StaticEndpoints(r.model), "static")
                 /\ query' = [query EXCEPT ![q] = a]
    BY <1>2, Zenon DEF Default
  <1>6. QuerySound(Answer(r, {}, "owner"), smart, src.managed, Redis)
    BY <1>3, <1>4, AnswerSound, Zenon
  <1>7. ~(Redis /\ src.managed[r.model]) =>
            QuerySound(Answer(r, StaticEndpoints(r.model), "static"), smart, src.managed, Redis)
    BY <1>3, <1>4, AnswerSound, Zenon
  <1>8. QuerySound(a, smart, src.managed, Redis)
    BY <1>5, <1>6, <1>7, Zenon
  <1> QED BY <1>1, <1>5, <1>8, QueryAlone, Zenon

\* The rest of HasModel, the tenant's models and the second look.
LEMMA ExistsSteps ==
    ASSUME ModelInv, NEW q \in Actor, Exists(q) \/ ExistsFails(q)
    PROVE  ModelInv'
  <1>1. UNCHANGED <<scene, smart, src>>
    BY Zenon DEF Exists, ExistsFails, syncVars
  <1>2. PICK r : r = query[q]
    BY Zenon
  <1>3. QuerySound(r, smart, src.managed, Redis) /\ r.at = "exists"
    BY <1>2, QueryNow, Zenon DEF Exists, ExistsFails
  <1>4. PICK yes : query' = [query EXCEPT ![q] = HasModel(r, yes)]
    BY <1>2, Zenon DEF Exists, ExistsFails
  <1>5. PICK a : a = HasModel(r, yes)
    BY Zenon
  <1>6. r.goal \in {"alias", "has"}
    BY <1>3, Zenon DEF QuerySound, QueryShape
  <1>7. QuerySound(a, smart, src.managed, Redis)
    BY <1>3, <1>5, <1>6, HasModelSound
  <1>8. query' = [query EXCEPT ![q] = a]
    BY <1>4, <1>5, Zenon
  <1> QED BY <1>1, <1>7, <1>8, QueryAlone, Zenon

\* ValidateModel asks the tenant's list before it looks a second time.
LEMMA TenantSteps ==
    ASSUME ModelInv, NEW q \in Actor, Tenant(q) \/ TenantFails(q) \/ SecondLook(q)
    PROVE  ModelInv'
  <1>1. UNCHANGED <<scene, smart, src>>
    BY Zenon DEF Tenant, TenantFails, SecondLook, syncVars
  <1>2. PICK r : r = query[q]
    BY Zenon
  <1>3. QuerySound(r, smart, src.managed, Redis) /\ DOMAIN r = QueryFields /\ r.at \in {"tenant", "again"}
    BY <1>2, QueryNow, Zenon DEF Tenant, TenantFails, SecondLook
  <1>4. ~(r.sure /\ r.op = "endpoints")
    BY <1>3, Zenon DEF QuerySound, SureQuery, Holding
  <1>5. \A value : QuerySound(Answer(r, value, Nil), smart, src.managed, Redis)
    BY <1>3, <1>4, AnswerSound, SceneAssumption, Zenon
  <1>6. QuerySound([r EXCEPT !.at = "again"], smart, src.managed, Redis)
    <2>1. PICK b : b = [r EXCEPT !.at = "again"]
      BY Zenon
    <2>2. /\ DOMAIN b = QueryFields /\ b.op = r.op /\ b.goal = r.goal /\ b.model = r.model /\ b.name = r.name
          /\ b.owned = r.owned /\ b.sure = r.sure /\ b.from = r.from /\ b.at = "again"
      BY <1>3, <2>1 DEF QueryFields
    <2>3. QuerySound(b, smart, src.managed, Redis)
      BY <1>3, <1>4, <2>2, SeekingSound, Zenon
    <2> QED BY <2>1, <2>3, Zenon
  <1>7. \/ query' = [query EXCEPT ![q] = [r EXCEPT !.at = "again"]]
        \/ \E value : query' = [query EXCEPT ![q] = Answer(r, value, Nil)]
    <2>1. CASE Tenant(q)
      BY <1>2, <2>1, Zenon DEF Tenant
    <2>2. CASE TenantFails(q) \/ SecondLook(q)
      BY <1>2, <2>2, Zenon DEF TenantFails, SecondLook
    <2> QED BY <2>1, <2>2
  <1>8. PICK a : QuerySound(a, smart, src.managed, Redis) /\ query' = [query EXCEPT ![q] = a]
    BY <1>5, <1>6, <1>7, Zenon
  <1> QED BY <1>1, <1>8, QueryAlone, Zenon

\* AliasService.Resolve.
LEMMA AliasSteps ==
    ASSUME ModelInv, NEW q \in Actor,
           ReadAlias(q) \/ ReadAliasFails(q) \/ Normalize(q) \/ NormalizeFails(q) \/ KeepAlias(q)
    PROVE  ModelInv'
  <1>1. UNCHANGED <<scene, smart>>
    BY Zenon DEF ReadAlias, ReadAliasFails, Normalize, NormalizeFails, NormalizeModelCode, KeepAlias, syncVars
  <1>2. PICK r : r = query[q]
    BY Zenon
  <1>3. /\ QuerySound(r, smart, src.managed, Redis) /\ DOMAIN r = QueryFields /\ SourceShape(src)
        /\ r.at \in {"alias", "normal", "keep"}
    BY <1>2, QueryNow, Zenon DEF ReadAlias, ReadAliasFails, Normalize, NormalizeFails, NormalizeModelCode, KeepAlias,
       ModelInv
  <1>4. ~(r.sure /\ r.op = "endpoints") /\ (r.at = "alias" => r.op = "resolve")
    BY <1>3, Zenon DEF QuerySound, QueryShape, SureQuery, Holding
  <1>5. \A value : QuerySound(Answer(r, value, Nil), smart, src.managed, Redis)
    BY <1>3, <1>4, AnswerSound, SceneAssumption, Zenon
  <1>6. \A value : QuerySound([r EXCEPT !.answer = value, !.at = "keep"], smart, src.managed, Redis)
    <2> SUFFICES ASSUME NEW value
                 PROVE  QuerySound([r EXCEPT !.answer = value, !.at = "keep"], smart, src.managed, Redis)
      BY Zenon
    <2>1. PICK b : b = [r EXCEPT !.answer = value, !.at = "keep"]
      BY Zenon
    <2>2. /\ DOMAIN b = QueryFields /\ b.op = r.op /\ b.goal = r.goal /\ b.model = r.model /\ b.name = r.name
          /\ b.owned = r.owned /\ b.sure = r.sure /\ b.from = r.from /\ b.at = "keep"
      BY <1>3, <2>1 DEF QueryFields
    <2>3. QuerySound(b, smart, src.managed, Redis)
      BY <1>3, <1>4, <2>2, SeekingSound, Zenon
    <2> QED BY <2>1, <2>3, Zenon
  <1>7. r.at = "alias" => \A goal \in {"alias", "has"} : \A m : QuerySound(Toward(r, goal, m), smart, src.managed, Redis)
    BY <1>3, <1>4, TowardSound
  <1>8. \/ \E value : query' = [query EXCEPT ![q] = Answer(r, value, Nil)]
        \/ \E value : query' = [query EXCEPT ![q] = [r EXCEPT !.answer = value, !.at = "keep"]]
        \/ r.at = "alias" /\ \E goal \in {"alias", "has"} : \E m : query' = [query EXCEPT ![q] = Toward(r, goal, m)]
    <2>1. CASE ReadAlias(q)
      <3>1. CASE Redis /\ aliases[r.name] # Nil
        BY <1>2, <2>1, <3>1, Zenon DEF ReadAlias
      <3>2. CASE ~(Redis /\ aliases[r.name] # Nil) /\ StaticAlias(r.name) # Nil
        <4>1. query' = [query EXCEPT ![q] = Toward(r, "alias", StaticAlias(r.name))] /\ r.at = "alias"
          BY <1>2, <2>1, <3>2, Zenon DEF ReadAlias
        <4> QED BY <4>1, Zenon
      <3>3. CASE ~(Redis /\ aliases[r.name] # Nil) /\ StaticAlias(r.name) = Nil
        <4>1. query' = [query EXCEPT ![q] = Toward(r, "has", r.name)] /\ r.at = "alias"
          BY <1>2, <2>1, <3>3, Zenon DEF ReadAlias
        <4> QED BY <4>1, Zenon
      <3> QED BY <3>1, <3>2, <3>3, Zenon
    <2>2. CASE ReadAliasFails(q) \/ KeepAlias(q)
      BY <1>2, <2>2, Zenon DEF ReadAliasFails, KeepAlias
    <2>3. CASE Normalize(q) \/ NormalizeFails(q)
      <3>1. PICK listed : NormalizeModelCode(q, listed)
        BY <2>3, Zenon DEF Normalize, NormalizeFails
      <3> QED BY <1>2, <3>1, Zenon DEF NormalizeModelCode
    <2> QED BY <2>1, <2>2, <2>3, Zenon
  <1>9. PICK a : QuerySound(a, smart, src.managed, Redis) /\ query' = [query EXCEPT ![q] = a]
    BY <1>5, <1>6, <1>7, <1>8, Zenon
  <1>10. Grown(src, src')
    <2>1. CASE Normalize(q) \/ NormalizeFails(q)
      <3>1. PICK listed : NormalizeModelCode(q, listed)
        BY <2>1, Zenon DEF Normalize, NormalizeFails
      <3>2. src' = src \/ \E models : src' = GlanceAll(src, models)
        BY <3>1, Zenon DEF NormalizeModelCode
      <3> QED BY <1>3, <3>2, GlanceAllGrows DEF Grown
    <2>2. CASE UNCHANGED src
      BY <2>2, SourceSame
    <2> QED BY <2>1, <2>2, Zenon DEF ReadAlias, ReadAliasFails, KeepAlias
  <1> QED BY <1>1, <1>9, <1>10, QueryTakes, Zenon

(* -------------------- the rest of the system, for models ----------------- *)

\* Everything a query does.
LEMMA QueryStepModel ==
    ASSUME ModelInv, NEW q \in Actor, QueryStep(q) \/ QueryFails(q)
    PROVE  ModelInv'
  <1>1. CASE QueryStep(q)
    BY <1>1, StartQueryStep, ReadSmartStep, CheckDepsSteps, FillSmartStep, ReadStaticStep, CheckNestedSteps,
       ResolvedStep, FetchSteps, DefaultStep, ExistsSteps, TenantSteps, AliasSteps, Zenon DEF QueryStep
  <1>2. CASE QueryFails(q)
    BY <1>2, ReadSmartFailsStep, CheckDepsSteps, CheckNestedSteps, FetchSteps, ExistsSteps, TenantSteps, AliasSteps,
       Zenon DEF QueryFails
  <1> QED BY <1>1, <1>2

\* The version poll forgets cached endpoints, never what Redis owns.
LEMMA VersionPollModel ==
    ASSUME ModelInv, ReadVersions \/ Evict
    PROVE  ModelInv'
  <1>1. UNCHANGED <<scene, query, smart>>
    BY Zenon DEF ReadVersions, Evict, syncVars
  <1>2. SourceShape(src)
    BY DEF ModelInv
  <1>3. CASE ReadVersions
    <2>1. UNCHANGED src
      BY <1>3, Zenon DEF ReadVersions
    <2> QED BY <1>1, <2>1, SourceSame, ModelFrame
  <1>4. CASE Evict
    <2> DEFINE moved == {n \in DOMAIN check : check[n] # src.last[n]}
               c == [n \in Name |-> IF n \in moved THEN Nil ELSE src.cache[n]]
               s == [n \in Name |-> IF n \in moved THEN Nil ELSE src.smart[n]]
               e == [n \in Name |-> IF n \in moved THEN FALSE ELSE src.err[n]]
               l == [n \in Name |-> IF n \in moved THEN Nil ELSE src.last[n]]
    <2>1. src' = [src EXCEPT !.cache = c, !.smart = s, !.err = e, !.last = l]
      BY <1>4, Zenon DEF Evict
    <2>7. \A n \in Name : /\ s[n] = IF n \in moved THEN Nil ELSE src.smart[n]
                          /\ e[n] = IF n \in moved THEN FALSE ELSE src.err[n]
      BY Zenon
    <2>3. DOMAIN s = Name /\ DOMAIN e = Name
      BY Zenon
    <2> HIDE DEF moved, c, s, e, l
    <2>2. /\ DOMAIN src' = SourceFields /\ src'.managed = src.managed /\ src'.told = src.told
          /\ src'.smart = s /\ src'.err = e
      BY <1>2, <2>1 DEF SourceShape, SourceFields
    <2>4. \A n \in Name : s[n] \in {Nil, src.smart[n]} /\ (e[n] => src.err[n])
      BY <2>7, Zenon
    <2>5. Remembers(src')
      BY <1>2, <2>2, <2>4, Zenon DEF SourceShape, Remembers
    <2>6. Grown(src, src')
      BY <1>2, <2>2, <2>3, <2>5, Zenon DEF Grown, SourceShape
    <2> QED BY <1>1, <2>6, ModelFrame
  <1> QED BY <1>3, <1>4

\* The Admin writes a model: no query about it is sure of a document any more.
LEMMA WriteModelStep ==
    ASSUME ModelInv, WriteModel
    PROVE  ModelInv'
  <1>1. UNCHANGED <<scene, src>>
    BY Zenon DEF WriteModel
  <1>2. PICK m \in scene.writable :
            /\ \E doc \in SmartDocs[m] \cup {Nil} : smart' = [smart EXCEPT ![m] = doc]
            /\ query' = [q \in Actor |-> IF query[q].name = m THEN [query[q] EXCEPT !.sure = FALSE] ELSE query[q]]
    BY Zenon DEF WriteModel
  <1>3. PICK doc : smart' = [smart EXCEPT ![m] = doc]
    BY <1>2, Zenon
  <1>4. DOMAIN smart = Name /\ DOMAIN query = Actor /\ SourceShape(src) /\ scene \in Scenes
    BY DEF ModelInv
  <1>5. Redis' = Redis
    BY <1>1 DEF Redis
  <1>6. DOMAIN smart' = Name /\ \A n \in Name : n # m => smart'[n] = smart[n]
    BY <1>3, <1>4
  <1>7. ASSUME NEW q \in Actor
        PROVE  QuerySound(query'[q], smart', src.managed, Redis)
    <2>1. PICK r : r = query[q]
      BY Zenon
    <2>2. QuerySound(r, smart, src.managed, Redis) /\ DOMAIN r = QueryFields
      BY <2>1, QueryNow, Zenon
    <2>3. CASE r.name = m
      <3>1. PICK a : a = [r EXCEPT !.sure = FALSE]
        BY Zenon
      <3>2. query'[q] = a
        BY <1>2, <2>1, <2>3, <3>1, Zenon
      <3>3. /\ DOMAIN a = QueryFields /\ a.op = r.op /\ a.goal = r.goal /\ a.model = r.model /\ a.name = r.name
            /\ a.owned = r.owned /\ a.sure = FALSE /\ a.at = r.at /\ a.from = r.from /\ a.doc = r.doc /\ a.bad = r.bad
        BY <2>2, <3>1 DEF QueryFields
      <3>4. QueryShape(a)
        BY <2>2, <3>3, Zenon DEF QuerySound, QueryShape
      <3>5. SureQuery(a, smart', Redis) /\ OwnedQuery(a, src.managed, Redis) /\ TellingQuery(a, src.managed)
        BY <2>2, <3>3, Zenon DEF QuerySound, SureQuery, OwnedQuery, TellingQuery, Telling
      <3> QED BY <3>2, <3>4, <3>5, Zenon DEF QuerySound
    <2>4. CASE r.name # m
      <3>1. query'[q] = r
        BY <1>2, <2>1, <2>4, Zenon
      <3>2. SureQuery(r, smart', Redis)
        BY <1>6, <2>2, <2>4, Zenon DEF QuerySound, SureQuery
      <3> QED BY <2>2, <3>1, <3>2, Zenon DEF QuerySound
    <2> QED BY <2>3, <2>4
  <1>8. DOMAIN query' = Actor
    BY <1>2
  <1>9. \A q \in Actor : QuerySound(query'[q], smart', src'.managed, Redis')
    BY <1>1, <1>5, <1>7, Zenon
  <1> QED BY <1>1, <1>4, <1>6, <1>8, <1>9, Zenon DEF ModelInv

\* No other step touches the queries, the documents in Redis or the source.
LEMMA OthersModel ==
    ASSUME ModelInv, UNCHANGED <<scene, query, smart, src>>
    PROVE  ModelInv'
  BY SourceSame, ModelFrame, Zenon

(* --------------------------------- theorems ------------------------------ *)

\* Every step of ControlPlane keeps both invariants.
LEMMA NextSync ==
    ASSUME SyncInv, Next
    PROVE  SyncInv'
  <1>1. ASSUME NEW a \in Actor, Step(a) \/ StepFails(a)
        PROVE  SyncInv'
    <2>1. CASE InKeys /\ (RequestStep(a) \/ ReadFails(a) \/ ChargeFails(a))
      <3>1. UNCHANGED list
        BY <2>1, Zenon DEF InKeys, policyVars
      <3> QED BY <2>1, <3>1, RequestStepSync
    <2>2. CASE \/ InPolicies /\ (LookupStep(a) \/ ReadScopeFails(a) \/ FillPermissionsFails(a))
               \/ InModels /\ (QueryStep(a) \/ QueryFails(a))
      BY <2>2, OthersSync
    <2> QED BY <1>1, <2>1, <2>2, Zenon DEF Step, StepFails
  <1> QED BY <1>1, TimeSync, AdminSync, PollerSync, SubscriptionSync, Zenon DEF Next

\* Every step of the control plane preserves the invariant of the models.
LEMMA NextModel ==
    ASSUME ModelInv, Next
    PROVE  ModelInv'
  <1>1. ASSUME NEW a \in Actor, Step(a) \/ StepFails(a)
        PROVE  ModelInv'
    <2>1. CASE InModels /\ (QueryStep(a) \/ QueryFails(a))
      BY <2>1, QueryStepModel
    <2>2. CASE \/ InKeys /\ (RequestStep(a) \/ ReadFails(a) \/ ChargeFails(a))
               \/ InPolicies /\ (LookupStep(a) \/ ReadScopeFails(a) \/ FillPermissionsFails(a))
      <3>1. UNCHANGED <<query, smart, src>>
        BY <2>2, Zenon DEF InKeys, InPolicies, modelVars
      <3>2. UNCHANGED scene
        BY <2>2, Zenon DEF RequestStep, Get, Read, Ask, Keep, Fill, Serve, Charge, Incr, Clear, Again, ReadFails,
               ChargeFails, LookupStep, StartLookup, ReadScope, ReadList, Match, Merge, FillPermissions, FillFallback,
               Add, ReadScopeFails, FillPermissionsFails, syncVars
      <3> QED BY <3>1, <3>2, OthersModel
    <2> QED BY <1>1, <2>1, <2>2, Zenon DEF Step, StepFails
  <1>2. CASE ExpireKey \/ (\E m \in Models : ExpireModel(m)) \/ (\E n \in Name : ExpireName(n))
    <2>1. UNCHANGED <<scene, query, smart, src>>
      BY <1>2, Zenon DEF ExpireKey, ExpireModel, ExpireName, InKeys, InPolicies, ExpireValid, ExpireInvalid,
             ExpirePolicy, ExpireMiss, ExpireAlias, modelVars, syncVars
    <2> QED BY <2>1, OthersModel
  <1>3. CASE VersionPoll
    BY <1>3, VersionPollModel DEF VersionPoll
  <1>4. CASE Admin
    <2>1. CASE InModels /\ WriteModel
      BY <2>1, WriteModelStep
    <2>2. CASE \/ InKeys /\ (WriteKey \/ Lapse)
               \/ InPolicies /\ WritePolicy
               \/ InModels /\ (WriteAlias \/ WriteConfig)
      <3>1. UNCHANGED <<scene, query, smart, src>>
        BY <2>2, Zenon DEF InKeys, InPolicies, WriteKey, Lapse, WritePolicy, WriteAlias, WriteConfig, AdminWrites,
               modelVars, syncVars
      <3> QED BY <3>1, OthersModel
    <2> QED BY <1>4, <2>1, <2>2, Zenon DEF Admin
  <1>5. CASE Poller \/ PollError \/ EngineRefuses
    <2>1. UNCHANGED <<scene, query, smart, src>>
      BY <1>5, Zenon DEF Poller, PollError, EngineRefuses, PollAnswer, ApplyConfig, ApplyPolicies, ApplyKeys,
             NotifyConfig, NotifyPolicies, NotifyKeys, PollAnswered, PollFails, PollApplied, PollNotified, PollRefused,
             PollRejected, modelVars
    <2> QED BY <2>1, OthersModel
  <1>6. CASE Subscription \/ ReceivePolicies \/ ReceiveKeys
    <2>1. UNCHANGED <<scene, query, smart, src>>
      BY <1>6, Zenon DEF Subscription, Subscribe, SubscribeFails, Disconnect, Reconnect, ReceivePolicies, ReceiveKeys,
             Receive, modelVars
    <2> QED BY <2>1, OthersModel
  <1> QED BY <1>1, <1>2, <1>3, <1>4, <1>5, <1>6, Zenon DEF Next

\* The invariant holds when the gateway starts.
LEMMA InitInv ==
    ASSUME Init
    PROVE  Inv
  <1>1. SyncTypes
    <2>1. CallShape(NewCall)
      BY Zenon DEF CallShape, CallFields, NewCall
    <2>2. DOMAIN call = Actor /\ \A r \in Actor : CallShape(call[r])
      BY <2>1 DEF Init, KeysInit
    <2>3. rev \in [Kinds -> Nat] /\ copyRev \in Nat /\ list.rev \in Nat
      BY Zenon DEF Init, SyncInit, KeysInit, PoliciesInit
    <2>4. /\ DOMAIN poll = PollFields /\ poll.kind \in Kinds /\ poll.rev \in Nat /\ poll.etag \in [Kinds -> Nat]
      BY Zenon DEF Init, SyncInit, PollFields, Kinds
    <2>5. strayed \in BOOLEAN
      BY Zenon DEF Init, KeysInit
    <2> QED BY <2>2, <2>3, <2>4, <2>5 DEF SyncTypes
  <1>2. /\ poll.at # "notify" /\ poll.at # "apply" /\ poll.rev = 0 /\ poll.etag = [k \in Kinds |-> 0]
        /\ rev = [k \in Kinds |-> 1] /\ poll.kind = "config" /\ copyRev = 0 /\ list.rev = 0
    BY Zenon DEF Init, SyncInit, KeysInit, PoliciesInit
  <1>3. EtagsServed /\ AnswerInPlace /\ EtagMeansApplied
    BY <1>2 DEF EtagsServed, AnswerInPlace, EtagMeansApplied, Kinds
  <1>4. ModelInv
    <2>1. QuerySound(NoQuery, smart, src.managed, Redis)
      <3>1. /\ DOMAIN NoQuery = QueryFields /\ NoQuery.op = Nil /\ NoQuery.goal = Nil /\ NoQuery.at = "end"
            /\ NoQuery.sure = FALSE /\ NoQuery.owned = FALSE /\ NoQuery.name = Nil /\ NoQuery.model = Nil
        BY Zenon DEF NoQuery, QueryFields
      <3>2. QueryShape(NoQuery)
        BY <3>1, SceneAssumption DEF QueryShape
      <3> QED BY <3>1, <3>2, Zenon DEF QuerySound, SureQuery, OwnedQuery, TellingQuery, Telling
    <2>2. DOMAIN query = Actor /\ \A q \in Actor : query[q] = NoQuery
      BY Zenon DEF Init, ModelsInit
    <2>3. scene \in Scenes /\ DOMAIN smart = Name
      BY Zenon DEF Init, ModelsInit
    <2>4. /\ DOMAIN src = SourceFields /\ src.managed = [n \in Name |-> FALSE] /\ src.told = [n \in Name |-> FALSE]
          /\ src.smart = [n \in Name |-> Nil] /\ src.err = [n \in Name |-> FALSE]
      BY Zenon DEF Init, ModelsInit, SourceFields
    <2>5. SourceShape(src)
      BY <2>4 DEF SourceShape, Remembers
    <2>6. \A q \in Actor : QuerySound(query[q], smart, src.managed, Redis)
      BY <2>1, <2>2, Zenon
    <2> QED BY <2>2, <2>3, <2>5, <2>6 DEF ModelInv
  <1> QED BY <1>1, <1>3, <1>4 DEF Inv, SyncInv

\* In every behaviour of the control plane, whatever fails, expires or is
\* written: the inductive invariant.
THEOREM Invariance == Spec => []Inv
  <1>1. Init => Inv
    BY InitInv
  <1>2. Inv /\ [Next]_vars => Inv'
    <2> SUFFICES ASSUME Inv, [Next]_vars PROVE Inv'
      OBVIOUS
    <2>1. CASE Next
      BY <2>1, NextSync, NextModel DEF Inv
    <2>2. CASE UNCHANGED vars
      <3>1. UNCHANGED <<rev, poll, copyRev, strayed, list, call, scene, query, smart, src>>
        BY <2>2, Zenon DEF vars, syncVars, keyVars, policyVars, modelVars
      <3> QED BY <3>1, SyncFrame, OthersModel DEF Inv
    <2> QED BY <2>1, <2>2
  <1> QED BY <1>1, <1>2, PTL DEF Spec

\* An ETag is kept only for what the provider holds (pkg/config/http_poller.go):
\* whatever the Admin serves, refuses or answers late.
THEOREM EtagApplied == Spec => []EtagMeansApplied
  <1>1. Inv => EtagMeansApplied
    BY DEF Inv, SyncInv
  <1> QED BY <1>1, Invariance, PTL

\* A request for endpoints is answered with none, whatever fails meanwhile, while
\* Redis has a smart document of the model all along and its pipeline can be read or
\* the source holds something of it; and once a request was told that Redis makes a
\* model a smart one, no later request is answered from the static configuration
\* (GetEndpoints of pkg/config/config_manager.go, GetSmartRouting and managedSmart
\* of pkg/config/redis_source.go).
THEOREM RedisOwnsHolds == Spec => []RedisOwns
  <1>1. Inv => RedisOwns
    <2> SUFFICES ASSUME ModelInv, NEW q \in Actor, query[q].at = "end", query[q].op = "endpoints"
                 PROVE  /\ query[q].sure => query[q].answer = {}
                        /\ query[q].owned => query[q].from # "static"
      BY Zenon DEF Inv, RedisOwns
    <2>1. QuerySound(query[q], smart, src.managed, Redis)
      BY QueryNow, Zenon
    <2> QED BY <2>1, Zenon DEF QuerySound, SureQuery, OwnedQuery, Holding
  <1> QED BY <1>1, Invariance, PTL
=============================================================================
