-------------------------- MODULE WebSocketSession --------------------------
(***************************************************************************)
(* A WebSocket session of the Responses protocol                           *)
(* (pkg/core/engine_websocket.go, ws_session.go): the handler dials an     *)
(* upstream, two pumps copy frames in both directions, and a tracker holds *)
(* the turns that are admitted and not settled yet.  The n-th              *)
(* response.create the client sends is turn n; an upstream that answers it *)
(* calls the response n.  The start times of turns are assumed distinct,   *)
(* and every delta to have length one.                                     *)
(***************************************************************************)
EXTENDS Naturals, Sequences

CONSTANTS
    Endpoints,   \* what discovery and the routers can offer
    MaxRetries,  \* of the handshake
    MaxTurns,    \* response.create frames of the client
    MaxDeltas,   \* deltas of the upstream
    MaxStrays    \* other frames of the client, and events outside the protocol

ASSUME Bounds == {MaxRetries, MaxTurns, MaxDeltas, MaxStrays} \subseteq Nat

Turn == 1..MaxTurns
None == 0
Side == {"client", "upstream"}
Nobody == "nobody"

VARIABLES
    main,               \* where HandleWebSocketRequest is
    attempt, excluded,  \* the handshake
    over,               \* the request's context has ended
    shut,               \* the connections the gateway has closed
    left,               \* the peers that are gone
    stalled,            \* the peers that stay and do not read on, a write to them waiting
    held,               \* the write mutexes: the side's connection -> the pump in a write, or Nobody
    errs,               \* messages in errChan
    c2u, u2c,           \* the pumps: client to upstream, upstream to client
    asked, live,        \* creates the upstream has not answered, responses it generates
    temp, bound,        \* the tracker: turns under a temporary ID, turns by response ID
    turns,              \* what is known of each turn
    todo,               \* turns the cleanup still has to settle
    budget              \* what the peers have done; lawful while the upstream keeps to the protocol

dial == <<attempt, excluded>>
links == <<over, shut, left, stalled, held>>
peers == <<asked, live, budget>>
tracker == <<temp, bound>>
vars == <<main, dial, links, errs, c2u, u2c, peers, tracker, turns, todo>>

\* ActiveTurn.  admitted, late, got and settled are history: the inbound filters
\* let it pass, it was added after the cleanup had collected, the deltas written
\* to the client, how often it was settled.
NewTurn == [sent |-> 0, isSettled |-> FALSE, billed |-> 0,
            admitted |-> FALSE, late |-> FALSE, got |-> 0, settled |-> 0]

\* The outbound filters settle a turn that is done, or one that was cut off, for
\* what was counted.
Done(turn) == [turn EXCEPT !.isSettled = TRUE, !.settled = @ + 1]
CutOff(turn) == [turn EXCEPT !.billed = turn.sent, !.settled = @ + 1]

\* An event with the ID of its response; what the code has no use for, or an
\* event that lacks the ID it looks for, is "other".
Event(kind, id) == [kind |-> kind, id |-> id]
Events == {Event("other", None)} \cup {Event(k, i) : k \in {"created", "delta", "done"}, i \in Turn}

\* The upstream's pump with no event in hand.
U2C(pc) == [pc |-> pc, turn |-> None, ev |-> Event("other", None)]

Init ==
    /\ main = "dial" /\ attempt = 0 /\ excluded = {}
    /\ over = FALSE /\ shut = {} /\ left = {} /\ stalled = {} /\ errs = 0
    /\ held = [side \in Side |-> Nobody]
    /\ c2u = [pc |-> "off", turn |-> None, create |-> FALSE]
    /\ u2c = U2C("off")
    /\ asked = <<>> /\ live = {}
    /\ temp = {} /\ bound = [i \in Turn |-> None]
    /\ turns = [t \in Turn |-> NewTurn] /\ todo = {}
    /\ budget = [deltas |-> 0, strays |-> 0, lawful |-> TRUE]

(* ------------------------------- handshake ------------------------------- *)

\* No model, no pipeline, no policy, no such balancer, or the auth filter objects.
Refused ==
    /\ main = "dial" /\ main' = "refused"
    /\ UNCHANGED <<dial, links, errs, c2u, u2c, peers, tracker, turns, todo>>

\* The attempt ends without a connection; after the last one the handler answers
\* 502.  Nothing found, or an endpoint that cannot be dialled and is excluded.
Attempted(bad) ==
    /\ main = "dial"
    /\ excluded' = excluded \cup bad
    /\ attempt' = attempt + 1
    /\ main' = IF attempt = MaxRetries THEN "refused" ELSE main
    /\ UNCHANGED <<links, errs, c2u, u2c, peers, tracker, turns, todo>>

NothingToDial == Attempted({})
DialFails == \E e \in Endpoints \ excluded : Attempted({e})

Dialled ==
    /\ main = "dial" /\ Endpoints \ excluded # {}
    /\ main' = "upgrade" /\ attempt' = 0 /\ excluded' = {}
    /\ UNCHANGED <<links, errs, c2u, u2c, peers, tracker, turns, todo>>

\* Upgrade of the client's connection; the upstream's is closed when it fails.
UpgradeFails ==
    /\ main = "upgrade" /\ main' = "refused" /\ shut' = {"upstream"}
    /\ UNCHANGED <<dial, over, left, stalled, held, errs, c2u, u2c, peers, tracker, turns, todo>>

Upgraded ==
    /\ main = "upgrade" /\ main' = "open"
    /\ c2u' = [c2u EXCEPT !.pc = "read"] /\ u2c' = U2C("read")
    /\ UNCHANGED <<dial, links, errs, peers, tracker, turns, todo>>

(* ------------------------------ connections ------------------------------ *)

\* A connection that is closed or broken still yields what is buffered.
Breaks(side) == side \in shut \cup left

\* SafeWebSocketConn: a write holds the connection's mutex until it returns.  It
\* has no deadline: it succeeds while the connection is open and the peer reads on,
\* and fails when the peer is gone or the connection is closed.
Lock(side, pump) ==
    /\ held[side] = Nobody /\ held' = [held EXCEPT ![side] = pump]
    /\ UNCHANGED <<main, dial, over, shut, left, stalled, errs, c2u, u2c, peers, tracker, turns, todo>>

Unlock(side) == held' = [held EXCEPT ![side] = Nobody] /\ UNCHANGED <<over, shut, left, stalled>>

Writes(side, pump) == held[side] = pump /\ side \notin shut \cup stalled /\ Unlock(side)
WriteFails(side, pump) == held[side] = pump /\ Breaks(side) /\ Unlock(side)

\* A pump gives up: errChan has room for both.
Report == errs < 2 /\ errs' = errs + 1

(* --------------------------- client to upstream -------------------------- *)

C2U(pc) == [c2u EXCEPT !.pc = pc]

\* ReadMessage of what the client has sent: a response.create is a new turn,
\* anything else is passed on.
ReadClient ==
    /\ c2u.pc = "read"
    /\ \/ /\ c2u.turn < MaxTurns /\ UNCHANGED budget
          /\ c2u' = [pc |-> "admit", turn |-> c2u.turn + 1, create |-> TRUE]
       \/ /\ budget.strays < MaxStrays /\ budget' = [budget EXCEPT !.strays = @ + 1]
          /\ c2u' = [pc |-> "forward", turn |-> c2u.turn, create |-> FALSE]
    /\ UNCHANGED <<main, dial, links, errs, u2c, asked, live, tracker, turns, todo>>

ReadClientFails ==
    /\ c2u.pc = "read" /\ Breaks("client")
    /\ Report /\ c2u' = C2U("exited")
    /\ UNCHANGED <<main, dial, links, u2c, peers, tracker, turns, todo>>

\* handleClientEvent: the turn's context is made from the session's, the inbound
\* filters run, and the turn joins the tracker.
AddTurn ==
    /\ c2u.pc = "admit" /\ c2u' = C2U("forward")
    /\ temp' = temp \cup {c2u.turn}
    /\ turns' = [turns EXCEPT ![c2u.turn] =
                   [@ EXCEPT !.admitted = TRUE, !.late = main \in {"settle", "returned"}]]
    /\ UNCHANGED <<main, dial, links, errs, u2c, peers, bound, todo>>

\* A filter objects: the client is told, be the write a success or not, and the
\* frame is not forwarded.
Object ==
    /\ c2u.pc = "admit" /\ c2u' = C2U("tell")
    /\ UNCHANGED <<main, dial, links, errs, u2c, peers, tracker, turns, todo>>

LockToTell == c2u.pc = "tell" /\ Lock("client", "c2u")

Tell ==
    /\ c2u.pc = "tell" /\ (Writes("client", "c2u") \/ WriteFails("client", "c2u"))
    /\ c2u' = C2U("read")
    /\ UNCHANGED <<main, dial, errs, u2c, peers, tracker, turns, todo>>

\* The handler has returned and released the session's context: its request is
\* gone, AcquireContext panics and the pump's recover ends it.  (If the context
\* is in use again, AddTurn goes on with what another request has put there.)
AdmitPanics ==
    /\ c2u.pc = "admit" /\ main = "returned" /\ c2u' = C2U("exited")
    /\ UNCHANGED <<main, dial, links, errs, u2c, peers, tracker, turns, todo>>

LockToForward == c2u.pc = "forward" /\ Lock("upstream", "c2u")

Forward ==
    /\ c2u.pc = "forward" /\ Writes("upstream", "c2u") /\ c2u' = C2U("read")
    /\ asked' = IF c2u.create /\ "upstream" \notin left THEN Append(asked, c2u.turn) ELSE asked
    /\ UNCHANGED <<main, dial, errs, u2c, live, budget, tracker, turns, todo>>

ForwardFails ==
    /\ c2u.pc = "forward" /\ WriteFails("upstream", "c2u")
    /\ Report /\ c2u' = C2U("exited")
    /\ UNCHANGED <<main, dial, u2c, peers, tracker, turns, todo>>

(* --------------------------- upstream to client -------------------------- *)

\* Mutant: the turn that began last takes the response's ID.
AssociateNewestTempID(id) ==
    \/ temp = {} /\ UNCHANGED tracker
    \/ \E t \in temp :
         /\ \A other \in temp : other <= t
         /\ temp' = temp \ {t} /\ bound' = [bound EXCEPT ![id] = t]

\* AssociateLatestTempID: the turn that began first takes the response's ID.
AssociateLatestTempID(id) ==
    \/ temp = {} /\ UNCHANGED tracker
    \/ \E t \in temp :
         /\ \A other \in temp : t <= other
         /\ temp' = temp \ {t} /\ bound' = [bound EXCEPT ![id] = t]

\* Mutant: the entry stays.
RemoveTurnKept(id) == UNCHANGED tracker

\* RemoveTurn: the entry of a settled response goes.
RemoveTurn(id) == bound' = [bound EXCEPT ![id] = None] /\ UNCHANGED temp

\* What the upstream sends next: it begins a response, or refuses with an event
\* that has no ID, generates, ends a response, or leaves the protocol.
Sends(ev) ==
    \/ /\ asked # <<>> /\ ev = Event("created", Head(asked))
       /\ asked' = Tail(asked) /\ live' = live \cup {Head(asked)} /\ UNCHANGED budget
    \/ /\ asked # <<>> /\ ev = Event("other", None)
       /\ asked' = Tail(asked) /\ budget' = [budget EXCEPT !.lawful = FALSE] /\ UNCHANGED live
    \/ /\ ev.kind = "delta" /\ ev.id \in live /\ budget.deltas < MaxDeltas
       /\ budget' = [budget EXCEPT !.deltas = @ + 1] /\ UNCHANGED <<asked, live>>
    \/ /\ ev.kind = "done" /\ ev.id \in live
       /\ live' = live \ {ev.id} /\ UNCHANGED <<asked, budget>>
    \/ /\ budget.strays < MaxStrays
       /\ budget' = [budget EXCEPT !.strays = @ + 1, !.lawful = FALSE] /\ UNCHANGED <<asked, live>>

\* ReadMessage and the look at the tracker of handleUpstreamEvent.
ReadUpstream ==
    /\ u2c.pc = "read"
    /\ \E ev \in Events :
         LET turn == IF ev.kind \in {"delta", "done"} THEN bound[ev.id] ELSE None
             next == IF turn = None THEN "write" ELSE IF ev.kind = "delta" THEN "count" ELSE "settle"
         IN  /\ Sends(ev)
             /\ u2c' = [pc |-> next, turn |-> turn, ev |-> ev]
             /\ CASE ev.kind = "created" -> AssociateLatestTempID(ev.id)
                  [] ev.kind = "done" -> RemoveTurn(ev.id)
                  [] OTHER -> UNCHANGED tracker
    /\ UNCHANGED <<main, dial, links, errs, c2u, turns, todo>>

ReadUpstreamFails ==
    /\ u2c.pc = "read" /\ Breaks("upstream")
    /\ Report /\ u2c' = U2C("exited")
    /\ UNCHANGED <<main, dial, links, c2u, peers, tracker, turns, todo>>

\* The delta is counted on the turn found before, outside the tracker's lock.
Count ==
    /\ u2c.pc = "count" /\ u2c' = [u2c EXCEPT !.pc = "write"]
    /\ turns' = [turns EXCEPT ![u2c.turn].sent = @ + 1]
    /\ UNCHANGED <<main, dial, links, errs, c2u, peers, tracker, todo>>

\* response.done: the turn is settled with its usage.
Settle ==
    /\ u2c.pc = "settle" /\ u2c' = [u2c EXCEPT !.pc = "write"]
    /\ turns' = [turns EXCEPT ![u2c.turn] = Done(@)]
    /\ UNCHANGED <<main, dial, links, errs, c2u, peers, tracker, todo>>

LockToWrite == u2c.pc = "write" /\ Lock("client", "u2c")

WriteClient ==
    /\ u2c.pc = "write" /\ Writes("client", "u2c") /\ u2c' = U2C("read")
    /\ turns' = IF u2c.ev.kind = "delta"
                THEN [turns EXCEPT ![u2c.ev.id].got = @ + 1] ELSE turns
    /\ UNCHANGED <<main, dial, errs, c2u, peers, tracker, todo>>

WriteClientFails ==
    /\ u2c.pc = "write" /\ WriteFails("client", "u2c")
    /\ Report /\ u2c' = U2C("exited")
    /\ UNCHANGED <<main, dial, c2u, peers, tracker, turns, todo>>

\* The loops look at the session's context, which ends with the request's and is
\* cancelled when the handler returns.
Cancelled == over \/ main = "returned"

StopClientPump ==
    /\ c2u.pc = "read" /\ Cancelled /\ c2u' = C2U("exited")
    /\ UNCHANGED <<main, dial, links, errs, u2c, peers, tracker, turns, todo>>

StopUpstreamPump ==
    /\ u2c.pc = "read" /\ Cancelled /\ u2c' = U2C("exited")
    /\ UNCHANGED <<main, dial, links, errs, c2u, peers, tracker, turns, todo>>

(* -------------------------------- the handler ---------------------------- *)

\* The first pump has given up, or the request's context has ended.
Wake ==
    /\ main = "open" /\ main' = "close"
    /\ \/ errs > 0 /\ errs' = errs - 1
       \/ over /\ UNCHANGED errs
    /\ UNCHANGED <<dial, links, c2u, u2c, peers, tracker, turns, todo>>

\* The client's connection is closed, then the upstream's.  Close takes the write
\* mutex: it waits for a write that is under way.
Close ==
    /\ main = "close"
    /\ IF "client" \in shut
       THEN held["upstream"] = Nobody /\ shut' = shut \cup {"upstream"} /\ main' = "collect"
       ELSE held["client"] = Nobody /\ shut' = {"client"} /\ UNCHANGED main
    /\ UNCHANGED <<dial, over, left, stalled, held, errs, c2u, u2c, peers, tracker, turns, todo>>

\* Mutant: turns that have no response yet are left out.
GetUnsettledBoundTurns == {t \in {bound[i] : i \in Turn} \ {None} : ~turns[t].isSettled}

\* The turns of the tracker that are not settled; Collect also empties it.
GetUnsettledTurns == {t \in (temp \cup {bound[i] : i \in Turn}) \ {None} : ~turns[t].isSettled}

Collect ==
    /\ main = "collect" /\ main' = "settle"
    /\ todo' = GetUnsettledTurns
    /\ temp' = {} /\ bound' = [i \in Turn |-> None]
    /\ UNCHANGED <<dial, links, errs, c2u, u2c, peers, turns>>

\* The turns that were cut off, one by one.
SettleUnsettled ==
    /\ main = "settle"
    /\ \E t \in todo :
         /\ todo' = todo \ {t}
         /\ turns' = [turns EXCEPT ![t] = CutOff(@)]
    /\ UNCHANGED <<main, dial, links, errs, c2u, u2c, peers, tracker>>

\* The handler returns: the pumps' context is cancelled, the session's released.
Return ==
    /\ main = "settle" /\ todo = {} /\ main' = "returned"
    /\ UNCHANGED <<dial, links, errs, c2u, u2c, peers, tracker, turns, todo>>

(* --------------------------------- the peers ----------------------------- *)

Leaves(side) ==
    /\ main \in {"open", "close"} /\ ~Breaks(side)
    /\ left' = left \cup {side} /\ stalled' = stalled \ {side}
    /\ UNCHANGED <<main, dial, over, shut, held, errs, c2u, u2c, peers, tracker, turns, todo>>

\* The peer does not read on, for good or until it leaves, and the buffers to it are
\* full.  Who pauses for a time only delays the write.
Stalls(side) ==
    /\ main \in {"open", "close"} /\ held[side] # Nobody /\ side \notin shut \cup left \cup stalled
    /\ stalled' = stalled \cup {side}
    /\ UNCHANGED <<main, dial, over, shut, left, held, errs, c2u, u2c, peers, tracker, turns, todo>>

ContextEnds ==
    /\ main = "open" /\ ~over /\ over' = TRUE
    /\ UNCHANGED <<main, dial, shut, left, stalled, held, errs, c2u, u2c, peers, tracker, turns, todo>>

(* -------------------------------- the session ---------------------------- *)

Handler ==
    \/ Refused \/ NothingToDial \/ DialFails \/ Dialled \/ UpgradeFails \/ Upgraded
    \/ Wake \/ Close \/ Collect \/ SettleUnsettled \/ Return

ClientPump ==
    \/ ReadClient \/ ReadClientFails \/ AddTurn \/ Object \/ LockToTell \/ Tell \/ AdmitPanics
    \/ LockToForward \/ Forward \/ ForwardFails \/ StopClientPump

UpstreamPump ==
    \/ ReadUpstream \/ ReadUpstreamFails \/ Count \/ Settle
    \/ LockToWrite \/ WriteClient \/ WriteClientFails \/ StopUpstreamPump

Peers ==
    \/ ContextEnds
    \/ \E side \in Side : Leaves(side) \/ Stalls(side)

Finished == main = "refused" \/ (main = "returned" /\ c2u.pc = "exited" /\ u2c.pc = "exited")

Next == Handler \/ ClientPump \/ UpstreamPump \/ Peers \/ (Finished /\ UNCHANGED vars)

\* Goroutines run, and a mutex that is free is handed to who waits for it.  Nothing
\* is assumed of the peers: a write to one that stalls need not return, and none
\* need leave.  A pump's read takes what its peer sends at that moment: that it must
\* go on reading rules out only sessions that are idle for ever, which never come to
\* their end.
Spec == Init /\ [][Next]_vars /\ WF_vars(Handler) /\ WF_vars(ClientPump) /\ WF_vars(UpstreamPump)

(* -------------------------------- properties ----------------------------- *)

\* A turn is settled at most once, although response.done and the cleanup after a
\* disconnect may both reach for it (RemoveTurn, GetUnsettledTurns, IsSettled);
\* and one that is settled by the cleanup is billed for at least the deltas its
\* client was sent, although they are counted and written outside any lock.
SettledOnce ==
    \A t \in Turn :
        /\ turns[t].settled <= 1
        /\ budget.lawful /\ turns[t].settled = 1 /\ ~turns[t].isSettled =>
              turns[t].billed >= turns[t].got

\* AssociateLatestTempID binds the oldest unbound turn: as long as the upstream
\* answers every response.create with its response.created, in order, each
\* response is bound to the turn that asked for it, whatever the filters object
\* to; a turn added after the cleanup has collected is the exception.
BoundInOrder ==
    budget.lawful => \A i \in Turn : bound[i] # None /\ ~turns[bound[i]].late => bound[i] = i

\* A session that ends is cleaned up: both pumps exit, and every turn the filters
\* admitted is settled, except for one the client's pump adds to the tracker when
\* the cleanup has already collected, and for upstreams that repeat an ID.  Nothing
\* but a write can hold the cleanup up, and only for as long as its peer neither
\* reads on nor leaves: the write has no deadline, and Close waits for its mutex
\* (safe_conn.go).
SessionSettles ==
    (main = "close") ~>
        \/ [](stalled # {})
        \/ /\ Finished
           /\ \A t \in Turn : turns[t].admitted =>
                 turns[t].settled = 1 \/ turns[t].late \/ ~budget.lawful
=============================================================================
