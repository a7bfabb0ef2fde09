--------------------------- MODULE WebSocketProofs ---------------------------
(***************************************************************************)
(* That turns are settled once, billed for what was written, and bound to  *)
(* their own responses, for any number of turns, deltas and stray events.  *)
(***************************************************************************)
EXTENDS WebSocketSession, TLAPS

\* What the session is made of; the handshake, the request's context, the write
\* mutexes and the channel of errors play no part in the argument.
session == <<main, shut, left, c2u, u2c, asked, live, budget, temp, bound, turns, todo>>

ClientPumps == [pc : {"off", "read", "admit", "tell", "forward", "exited"}, turn : 0..MaxTurns, create : BOOLEAN]
UpstreamPumps ==
    [pc : {"off", "read", "count", "settle", "write", "exited"}, turn : 0..MaxTurns, ev : Events]
ActiveTurns == [sent : Nat, isSettled : BOOLEAN, billed : Nat,
                admitted : BOOLEAN, late : BOOLEAN, got : Nat, settled : Nat]
Budgets == [deltas : Nat, strays : Nat, lawful : BOOLEAN]

TypeInv ==
    /\ main \in {"dial", "refused", "upgrade", "open", "close", "collect", "settle", "returned"}
    /\ shut \subseteq Side /\ left \subseteq Side
    /\ c2u \in ClientPumps /\ u2c \in UpstreamPumps
    /\ asked \in Seq(Turn) /\ live \subseteq Turn
    /\ budget \in Budgets
    /\ temp \subseteq Turn /\ bound \in [Turn -> 0..MaxTurns] /\ todo \subseteq Turn
    /\ turns \in [Turn -> ActiveTurns]

\* The turn is in the hands of the upstream's pump, to be settled.
InHand(t) == u2c.pc = "settle" /\ u2c.turn = t

\* The client's pump has not added the turn yet.
Fresh(t) == t > c2u.turn \/ (t = c2u.turn /\ c2u.pc = "admit")

\* A turn is in one place at a time: waiting for its response, bound to one,
\* in the pump's hands or in the cleanup's; and it is in none once settled.
Waiting ==
    \A t \in temp : /\ t \notin todo /\ ~InHand(t) /\ ~Fresh(t) /\ turns[t].settled = 0
                    /\ \A i \in Turn : bound[i] # t

Bound ==
    \A i \in Turn : bound[i] # None =>
        /\ bound[i] \notin todo /\ ~InHand(bound[i]) /\ ~Fresh(bound[i])
        /\ turns[bound[i]].settled = 0
        /\ \A j \in Turn : bound[j] = bound[i] => j = i

Cleaning == \A t \in todo : ~InHand(t) /\ ~Fresh(t) /\ turns[t].settled = 0

Settled ==
    \A t \in Turn : /\ InHand(t) => turns[t].settled = 0
                    /\ Fresh(t) => turns[t].settled = 0
                    /\ turns[t].settled <= 1
                    /\ turns[t].isSettled => turns[t].settled = 1

Hands ==
    /\ u2c.pc \in {"count", "settle"} => u2c.turn # None /\ ~Fresh(u2c.turn)
    /\ c2u.pc = "admit" => c2u.turn # None /\ c2u.create
    /\ c2u.pc = "forward" /\ c2u.create => c2u.turn # None
    /\ main \notin {"settle", "returned"} => todo = {}

OnePlace == Waiting /\ Bound /\ Cleaning /\ Settled /\ Hands

\* Until the cleanup has emptied the tracker.
Tracking == main \notin {"settle", "returned"}

\* The turns under a temporary ID are the creates the upstream has not answered,
\* in their order, followed by those it has not received; what it generates is
\* bound to the turn that asked for it.
InOrder ==
    budget.lawful /\ Tracking =>
        /\ \A k \in 1..Len(asked) : asked[k] \in temp
        /\ \A k, m \in 1..Len(asked) : k < m => asked[k] < asked[m]
        /\ \A t \in temp : \/ \E k \in 1..Len(asked) : asked[k] = t
                           \/ \A k \in 1..Len(asked) : asked[k] < t
        /\ "upstream" \notin left /\ c2u.pc # "exited" =>
               \A t \in temp : \/ \E k \in 1..Len(asked) : asked[k] = t
                               \/ c2u.pc = "forward" /\ c2u.create /\ t = c2u.turn
        /\ c2u.pc = "forward" /\ c2u.create =>
               c2u.turn \in temp /\ \A k \in 1..Len(asked) : asked[k] < c2u.turn
        /\ \A i \in live : bound[i] = i
        /\ \A i \in Turn : bound[i] \in {None, i}

\* What the tracker holds after the cleanup was added too late for it.
LateOnly ==
    ~Tracking => /\ \A t \in temp : turns[t].late
                 /\ \A i \in Turn : bound[i] # None => turns[bound[i]].late

\* A delta is counted before it is written, on the turn whose client reads it,
\* and nothing is written once the cleanup has closed the client's connection.
CountedFirst ==
    /\ main \in {"dial", "upgrade"} => shut = {} /\ temp = {} /\ c2u.pc = "off"
    /\ main \in {"collect", "settle", "returned"} => "client" \in shut
    /\ \A t \in Turn : turns[t].settled = 1 /\ ~turns[t].isSettled => "client" \in shut
    /\ u2c.pc = "settle" => u2c.ev.kind = "done"
    /\ budget.lawful =>
         /\ \A t \in Turn : turns[t].got <= turns[t].sent
         /\ \A t \in Turn : turns[t].settled = 1 /\ ~turns[t].isSettled => turns[t].got <= turns[t].billed
         /\ u2c.pc = "count" /\ "client" \notin shut => u2c.turn = u2c.ev.id
         /\ u2c.pc = "count" => u2c.ev.kind = "delta"
         /\ u2c.pc = "write" /\ u2c.ev.kind = "delta" /\ "client" \notin shut =>
                turns[u2c.ev.id].got < turns[u2c.ev.id].sent

IndInv == TypeInv /\ OnePlace /\ InOrder /\ LateOnly /\ CountedFirst

\* The counters of an instance are natural numbers.
LEMMA MaxTurnsNat == MaxTurns \in Nat /\ None \notin Turn /\ Turn \subseteq 1..MaxTurns
BY Bounds DEF Bounds, Turn, None

\* What the types say, in the form the steps use.
LEMMA Ranges ==
    ASSUME TypeInv
    PROVE  /\ Turn \subseteq Nat /\ temp \subseteq Turn /\ todo \subseteq Turn
           /\ c2u.turn \in Nat /\ u2c.turn \in Nat
           /\ c2u.turn # None => c2u.turn \in Turn
           /\ u2c.turn # None => u2c.turn \in Turn
           /\ \A i \in Turn : bound[i] \in Nat /\ (bound[i] # None => bound[i] \in Turn)
           /\ u2c.ev.kind = "delta" => u2c.ev.id \in Turn
<1>1. \A ev \in Events : ev.kind = "delta" => ev.id \in Turn
    BY DEF Events, Event
<1> QED
    BY <1>1, MaxTurnsNat DEF TypeInv, Turn, None, ClientPumps, UpstreamPumps

\* The steps of a turn.
LEMMA TurnType ==
    \A r \in ActiveTurns : \A late \in BOOLEAN :
        /\ [r EXCEPT !.admitted = TRUE, !.late = late] \in ActiveTurns
        /\ [r EXCEPT !.sent = @ + 1] \in ActiveTurns
        /\ [r EXCEPT !.got = @ + 1] \in ActiveTurns
        /\ Done(r) \in ActiveTurns /\ CutOff(r) \in ActiveTurns
<1> SUFFICES ASSUME NEW r \in ActiveTurns, NEW late \in BOOLEAN
             PROVE  /\ [r EXCEPT !.admitted = TRUE, !.late = late] \in ActiveTurns
                    /\ [r EXCEPT !.sent = @ + 1] \in ActiveTurns
                    /\ [r EXCEPT !.got = @ + 1] \in ActiveTurns
                    /\ Done(r) \in ActiveTurns /\ CutOff(r) \in ActiveTurns
    BY Zenon
<1>1. [r EXCEPT !.admitted = TRUE, !.late = late] \in ActiveTurns
    BY Zenon DEF ActiveTurns
<1>2. [r EXCEPT !.sent = @ + 1] \in ActiveTurns /\ [r EXCEPT !.got = @ + 1] \in ActiveTurns
    BY DEF ActiveTurns
<1>0. r.settled + 1 \in Nat /\ r.sent \in Nat
    BY DEF ActiveTurns
<1>3. Done(r) \in ActiveTurns /\ CutOff(r) \in ActiveTurns
    BY <1>0, Zenon DEF ActiveTurns, Done, CutOff
<1> QED
    BY <1>1, <1>2, <1>3

\* The upstream's pump with nothing in hand.
LEMMA U2CType == U2C("read") \in UpstreamPumps /\ U2C("exited") \in UpstreamPumps
BY MaxTurnsNat DEF U2C, UpstreamPumps, Events, Event, None

\* The steps of the upstream's account.
LEMMA BudgetType ==
    \A b \in Budgets :
        /\ [b EXCEPT !.strays = @ + 1] \in Budgets
        /\ [b EXCEPT !.deltas = @ + 1] \in Budgets
        /\ [b EXCEPT !.lawful = FALSE] \in Budgets
        /\ [b EXCEPT !.strays = @ + 1, !.lawful = FALSE] \in Budgets
<1> SUFFICES ASSUME NEW b \in Budgets
             PROVE  /\ [b EXCEPT !.strays = @ + 1] \in Budgets
                    /\ [b EXCEPT !.deltas = @ + 1] \in Budgets
                    /\ [b EXCEPT !.lawful = FALSE] \in Budgets
                    /\ [b EXCEPT !.strays = @ + 1, !.lawful = FALSE] \in Budgets
    BY Zenon
<1>1. [b EXCEPT !.strays = @ + 1] \in Budgets /\ [b EXCEPT !.deltas = @ + 1] \in Budgets
    BY DEF Budgets
<1>2. [b EXCEPT !.lawful = FALSE] \in Budgets
    BY Zenon DEF Budgets
<1>3. [b EXCEPT !.strays = @ + 1, !.lawful = FALSE] = [[b EXCEPT !.strays = @ + 1] EXCEPT !.lawful = FALSE]
    BY DEF Budgets
<1>4. [[b EXCEPT !.strays = @ + 1] EXCEPT !.lawful = FALSE] \in Budgets
    BY <1>1, Zenon DEF Budgets
<1> QED
    BY <1>1, <1>2, <1>3, <1>4

\* The handler starts with nothing in hand.
LEMMA InitInv == Init => IndInv
<1> SUFFICES ASSUME Init PROVE IndInv
    OBVIOUS
<1> USE MaxTurnsNat DEF Init, U2C, Event, Events, NewTurn, None
<1>1. TypeInv
    BY DEF TypeInv, Side, ClientPumps, UpstreamPumps, ActiveTurns, Budgets
<1>2. OnePlace
    BY <1>1 DEF OnePlace, Waiting, Bound, Cleaning, Settled, Hands, InHand, Fresh, TypeInv
<1>3. InOrder
    BY DEF InOrder, Tracking
<1>4. LateOnly /\ CountedFirst
    BY DEF LateOnly, CountedFirst, Tracking
<1> QED
    BY <1>1, <1>2, <1>3, <1>4 DEF IndInv

\* A step outside the session leaves the invariant alone.
LEMMA FrameInv == ASSUME IndInv, UNCHANGED session PROVE IndInv'
<1> USE DEF IndInv, session
<1>1. TypeInv' /\ LateOnly' /\ CountedFirst'
    BY DEF TypeInv, LateOnly, CountedFirst, Tracking
<1>2. OnePlace'
    BY DEF OnePlace, Waiting, Bound, Cleaning, Settled, Hands, InHand, Fresh
<1>3. InOrder'
    BY DEF InOrder, Tracking
<1> QED
    BY <1>1, <1>2, <1>3

\* The handshake touches no turn.
LEMMA HandshakeInv ==
    ASSUME IndInv, Refused \/ NothingToDial \/ DialFails \/ Dialled
    PROVE  IndInv'
<1>1. /\ main = "dial" /\ main' \in {"dial", "refused", "upgrade"}
      /\ UNCHANGED <<shut, left, c2u, u2c, asked, live, budget, temp, bound, turns, todo>>
    BY DEF Refused, NothingToDial, DialFails, Attempted, Dialled, links, peers, tracker
<1>2. TypeInv'
    BY <1>1 DEF IndInv, TypeInv
<1>3. OnePlace'
    BY <1>1 DEF IndInv, OnePlace, Waiting, Bound, Cleaning, Settled, Hands, InHand, Fresh
<1>4. InOrder' /\ LateOnly'
    BY <1>1 DEF IndInv, InOrder, LateOnly, Tracking
<1>5. CountedFirst'
    BY <1>1 DEF IndInv, CountedFirst
<1> QED
    BY <1>2, <1>3, <1>4, <1>5 DEF IndInv

\* The pumps begin with empty hands.
LEMMA UpgradeInv ==
    ASSUME IndInv, UpgradeFails \/ Upgraded
    PROVE  IndInv'
<1>1. /\ main = "upgrade" /\ main' \in {"refused", "open"} /\ shut = {} /\ shut' \in {{}, {"upstream"}}
      /\ temp = {} /\ UNCHANGED <<left, asked, live, budget, temp, bound, turns, todo>>
      /\ \/ UNCHANGED <<c2u, u2c>>
         \/ c2u' = [c2u EXCEPT !.pc = "read"] /\ u2c' = U2C("read")
    BY DEF UpgradeFails, Upgraded, links, peers, tracker, IndInv, CountedFirst
<1>2. /\ c2u'.pc \in {c2u.pc, "read"} /\ c2u'.turn = c2u.turn /\ c2u'.create = c2u.create
      /\ u2c' = u2c \/ u2c'.pc = "read"
    BY <1>1 DEF U2C, IndInv, TypeInv, ClientPumps
<1>3. TypeInv'
  <2>1. c2u' \in ClientPumps
      BY <1>1 DEF IndInv, TypeInv, ClientPumps
  <2>2. u2c' \in UpstreamPumps
      BY <1>1, U2CType DEF IndInv, TypeInv
  <2> QED
      BY <1>1, <2>1, <2>2 DEF IndInv, TypeInv, Side
<1>4. OnePlace'
  <2>1. \A t : (Fresh(t)' => Fresh(t)) /\ (InHand(t)' => InHand(t))
      BY <1>2 DEF Fresh, InHand
  <2>2. u2c'.pc \in {"count", "settle"} => u2c' = u2c
      BY <1>2
  <2> QED
      BY <1>1, <1>2, <2>1, <2>2 DEF IndInv, OnePlace, Waiting, Bound, Cleaning, Settled, Hands
<1>5. InOrder' /\ LateOnly'
    BY <1>1, <1>2 DEF IndInv, InOrder, LateOnly, Tracking
<1>6. CountedFirst'
  <2>1. "client" \notin shut /\ "client" \notin shut'
      BY <1>1
  <2> QED
      BY <1>1, <1>2, <2>1 DEF IndInv, CountedFirst
<1> QED
    BY <1>3, <1>4, <1>5, <1>6 DEF IndInv

\* Reading a frame of the client begins a fresh turn at most.
LEMMA ReadClientInv == ASSUME IndInv, ReadClient PROVE IndInv'
<1>1. /\ c2u.pc = "read" /\ UNCHANGED <<main, shut, left, u2c, asked, live, temp, bound, turns, todo>>
      /\ c2u.turn \in 0..MaxTurns /\ budget'.lawful = budget.lawful
    BY DEF ReadClient, links, tracker, IndInv, TypeInv, ClientPumps, Budgets
<1>0. /\ \/ c2u' = [pc |-> "admit", turn |-> c2u.turn + 1, create |-> TRUE] /\ c2u.turn + 1 \in 0..MaxTurns
         \/ c2u' = [pc |-> "forward", turn |-> c2u.turn, create |-> FALSE]
  <2>1. c2u.turn < MaxTurns /\ c2u.turn \in Nat => c2u.turn + 1 \in 0..MaxTurns
      BY MaxTurnsNat
  <2> QED
      BY <1>1, <2>1, MaxTurnsNat DEF ReadClient
<1>2. \/ c2u'.pc = "admit" /\ c2u'.turn = c2u.turn + 1 /\ c2u'.create
      \/ c2u'.pc = "forward" /\ c2u'.turn = c2u.turn /\ ~c2u'.create
    BY <1>0
<1>3. TypeInv'
  <2>1. c2u' \in ClientPumps
    <3>1. CASE c2u' = [pc |-> "admit", turn |-> c2u.turn + 1, create |-> TRUE] /\ c2u.turn + 1 \in 0..MaxTurns
        BY <3>1 DEF ClientPumps
    <3>2. CASE c2u' = [pc |-> "forward", turn |-> c2u.turn, create |-> FALSE]
        BY <1>1, <3>2 DEF ClientPumps
    <3> QED
        BY <1>0, <3>1, <3>2
  <2>2. budget' \in Budgets
      BY BudgetType, Zenon DEF ReadClient, IndInv, TypeInv
  <2> QED
      BY <1>1, <2>1, <2>2 DEF IndInv, TypeInv
<1>4. OnePlace'
  <2>1. \A t \in Nat : Fresh(t)' <=> Fresh(t)
      BY <1>1, <1>2, MaxTurnsNat DEF Fresh
  <2>2. \A t : InHand(t)' <=> InHand(t)
      BY <1>1 DEF InHand
  <2>3. \A t \in Turn : t \in Nat /\ bound[t] \in Nat
      BY MaxTurnsNat DEF IndInv, TypeInv, Turn
  <2>4. u2c.turn \in Nat /\ temp \subseteq Turn /\ todo \subseteq Turn
      BY MaxTurnsNat DEF IndInv, TypeInv, UpstreamPumps
  <2>5. c2u'.pc = "admit" => c2u'.turn # None
      BY <1>1, <1>2, MaxTurnsNat DEF None
  <2> QED
      BY <1>1, <1>2, <2>1, <2>2, <2>3, <2>4, <2>5 DEF IndInv, OnePlace, Waiting, Bound, Cleaning, Settled, Hands
<1>5. InOrder'
    BY <1>1, <1>2 DEF IndInv, InOrder, Tracking
<1>6. LateOnly' /\ CountedFirst'
    BY <1>1 DEF IndInv, LateOnly, CountedFirst, Tracking
<1> QED
    BY <1>3, <1>4, <1>5, <1>6 DEF IndInv

\* The client's pump gives up, or goes on to its next frame.
LEMMA ClientPumpEndsInv ==
    ASSUME IndInv, ReadClientFails \/ Object \/ Tell \/ AdmitPanics \/ ForwardFails \/ StopClientPump
    PROVE  IndInv'
<1>1. /\ UNCHANGED <<main, shut, left, u2c, asked, live, budget, temp, bound, turns, todo>>
      /\ c2u.pc # "off"
      /\ \/ c2u' = C2U("exited")
         \/ c2u.pc \in {"admit", "tell"} /\ (c2u' = C2U("read") \/ c2u' = C2U("tell"))
    BY DEF ReadClientFails, Object, Tell, AdmitPanics, ForwardFails, StopClientPump, Writes, WriteFails, Unlock,
           links, peers, tracker
<1>2. /\ c2u'.pc = "exited" \/ (c2u.pc \in {"admit", "tell"} /\ c2u'.pc \in {"read", "tell"})
      /\ c2u'.turn = c2u.turn
    BY <1>1 DEF C2U, IndInv, TypeInv, ClientPumps
<1>3. TypeInv'
  <2>1. c2u' \in ClientPumps
      BY <1>1, Zenon DEF C2U, IndInv, TypeInv, ClientPumps
  <2> QED
      BY <1>1, <2>1 DEF IndInv, TypeInv
<1>4. OnePlace'
  <2>1. \A t : (Fresh(t)' => Fresh(t)) /\ (InHand(t)' <=> InHand(t))
      BY <1>1, <1>2 DEF Fresh, InHand
  <2> QED
      BY <1>1, <1>2, <2>1 DEF IndInv, OnePlace, Waiting, Bound, Cleaning, Settled, Hands
<1>5. InOrder'
    BY <1>1, <1>2 DEF IndInv, InOrder, Tracking
<1>6. LateOnly' /\ CountedFirst'
    BY <1>1 DEF IndInv, LateOnly, CountedFirst, Tracking
<1> QED
    BY <1>3, <1>4, <1>5, <1>6 DEF IndInv

\* The turn the client's pump adds is the last one and was in no place before.
LEMMA AddTurnInv == ASSUME IndInv, AddTurn PROVE IndInv'
<1> USE DEF IndInv
<1>r. /\ Turn \subseteq Nat /\ temp \subseteq Turn /\ todo \subseteq Turn /\ u2c.turn \in Nat
      /\ \A i \in Turn : bound[i] \in Nat /\ (bound[i] # None => bound[i] \in Turn)
      /\ u2c.ev.kind = "delta" => u2c.ev.id \in Turn
    BY Ranges
<1>0. PICK new \in Turn : new = c2u.turn
    BY Ranges DEF AddTurn, OnePlace, Hands
<1>1. /\ c2u.pc = "admit" /\ temp' = temp \cup {new}
      /\ UNCHANGED <<main, shut, left, u2c, asked, live, budget, bound, todo>>
    BY <1>0 DEF AddTurn, links, peers
<1>2. c2u'.pc = "forward" /\ c2u'.turn = new /\ c2u.create /\ c2u'.create
    BY <1>0, <1>1 DEF AddTurn, C2U, TypeInv, ClientPumps, OnePlace, Hands
<1>3. turns' = [turns EXCEPT ![new] = [@ EXCEPT !.admitted = TRUE, !.late = main \in {"settle", "returned"}]]
    BY <1>0 DEF AddTurn
<1>4. \A t \in Turn : /\ turns'[t].settled = turns[t].settled /\ turns'[t].isSettled = turns[t].isSettled
                      /\ turns'[t].sent = turns[t].sent /\ turns'[t].got = turns[t].got
                      /\ turns'[t].billed = turns[t].billed
    BY <1>3 DEF TypeInv, ActiveTurns
<1>5. /\ turns'[new].late <=> ~Tracking
      /\ \A t \in Turn \ {new} : turns'[t] = turns[t]
    BY <1>3, Zenon DEF TypeInv, ActiveTurns, Tracking
<1>6. TypeInv'
  <2>1. c2u' \in ClientPumps
      BY DEF AddTurn, C2U, TypeInv, ClientPumps
  <2>2. turns' \in [Turn -> ActiveTurns]
    <3>0. (main \in {"settle", "returned"}) \in BOOLEAN /\ turns[new] \in ActiveTurns
        BY DEF TypeInv
    <3>1. [turns[new] EXCEPT !.admitted = TRUE, !.late = main \in {"settle", "returned"}] \in ActiveTurns
        BY <3>0, TurnType, Zenon
    <3> QED
        BY <1>3, <3>1 DEF TypeInv
  <2> QED
      BY <1>1, <1>r, <2>1, <2>2 DEF TypeInv
<1>7. OnePlace'
  <2>1. \A t : InHand(t)' <=> InHand(t)
      BY <1>1 DEF InHand
  <2>2. \A t \in Nat : Fresh(t) <=> Fresh(t)' \/ t = new
      BY <1>0, <1>1, <1>2, <1>r DEF Fresh
  <2>3. Fresh(new) /\ ~Fresh(new)'
      BY <1>0, <1>1, <1>2, <1>r DEF Fresh
  <2>4. \A i \in Turn : bound[i] # new
      BY <1>r, <2>3, MaxTurnsNat DEF OnePlace, Bound, None
  <2>5. new \notin todo /\ ~InHand(new) /\ turns[new].settled = 0
      BY <1>r, <2>3, Zenon DEF OnePlace, Cleaning, Settled, Hands, InHand
  <2>6. Waiting'
      BY <1>1, <1>4, <1>r, <2>1, <2>2, <2>3, <2>4, <2>5 DEF OnePlace, Waiting
  <2>7. Bound'
      BY <1>1, <1>4, <1>r, <2>1, <2>2 DEF OnePlace, Bound
  <2>8. Cleaning' /\ Settled'
      BY <1>1, <1>4, <1>r, <2>1, <2>2 DEF OnePlace, Cleaning, Settled
  <2>9. Hands'
      BY <1>0, <1>1, <1>2, <1>r, <2>2, MaxTurnsNat DEF OnePlace, Hands
  <2> QED
      BY <2>6, <2>7, <2>8, <2>9 DEF OnePlace
<1>8. InOrder'
  <2> SUFFICES ASSUME budget.lawful, Tracking PROVE InOrder'
      BY <1>1 DEF InOrder, Tracking
  <2>1. \A k \in 1..Len(asked) : asked[k] < new
      BY <1>0, <1>1, <1>r DEF OnePlace, Waiting, InOrder, Fresh
  <2> QED
      BY <1>1, <1>2, <2>1 DEF InOrder, Tracking
<1>9. LateOnly'
    BY <1>1, <1>5, <1>r DEF LateOnly, Tracking
<1>10. CountedFirst'
    BY <1>1, <1>4, <1>r, Zenon DEF CountedFirst
<1> QED
    BY <1>6, <1>7, <1>8, <1>9, <1>10

\* The upstream gets the creates in the order of their turns.
LEMMA ForwardInv == ASSUME IndInv, Forward PROVE IndInv'
<1> USE DEF IndInv
<1>1. /\ c2u.pc = "forward" /\ UNCHANGED <<main, shut, left, u2c, live, budget, temp, bound, turns, todo>>
      /\ asked' = IF c2u.create /\ "upstream" \notin left THEN Append(asked, c2u.turn) ELSE asked
    BY DEF Forward, Writes, Unlock, tracker
<1>2. c2u'.pc = "read" /\ c2u'.turn = c2u.turn
    BY DEF Forward, C2U, TypeInv, ClientPumps
<1>3. c2u.create => c2u.turn \in Turn
    BY <1>1, Ranges DEF OnePlace, Hands
<1>4. TypeInv'
  <2>1. c2u' \in ClientPumps
      BY Zenon DEF Forward, C2U, TypeInv, ClientPumps
  <2>2. asked' \in Seq(Turn)
      BY <1>1, <1>3 DEF TypeInv
  <2> QED
      BY <1>1, <2>1, <2>2 DEF TypeInv
<1>5. OnePlace'
  <2>1. \A t : (Fresh(t)' => Fresh(t)) /\ (InHand(t)' <=> InHand(t))
      BY <1>1, <1>2 DEF Fresh, InHand
  <2> QED
      BY <1>1, <1>2, <2>1 DEF OnePlace, Waiting, Bound, Cleaning, Settled, Hands
<1>6. InOrder'
  <2> SUFFICES ASSUME budget.lawful, Tracking PROVE InOrder'
      BY <1>1, Zenon DEF InOrder, Tracking
  <2>1. CASE c2u.create /\ "upstream" \notin left
    <3>1. /\ asked \in Seq(Turn) /\ Len(asked) \in Nat /\ Len(asked') = Len(asked) + 1
          /\ \A k \in 1..Len(asked) : asked'[k] = asked[k]
          /\ asked'[Len(asked) + 1] = c2u.turn
        BY <1>1, <1>3, <2>1 DEF TypeInv
    <3>2. \A k \in 1..Len(asked') : k \in 1..Len(asked) \/ k = Len(asked) + 1
        BY <3>1
    <3>3. c2u.turn \in temp /\ \A k \in 1..Len(asked) : asked[k] < c2u.turn
        BY <1>1, <2>1 DEF InOrder
    <3>4. \A k, m \in 1..Len(asked') : k < m => asked'[k] < asked'[m]
        BY <3>1, <3>2, <3>3 DEF InOrder
    <3>5. \A k \in 1..Len(asked') : asked'[k] \in temp
        BY <3>1, <3>2, <3>3 DEF InOrder
    <3>6. \A t \in temp : \E k \in 1..Len(asked') : asked'[k] = t
      <4> TAKE t \in temp
      <4>1. (\E k \in 1..Len(asked) : asked[k] = t) \/ t = c2u.turn
          BY <1>1, <2>1 DEF InOrder
      <4> QED
          BY <3>1, <4>1
    <3> QED
        BY <1>1, <1>2, <3>4, <3>5, <3>6, Zenon DEF InOrder, Tracking
  <2>2. CASE ~(c2u.create /\ "upstream" \notin left)
      BY <1>1, <1>2, <2>2 DEF InOrder, Tracking
  <2> QED
      BY <2>1, <2>2
<1>7. LateOnly' /\ CountedFirst'
    BY <1>1, Zenon DEF LateOnly, CountedFirst, Tracking
<1> QED
    BY <1>4, <1>5, <1>6, <1>7

\* A response that begins takes the first of the waiting turns: as long as the
\* upstream is lawful, the one that asked for it.
LEMMA AssociateInOrder ==
    ASSUME IndInv, Tracking, budget.lawful, asked # <<>>,
           AssociateLatestTempID(Head(asked)), asked' = Tail(asked), live' = live \cup {Head(asked)},
           UNCHANGED <<main, left, c2u, budget>>
    PROVE  InOrder'
<1> USE DEF IndInv
<1>1. /\ asked \in Seq(Turn) /\ Len(asked) \in Nat /\ Len(asked) > 0 /\ Head(asked) = asked[1]
      /\ Len(asked') = Len(asked) - 1
      /\ \A k \in 1..Len(asked') : asked'[k] = asked[k + 1]
    BY DEF TypeInv
<1>2. PICK first \in Turn : first = asked[1]
    BY <1>1
<1>3. first \in temp /\ first \in Nat /\ temp \subseteq Nat /\ temp \subseteq Turn
    BY <1>1, <1>2, Ranges DEF InOrder
<1>4. \A k \in 2..Len(asked) : asked[k] \in temp /\ asked[k] # first
    BY <1>1, <1>2, <1>3 DEF InOrder
<1>5. \A t \in temp \ {first} : \/ \E k \in 2..Len(asked) : asked[k] = t
                                \/ \A k \in 1..Len(asked) : asked[k] < t
    BY <1>1, <1>2 DEF InOrder
<1>6. \A t \in temp : (\A other \in temp : t <= other) => t = first
    BY <1>1, <1>2, <1>3, <1>5 DEF InOrder
<1>7. temp' = temp \ {first} /\ bound' = [bound EXCEPT ![first] = first]
    BY <1>1, <1>2, <1>3, <1>6 DEF AssociateLatestTempID
<1>8. /\ \A k \in 1..Len(asked') : k + 1 \in 2..Len(asked)
      /\ \A k \in 2..Len(asked) : k - 1 \in 1..Len(asked') /\ asked'[k - 1] = asked[k]
    BY <1>1
<1>9. /\ \A k \in 1..Len(asked') : asked'[k] \in temp'
      /\ \A k, m \in 1..Len(asked') : k < m => asked'[k] < asked'[m]
    BY <1>1, <1>4, <1>7, <1>8 DEF InOrder
<1>10. \A t \in temp' : \/ \E k \in 1..Len(asked') : asked'[k] = t
                        \/ \A k \in 1..Len(asked') : asked'[k] < t
    BY <1>1, <1>5, <1>7, <1>8
<1>11. "upstream" \notin left' /\ c2u'.pc # "exited" =>
           \A t \in temp' : \/ \E k \in 1..Len(asked') : asked'[k] = t
                            \/ c2u'.pc = "forward" /\ c2u'.create /\ t = c2u'.turn
  <2>1. SUFFICES ASSUME "upstream" \notin left, c2u.pc # "exited", NEW t \in temp, t # first
                 PROVE  \/ \E k \in 1..Len(asked') : asked'[k] = t
                        \/ c2u.pc = "forward" /\ c2u.create /\ t = c2u.turn
      BY <1>7
  <2>2. (\E k \in 1..Len(asked) : asked[k] = t) \/ (c2u.pc = "forward" /\ c2u.create /\ t = c2u.turn)
      BY <2>1 DEF InOrder
  <2>3. \A k \in 1..Len(asked) : asked[k] = t => k \in 2..Len(asked)
      BY <1>1, <1>2, <2>1
  <2> QED
      BY <1>8, <2>2, <2>3
<1>12. c2u'.pc = "forward" /\ c2u'.create =>
           c2u'.turn \in temp' /\ \A k \in 1..Len(asked') : asked'[k] < c2u'.turn
    BY <1>1, <1>2, <1>3, <1>7, <1>8 DEF InOrder
<1>13. /\ \A i \in live' : bound'[i] = i
       /\ \A i \in Turn : bound'[i] \in {None, i}
    BY <1>1, <1>2, <1>7 DEF InOrder, TypeInv
<1> QED
    BY <1>9, <1>10, <1>11, <1>12, <1>13 DEF InOrder

\* An event of the upstream moves at most one turn: from waiting to bound, or from
\* bound into the pump's hands.
LEMMA ReadUpstreamInv == ASSUME IndInv, ReadUpstream PROVE IndInv'
<1> USE DEF IndInv
<1>r. /\ Turn \subseteq Nat /\ temp \subseteq Turn /\ todo \subseteq Turn
      /\ \A i \in Turn : bound[i] \in Nat /\ (bound[i] # None => bound[i] \in Turn)
      /\ None \notin Turn /\ None \in 0..MaxTurns /\ Turn \subseteq 0..MaxTurns
    BY Ranges, MaxTurnsNat DEF None, Turn
<1>1. u2c.pc = "read" /\ UNCHANGED <<main, shut, left, c2u, turns, todo>>
    BY DEF ReadUpstream, links
<1>2. PICK ev \in Events :
        LET turn == IF ev.kind \in {"delta", "done"} THEN bound[ev.id] ELSE None
            next == IF turn = None THEN "write" ELSE IF ev.kind = "delta" THEN "count" ELSE "settle"
        IN  /\ Sends(ev)
            /\ u2c' = [pc |-> next, turn |-> turn, ev |-> ev]
            /\ CASE ev.kind = "created" -> AssociateLatestTempID(ev.id)
                 [] ev.kind = "done" -> RemoveTurn(ev.id)
                 [] OTHER -> UNCHANGED tracker
    BY DEF ReadUpstream
<1>3. \/ ev.kind \in {"created", "delta", "done"} /\ ev.id \in Turn
      \/ ev.kind = "other"
    BY DEF Events, Event
<1>4. \/ ev.kind \in {"created", "other"} /\ u2c' = [pc |-> "write", turn |-> None, ev |-> ev]
      \/ /\ ev.kind \in {"delta", "done"} /\ bound[ev.id] = None
         /\ u2c' = [pc |-> "write", turn |-> None, ev |-> ev]
      \/ /\ ev.kind = "delta" /\ bound[ev.id] # None
         /\ u2c' = [pc |-> "count", turn |-> bound[ev.id], ev |-> ev]
      \/ /\ ev.kind = "done" /\ bound[ev.id] # None
         /\ u2c' = [pc |-> "settle", turn |-> bound[ev.id], ev |-> ev]
    BY <1>2, <1>3
<1>5. /\ ev.kind = "created" => AssociateLatestTempID(ev.id)
      /\ ev.kind = "done" => temp' = temp /\ bound' = [bound EXCEPT ![ev.id] = None]
      /\ ev.kind \in {"delta", "other"} => temp' = temp /\ bound' = bound
    BY <1>2, <1>3 DEF RemoveTurn, tracker
<1>6. /\ budget' \in Budgets /\ asked' \in Seq(Turn) /\ live' \subseteq Turn
      /\ budget'.lawful =>
            /\ budget.lawful /\ budget'.lawful = budget.lawful
            /\ \/ /\ asked # <<>> /\ ev.kind = "created" /\ ev.id = Head(asked)
                  /\ asked' = Tail(asked) /\ live' = live \cup {Head(asked)} /\ budget' = budget
               \/ ev.kind = "delta" /\ ev.id \in live /\ UNCHANGED <<asked, live>>
               \/ ev.kind = "done" /\ ev.id \in live /\ live' = live \ {ev.id} /\ asked' = asked
  <2>1. Sends(ev) /\ budget \in Budgets /\ asked \in Seq(Turn) /\ live \subseteq Turn
      BY <1>2 DEF TypeInv
  <2>2. asked # <<>> => Head(asked) \in Turn /\ Tail(asked) \in Seq(Turn)
      BY <2>1
  <2>3. /\ [budget EXCEPT !.lawful = FALSE].lawful = FALSE
        /\ [budget EXCEPT !.strays = @ + 1, !.lawful = FALSE].lawful = FALSE
        /\ [budget EXCEPT !.deltas = @ + 1].lawful = budget.lawful
      BY <2>1 DEF Budgets
  <2>4. budget' \in Budgets /\ asked' \in Seq(Turn) /\ live' \subseteq Turn
      BY <2>1, <2>2, BudgetType, Zenon DEF Sends
  <2>5. \A id : Event("created", id).kind = "created" /\ Event("created", id).id = id
      BY DEF Event
  <2>6. ASSUME budget'.lawful
        PROVE  \/ asked # <<>> /\ ev = Event("created", Head(asked))
                  /\ asked' = Tail(asked) /\ live' = live \cup {Head(asked)} /\ budget' = budget
               \/ /\ ev.kind = "delta" /\ ev.id \in live /\ UNCHANGED <<asked, live>>
                  /\ budget' = [budget EXCEPT !.deltas = @ + 1]
               \/ /\ ev.kind = "done" /\ ev.id \in live /\ live' = live \ {ev.id}
                  /\ asked' = asked /\ budget' = budget
      BY <2>1, <2>3, <2>6, Zenon DEF Sends
  <2> QED
      BY <2>3, <2>4, <2>5, <2>6, Zenon
<1>7. temp' \subseteq temp /\ bound' \in [Turn -> 0..MaxTurns]
    BY <1>r, <1>3, <1>5 DEF AssociateLatestTempID, tracker, TypeInv
<1>8. TypeInv'
  <2>1. u2c' \in UpstreamPumps
    <3>1. bound[ev.id] # None /\ ev.kind \in {"delta", "done"} => bound[ev.id] \in 0..MaxTurns
        BY <1>r, <1>3, Zenon
    <3>2. \A pc \in {"write", "count", "settle"} : \A turn \in 0..MaxTurns :
              [pc |-> pc, turn |-> turn, ev |-> ev] \in UpstreamPumps
        BY DEF UpstreamPumps
    <3> QED
        BY <1>r, <1>4, <3>1, <3>2
  <2> QED
      BY <1>1, <1>6, <1>7, <2>1 DEF TypeInv
<1>9. OnePlace'
  <2>1. /\ \A t : ~InHand(t) /\ (Fresh(t)' <=> Fresh(t))
        /\ u2c'.pc # "settle" => \A t : ~InHand(t)'
      BY <1>1 DEF InHand, Fresh
  <2>2. CASE ev.kind \in {"created", "other"} \/ bound[ev.id] = None
    <3>1. u2c'.pc = "write"
        BY <1>4, <2>2
    <3>2. \/ temp' = temp /\ bound' = bound
          \/ /\ ev.kind = "created"
             /\ \E t \in temp : temp' = temp \ {t} /\ bound' = [bound EXCEPT ![ev.id] = t]
        BY <1>3, <1>5, <2>2 DEF AssociateLatestTempID, tracker, TypeInv
    <3>3. CASE temp' = temp /\ bound' = bound
        BY <1>1, <2>1, <3>1, <3>3, Zenon DEF OnePlace, Waiting, Bound, Cleaning, Settled, Hands
    <3>4. CASE ev.kind = "created" /\ \E t \in temp : temp' = temp \ {t} /\ bound' = [bound EXCEPT ![ev.id] = t]
      <4>1. PICK t \in temp : temp' = temp \ {t} /\ bound' = [bound EXCEPT ![ev.id] = t]
          BY <3>4, Zenon
      <4>2. ev.id \in Turn /\ \A i \in Turn : bound'[i] = IF i = ev.id THEN t ELSE bound[i]
          BY <1>3, <3>4, <4>1 DEF TypeInv
      <4>3. Waiting'
        <5> SUFFICES ASSUME NEW w \in temp, w # t
                     PROVE  /\ w \notin todo /\ ~InHand(w)' /\ ~Fresh(w)' /\ turns[w].settled = 0
                            /\ \A i \in Turn : bound'[i] # w
            BY <1>1, <4>1 DEF Waiting
        <5>1. w \notin todo /\ ~Fresh(w) /\ turns[w].settled = 0 /\ \A i \in Turn : bound[i] # w
            BY DEF OnePlace, Waiting
        <5>2. ~InHand(w)'
            BY <3>1 DEF InHand
        <5> QED
            BY <2>1, <4>2, <5>1, <5>2
      <4>4. Bound'
          BY <1>1, <2>1, <3>1, <4>1, <4>2 DEF OnePlace, Waiting, Bound
      <4> QED
          BY <1>1, <2>1, <3>1, <4>3, <4>4 DEF OnePlace, Cleaning, Settled, Hands
    <3> QED
        BY <3>2, <3>3, <3>4
  <2>3. CASE ev.kind = "delta" /\ bound[ev.id] # None
    <3>1. u2c'.pc = "count" /\ u2c'.turn = bound[ev.id] /\ temp' = temp /\ bound' = bound /\ ev.id \in Turn
        BY <1>3, <1>4, <1>5, <2>3
    <3> QED
        BY <1>1, <2>1, <2>3, <3>1, Zenon DEF OnePlace, Waiting, Bound, Cleaning, Settled, Hands
  <2>4. CASE ev.kind = "done" /\ bound[ev.id] # None
    <3>1. u2c'.pc = "settle" /\ u2c'.turn = bound[ev.id] /\ temp' = temp /\ ev.id \in Turn
        BY <1>3, <1>4, <1>5, <2>4
    <3>2. \A i \in Turn : bound'[i] = IF i = ev.id THEN None ELSE bound[i]
        BY <1>5, <2>4, <3>1 DEF TypeInv
    <3>3. \A t : InHand(t)' <=> t = bound[ev.id]
        BY <3>1 DEF InHand
    <3>4. Waiting'
      <4>0. \A i \in Turn : bound'[i] = None \/ bound'[i] = bound[i]
          BY <3>2
      <4>1. ASSUME NEW t \in temp
            PROVE  t # bound[ev.id] /\ \A i \in Turn : bound'[i] # t
        <5>1. t # None
            BY <1>r, <4>1
        <5>2. \A i \in Turn : bound[i] # t
            BY <4>1 DEF OnePlace, Waiting
        <5> QED
            BY <3>1, <4>0, <5>1, <5>2
      <4> QED
          BY <1>1, <2>1, <3>1, <3>3, <4>1 DEF OnePlace, Waiting
    <3>6. Bound'
      <4>1. \A i \in Turn : bound'[i] # None => i # ev.id /\ bound'[i] = bound[i] /\ bound[i] # bound[ev.id]
          BY <2>4, <3>1, <3>2 DEF OnePlace, Bound
      <4> QED
          BY <1>1, <2>1, <3>3, <4>1 DEF OnePlace, Bound
    <3>5. Cleaning' /\ Settled' /\ Hands'
        BY <1>1, <1>r, <2>1, <2>4, <3>1, <3>3, Zenon DEF OnePlace, Bound, Cleaning, Settled, Hands
    <3> QED
        BY <3>4, <3>5, <3>6 DEF OnePlace
  <2> QED
      BY <1>3, <2>2, <2>3, <2>4
<1>10. InOrder'
  <2> SUFFICES ASSUME budget'.lawful, Tracking PROVE InOrder'
      BY <1>1, Zenon DEF InOrder, Tracking
  <2>1. CASE ev.kind = "created"
      BY <1>1, <1>5, <1>6, <2>1, AssociateInOrder
  <2>2. CASE ev.kind = "delta"
    <3>1. UNCHANGED <<main, left, c2u, temp, bound, asked, live>> /\ budget.lawful
        BY <1>1, <1>5, <1>6, <2>2
    <3> QED
        BY <3>1 DEF InOrder, Tracking
  <2>3. CASE ev.kind = "done"
    <3>1. /\ \A i \in Turn : bound'[i] = IF i = ev.id THEN None ELSE bound[i]
          /\ live' = live \ {ev.id} /\ live \subseteq Turn /\ temp' = temp /\ asked' = asked /\ budget.lawful
        BY <1>5, <1>6, <2>3 DEF TypeInv
    <3> QED
        BY <1>1, <3>1, Zenon DEF InOrder, Tracking
  <2> QED
      BY <1>3, <1>6, <2>1, <2>2, <2>3
<1>11. LateOnly'
  <2>1. \A i \in Turn : bound'[i] \in {None, bound[i]} \cup temp
      BY <1>3, <1>5 DEF AssociateLatestTempID, tracker, TypeInv
  <2> QED
      BY <1>1, <1>7, <2>1 DEF LateOnly, Tracking
<1>12. CountedFirst'
  <2>1. ASSUME budget'.lawful, "client" \notin shut, ev.kind = "delta"
        PROVE  u2c'.pc = "count" /\ u2c'.turn = ev.id
    <3>1. Tracking /\ budget.lawful /\ ev.id \in live /\ ev.id # None
        BY <1>1, <1>3, <1>6, <1>r, <2>1, Zenon DEF CountedFirst, Tracking, TypeInv
    <3>2. bound[ev.id] = ev.id
        BY <3>1, Zenon DEF InOrder
    <3> QED
      <4>1. u2c' = [pc |-> "count", turn |-> bound[ev.id], ev |-> ev]
          BY <1>4, <2>1, <3>1, <3>2
      <4> QED
          BY <3>2, <4>1
  <2>2. u2c'.ev = ev /\ (u2c'.pc = "count" => ev.kind = "delta") /\ (u2c'.pc = "settle" => ev.kind = "done")
    <3>1. CASE u2c' = [pc |-> "write", turn |-> None, ev |-> ev]
        BY <3>1
    <3>2. CASE ev.kind = "delta" /\ u2c' = [pc |-> "count", turn |-> bound[ev.id], ev |-> ev]
        BY <3>2, Zenon
    <3>3. CASE ev.kind = "done" /\ u2c' = [pc |-> "settle", turn |-> bound[ev.id], ev |-> ev]
        BY <3>3
    <3> QED
        BY <1>4, <3>1, <3>2, <3>3, Zenon
  <2> QED
      BY <1>1, <1>6, <1>7, <2>1, <2>2, Zenon DEF CountedFirst
<1> QED
    BY <1>8, <1>9, <1>10, <1>11, <1>12

\* The upstream's pump gives up: what it had in hand is done with.
LEMMA UpstreamPumpEndsInv ==
    ASSUME IndInv, ReadUpstreamFails \/ WriteClientFails \/ StopUpstreamPump
    PROVE  IndInv'
<1> USE DEF IndInv
<1>1. /\ UNCHANGED <<main, shut, left, c2u, asked, live, budget, temp, bound, turns, todo>>
      /\ u2c' = U2C("exited")
    BY DEF ReadUpstreamFails, WriteClientFails, StopUpstreamPump, WriteFails, Unlock, links, peers, tracker
<1>2. u2c'.pc = "exited"
    BY <1>1 DEF U2C
<1>3. TypeInv'
    BY <1>1, U2CType DEF TypeInv
<1>4. OnePlace'
  <2>1. \A t : (Fresh(t)' <=> Fresh(t)) /\ ~InHand(t)'
      BY <1>1, <1>2 DEF Fresh, InHand
  <2> QED
      BY <1>1, <1>2, <2>1, Zenon DEF OnePlace, Waiting, Bound, Cleaning, Settled, Hands
<1>5. InOrder' /\ LateOnly'
    BY <1>1 DEF InOrder, LateOnly, Tracking
<1>6. CountedFirst'
    BY <1>1, <1>2, Zenon DEF CountedFirst
<1> QED
    BY <1>3, <1>4, <1>5, <1>6

\* A delta is counted before it is written.
LEMMA CountInv == ASSUME IndInv, Count PROVE IndInv'
<1> USE DEF IndInv
<1>0. PICK turn \in Turn : turn = u2c.turn
    BY Ranges DEF Count, OnePlace, Hands
<1>1. /\ u2c.pc = "count" /\ UNCHANGED <<main, shut, left, c2u, asked, live, budget, temp, bound, todo>>
      /\ u2c' = [u2c EXCEPT !.pc = "write"]
      /\ turns' = [turns EXCEPT ![turn].sent = @ + 1]
    BY <1>0 DEF Count, links, peers, tracker
<1>2. u2c'.pc = "write" /\ u2c'.turn = u2c.turn /\ u2c'.ev = u2c.ev
    BY <1>1 DEF TypeInv, UpstreamPumps
<1>3. \A t \in Turn : /\ turns'[t].settled = turns[t].settled /\ turns'[t].isSettled = turns[t].isSettled
                      /\ turns'[t].got = turns[t].got /\ turns'[t].billed = turns[t].billed
                      /\ turns'[t].late = turns[t].late
                      /\ turns'[t].sent = IF t = turn THEN turns[t].sent + 1 ELSE turns[t].sent
                      /\ turns[t].sent \in Nat /\ turns[t].got \in Nat
    BY <1>1 DEF TypeInv, ActiveTurns
<1>4. TypeInv'
  <2>1. u2c' \in UpstreamPumps
      BY <1>1, Zenon DEF TypeInv, UpstreamPumps
  <2>2. turns' \in [Turn -> ActiveTurns]
      BY <1>1, TurnType, Zenon DEF TypeInv
  <2> QED
      BY <1>1, <2>1, <2>2 DEF TypeInv
<1>r. temp \subseteq Turn /\ todo \subseteq Turn /\ \A i \in Turn : bound[i] # None => bound[i] \in Turn
    BY Ranges
<1>5. OnePlace'
  <2>1. \A t : (Fresh(t)' <=> Fresh(t)) /\ ~InHand(t)' /\ ~InHand(t)
      BY <1>1, <1>2 DEF Fresh, InHand
  <2> QED
      BY <1>1, <1>2, <1>3, <1>r, <2>1 DEF OnePlace, Waiting, Bound, Cleaning, Settled, Hands
<1>6. InOrder' /\ LateOnly'
    BY <1>1, <1>3, <1>r DEF InOrder, LateOnly, Tracking
<1>7. CountedFirst'
  <2>1. \A t \in Turn : turns[t].got <= turns[t].sent => turns'[t].got <= turns'[t].sent
      BY <1>3
  <2>2. budget.lawful /\ "client" \notin shut => turn = u2c.ev.id /\ turns'[turn].got < turns'[turn].sent
      BY <1>0, <1>1, <1>3 DEF CountedFirst
  <2> QED
      BY <1>1, <1>2, <1>3, <2>1, <2>2 DEF CountedFirst
<1> QED
    BY <1>4, <1>5, <1>6, <1>7

\* What is written to the client has been counted.
LEMMA WriteClientInv == ASSUME IndInv, WriteClient PROVE IndInv'
<1> USE DEF IndInv
<1>1. /\ u2c.pc = "write" /\ "client" \notin shut
      /\ UNCHANGED <<main, shut, left, c2u, asked, live, budget, temp, bound, todo>>
      /\ u2c' = U2C("read")
    BY DEF WriteClient, Writes, Unlock, peers, tracker
<1>2. u2c'.pc = "read"
    BY <1>1 DEF U2C
<1>r. /\ temp \subseteq Turn /\ todo \subseteq Turn /\ \A i \in Turn : bound[i] # None => bound[i] \in Turn
      /\ u2c.ev.kind = "delta" => u2c.ev.id \in Turn
    BY Ranges
<1>3. \/ turns' = turns
      \/ /\ u2c.ev.kind = "delta" /\ u2c.ev.id \in Turn
         /\ turns' = [turns EXCEPT ![u2c.ev.id].got = @ + 1]
    BY <1>r DEF WriteClient
<1>4. /\ \A t \in Turn : /\ turns'[t].settled = turns[t].settled /\ turns'[t].isSettled = turns[t].isSettled
                         /\ turns'[t].sent = turns[t].sent /\ turns'[t].billed = turns[t].billed
                         /\ turns'[t].late = turns[t].late
      /\ turns' \in [Turn -> ActiveTurns]
  <2>1. CASE turns' = turns
      BY <2>1 DEF TypeInv
  <2>2. CASE u2c.ev.id \in Turn /\ turns' = [turns EXCEPT ![u2c.ev.id].got = @ + 1]
    <3>1. turns' \in [Turn -> ActiveTurns]
        BY <2>2, TurnType, Zenon DEF TypeInv
    <3> QED
        BY <2>2, <3>1, Zenon DEF TypeInv, ActiveTurns
  <2> QED
      BY <1>3, <2>1, <2>2
<1>5. TypeInv'
    BY <1>1, <1>4, U2CType DEF TypeInv
<1>6. OnePlace'
  <2>1. \A t : (Fresh(t)' <=> Fresh(t)) /\ ~InHand(t)' /\ ~InHand(t)
      BY <1>1, <1>2 DEF Fresh, InHand
  <2>2. /\ temp' = temp /\ bound' = bound /\ todo' = todo /\ main' = main /\ c2u' = c2u
        /\ \A t \in Turn : turns'[t].settled = turns[t].settled /\ turns'[t].isSettled = turns[t].isSettled
      BY <1>1, <1>4
  <2>3. Waiting'
      BY <1>r, <2>1, <2>2, Zenon DEF OnePlace, Waiting
  <2>4. Bound'
      BY <1>r, <2>1, <2>2, Zenon DEF OnePlace, Bound
  <2>5. Cleaning' /\ Settled'
      BY <1>r, <2>1, <2>2 DEF OnePlace, Cleaning, Settled
  <2>6. Hands'
      BY <1>2, <2>2 DEF OnePlace, Hands
  <2> QED
      BY <2>3, <2>4, <2>5, <2>6 DEF OnePlace
<1>7. InOrder' /\ LateOnly'
    BY <1>1, <1>4, <1>r, Zenon DEF InOrder, LateOnly, Tracking
<1>8. CountedFirst'
  <2>1. \A t \in Turn : turns[t].settled = 1 => turns[t].isSettled
      BY <1>1, Zenon DEF CountedFirst
  <2>2. budget.lawful => \A t \in Turn : turns'[t].got <= turns'[t].sent
    <3>1. \A t \in Turn : turns[t].got \in Nat /\ turns[t].sent \in Nat
        BY DEF TypeInv, ActiveTurns
    <3>2. CASE turns' = turns
        BY <3>2 DEF CountedFirst
    <3>3. CASE /\ u2c.ev.kind = "delta" /\ u2c.ev.id \in Turn
               /\ turns' = [turns EXCEPT ![u2c.ev.id].got = @ + 1]
      <4>1. \A t \in Turn : turns'[t].got = IF t = u2c.ev.id THEN turns[t].got + 1 ELSE turns[t].got
          BY <3>3 DEF TypeInv, ActiveTurns
      <4> QED
          BY <1>1, <1>4, <3>1, <3>3, <4>1 DEF CountedFirst
    <3> QED
        BY <1>3, <3>2, <3>3
  <2> QED
      BY <1>1, <1>2, <1>4, <2>1, <2>2, Zenon DEF CountedFirst
<1> QED
    BY <1>5, <1>6, <1>7, <1>8

\* response.done settles the turn in the pump's hands, which is in no other place.
LEMMA SettleInv == ASSUME IndInv, Settle PROVE IndInv'
<1> USE DEF IndInv
<1>0. PICK turn \in Turn : turn = u2c.turn
    BY Ranges DEF Settle, OnePlace, Hands
<1>1. /\ u2c.pc = "settle" /\ UNCHANGED <<main, shut, left, c2u, asked, live, budget, temp, bound, todo>>
      /\ u2c' = [u2c EXCEPT !.pc = "write"]
      /\ turns' = [turns EXCEPT ![turn] = Done(turns[turn])]
    BY <1>0 DEF Settle, links, peers, tracker
<1>2. u2c'.pc = "write" /\ u2c'.turn = u2c.turn /\ u2c'.ev = u2c.ev
    BY <1>1 DEF TypeInv, UpstreamPumps
<1>3. /\ \A t \in Turn \ {turn} : turns'[t] = turns[t]
      /\ turns'[turn].isSettled /\ turns'[turn].settled = turns[turn].settled + 1
      /\ turns'[turn].got = turns[turn].got /\ turns'[turn].sent = turns[turn].sent
      /\ turns'[turn].late = turns[turn].late
      /\ turns' \in [Turn -> ActiveTurns]
  <2>1. PICK new : new = Done(turns[turn])
      OBVIOUS
  <2>2. turns[turn] \in ActiveTurns /\ new \in ActiveTurns
      BY <2>1, TurnType, Zenon DEF TypeInv
  <2>3. turns' = [turns EXCEPT ![turn] = new]
      BY <1>1, <2>1
  <2>4. /\ new.isSettled /\ new.settled = turns[turn].settled + 1
        /\ new.got = turns[turn].got /\ new.sent = turns[turn].sent /\ new.late = turns[turn].late
      BY <2>1, <2>2 DEF ActiveTurns, Done
  <2> QED
      BY <2>2, <2>3, <2>4 DEF TypeInv
<1>4. TypeInv'
  <2>1. u2c' \in UpstreamPumps
      BY <1>1 DEF TypeInv, UpstreamPumps
  <2> QED
      BY <1>1, <1>3, <2>1 DEF TypeInv
<1>r. temp \subseteq Turn /\ todo \subseteq Turn /\ \A i \in Turn : bound[i] # None => bound[i] \in Turn
    BY Ranges
<1>5. OnePlace'
  <2>1. /\ \A t : (Fresh(t)' <=> Fresh(t)) /\ ~InHand(t)'
        /\ \A t : InHand(t) <=> t = turn
      BY <1>0, <1>1, <1>2 DEF Fresh, InHand
  <2>2. Waiting' /\ Cleaning'
      BY <1>1, <1>3, <1>r, <2>1 DEF OnePlace, Waiting, Cleaning
  <2>3. Bound'
      BY <1>1, <1>3, <1>r, <2>1 DEF OnePlace, Bound
  <2>4. Settled'
      BY <1>0, <1>1, <1>3, <2>1 DEF OnePlace, Settled, Hands
  <2>5. Hands'
      BY <1>1, <1>2, <2>1 DEF OnePlace, Hands
  <2> QED
      BY <2>2, <2>3, <2>4, <2>5 DEF OnePlace
<1>6. InOrder' /\ LateOnly'
    BY <1>1, <1>3, <1>r DEF InOrder, LateOnly, Tracking
<1>7. CountedFirst'
    BY <1>1, <1>2, <1>3 DEF CountedFirst
<1> QED
    BY <1>4, <1>5, <1>6, <1>7

\* The handler wakes up, closes the connections, returns; a peer is gone.
LEMMA HandlerInv ==
    ASSUME IndInv, Wake \/ Close \/ Return \/ \E side \in Side : Leaves(side)
    PROVE  IndInv'
<1> USE DEF IndInv
<1>1. /\ UNCHANGED <<c2u, u2c, asked, live, budget, temp, bound, turns, todo>>
      /\ \/ main = "open" /\ main' \in {"open", "close"} /\ UNCHANGED shut
         \/ /\ main = "close" /\ main' \in {"close", "collect"} /\ "client" \in shut'
            /\ shut' \in {{"client"}, shut \cup {"upstream"}}
         \/ main = "close" /\ UNCHANGED <<main, shut>>
         \/ main = "settle" /\ main' = "returned" /\ UNCHANGED shut
      /\ left \subseteq left' /\ left' \subseteq Side
    BY Zenon DEF Wake, Close, Return, Leaves, links, peers, tracker, TypeInv, Side
<1>2. TypeInv'
    BY <1>1, Zenon DEF TypeInv, Side
<1>3. OnePlace'
  <2>1. \A t : (Fresh(t)' <=> Fresh(t)) /\ (InHand(t)' <=> InHand(t))
      BY <1>1 DEF Fresh, InHand
  <2> QED
      BY <1>1, <2>1, Zenon DEF OnePlace, Waiting, Bound, Cleaning, Settled, Hands
<1>4. InOrder' /\ LateOnly'
    BY <1>1, Zenon DEF InOrder, LateOnly, Tracking
<1>5. CountedFirst'
    BY <1>1, Zenon DEF CountedFirst
<1> QED
    BY <1>2, <1>3, <1>4, <1>5

\* The cleanup takes over every turn of the tracker.
LEMMA CollectInv == ASSUME IndInv, Collect PROVE IndInv'
<1> USE DEF IndInv
<1>1. /\ main = "collect" /\ main' = "settle" /\ todo' = GetUnsettledTurns
      /\ temp' = {} /\ bound' = [i \in Turn |-> None]
      /\ UNCHANGED <<shut, left, c2u, u2c, asked, live, budget, turns>>
    BY DEF Collect, links, peers
<1>2. \A t \in todo' : t \in Turn /\ (t \in temp \/ \E i \in Turn : bound[i] = t /\ bound[i] # None)
    BY <1>1, Ranges DEF GetUnsettledTurns
<1>3. TypeInv'
    BY <1>1, <1>2, MaxTurnsNat DEF TypeInv, None
<1>4. OnePlace'
  <2>1. \A t : (Fresh(t)' <=> Fresh(t)) /\ (InHand(t)' <=> InHand(t))
      BY <1>1 DEF Fresh, InHand
  <2>2. Cleaning'
    <3>1. \A t \in todo' : ~InHand(t) /\ ~Fresh(t) /\ turns[t].settled = 0
        BY <1>2 DEF OnePlace, Waiting, Bound
    <3> QED
        BY <1>1, <2>1, <3>1 DEF Cleaning
  <2> QED
      BY <1>1, <2>1, <2>2, Zenon DEF OnePlace, Waiting, Bound, Settled, Hands
<1>5. InOrder' /\ LateOnly'
    BY <1>1, Zenon DEF InOrder, LateOnly, Tracking
<1>6. CountedFirst'
    BY <1>1, Zenon DEF CountedFirst
<1> QED
    BY <1>3, <1>4, <1>5, <1>6

\* The cleanup settles a turn that is in no other place, for what was counted.
LEMMA SettleUnsettledInv == ASSUME IndInv, SettleUnsettled PROVE IndInv'
<1> USE DEF IndInv
<1>1. main = "settle" /\ UNCHANGED <<main, shut, left, c2u, u2c, asked, live, budget, temp, bound>>
    BY DEF SettleUnsettled, links, peers, tracker
<1>2. PICK turn \in todo :
        /\ todo' = todo \ {turn}
        /\ turns' = [turns EXCEPT ![turn] = CutOff(turns[turn])]
    BY Zenon DEF SettleUnsettled
<1>r. /\ temp \subseteq Turn /\ todo \subseteq Turn /\ \A i \in Turn : bound[i] # None => bound[i] \in Turn
      /\ turn \in Turn
    BY Ranges
<1>3. /\ \A t \in Turn \ {turn} : turns'[t] = turns[t]
      /\ turns'[turn].settled = turns[turn].settled + 1 /\ turns'[turn].isSettled = turns[turn].isSettled
      /\ turns'[turn].got = turns[turn].got /\ turns'[turn].sent = turns[turn].sent
      /\ turns'[turn].billed = turns[turn].sent /\ turns'[turn].late = turns[turn].late
      /\ turns' \in [Turn -> ActiveTurns]
  <2>1. PICK new : new = CutOff(turns[turn])
      OBVIOUS
  <2>2. turns[turn] \in ActiveTurns /\ new \in ActiveTurns
      BY <1>r, <2>1, TurnType, Zenon DEF TypeInv
  <2>3. turns' = [turns EXCEPT ![turn] = new]
      BY <1>2, <2>1
  <2>4. /\ new.isSettled = turns[turn].isSettled /\ new.settled = turns[turn].settled + 1
        /\ new.got = turns[turn].got /\ new.sent = turns[turn].sent
        /\ new.billed = turns[turn].sent /\ new.late = turns[turn].late
      BY <2>1, <2>2 DEF ActiveTurns, CutOff
  <2> QED
      BY <1>r, <2>2, <2>3, <2>4, Zenon DEF TypeInv
<1>4. TypeInv'
    BY <1>1, <1>2, <1>3, Zenon DEF TypeInv
<1>5. OnePlace'
  <2>1. /\ \A t : (Fresh(t)' <=> Fresh(t)) /\ (InHand(t)' <=> InHand(t))
        /\ ~Fresh(turn) /\ ~InHand(turn) /\ turns[turn].settled = 0
        /\ turns[turn].isSettled => turns[turn].settled = 1
      BY <1>1, <1>r, Zenon DEF Fresh, InHand, OnePlace, Cleaning, Settled
  <2>2. Waiting' /\ Cleaning'
    <3>1. Waiting'
        BY <1>1, <1>2, <1>3, <1>r, <2>1, Zenon DEF OnePlace, Waiting
    <3>2. Cleaning'
        BY <1>1, <1>2, <1>3, <1>r, <2>1, Zenon DEF OnePlace, Cleaning
    <3> QED
        BY <3>1, <3>2
  <2>3. Bound'
    <3>1. \A i \in Turn : bound[i] # None => bound[i] # turn /\ bound[i] \in Turn
        BY <1>1, <1>r, Zenon DEF OnePlace, Bound
    <3> QED
      <4>1. /\ bound' = bound /\ todo' \subseteq todo
            /\ \A i \in Turn : bound[i] # None => turns'[bound[i]] = turns[bound[i]]
          BY <1>1, <1>2, <1>3, <3>1
      <4> QED
          BY <2>1, <4>1, Zenon DEF OnePlace, Bound
  <2>4. Settled'
    <3>1. turns'[turn].settled = 1
      <4>1. 0 + 1 = 1
          OBVIOUS
      <4> QED
          BY <1>3, <2>1, <4>1, Zenon
    <3>2. \A t \in Turn \ {turn} : turns'[t] = turns[t]
        BY <1>3
    <3> QED
      <4>1. \A t \in Turn \ {turn} : /\ InHand(t)' => turns'[t].settled = 0
                                     /\ Fresh(t)' => turns'[t].settled = 0
                                     /\ turns'[t].settled <= 1
                                     /\ turns'[t].isSettled => turns'[t].settled = 1
          BY <2>1, <3>2, Zenon DEF OnePlace, Settled
      <4>2. /\ ~InHand(turn)' /\ ~Fresh(turn)' /\ 1 <= 1
          BY <2>1
      <4> QED
          BY <3>1, <4>1, <4>2, Zenon DEF Settled
  <2>5. Hands'
    <3>1. UNCHANGED <<main, c2u, u2c>> /\ main = "settle"
        BY <1>1
    <3> QED
        BY <2>1, <3>1, Zenon DEF OnePlace, Hands
  <2> QED
      BY <2>2, <2>3, <2>4, <2>5 DEF OnePlace
<1>6. InOrder' /\ LateOnly'
    BY <1>1, <1>3, <1>r, Zenon DEF InOrder, LateOnly, Tracking
<1>7. CountedFirst'
  <2>1. \A t \in Turn : turns'[t].got = turns[t].got /\ turns'[t].sent = turns[t].sent
      BY <1>3, Zenon
  <2>2. budget.lawful => \A t \in Turn : turns'[t].settled = 1 /\ ~turns'[t].isSettled => turns'[t].got <= turns'[t].billed
      BY <1>3, <1>r, Zenon DEF CountedFirst
  <2> QED
      BY <1>1, <2>1, <2>2, Ranges, Zenon DEF CountedFirst
<1> QED
    BY <1>4, <1>5, <1>6, <1>7

\* The invariant is inductive.
LEMMA NextInv == ASSUME IndInv, [Next]_vars PROVE IndInv'
<1>1. CASE Handler
    BY <1>1, HandshakeInv, UpgradeInv, HandlerInv, CollectInv, SettleUnsettledInv DEF Handler
<1>2. CASE ClientPump
  <2>1. CASE LockToTell \/ LockToForward
      BY <2>1, FrameInv DEF LockToTell, LockToForward, Lock, session, peers, tracker
  <2> QED
      BY <1>2, <2>1, ReadClientInv, AddTurnInv, ForwardInv, ClientPumpEndsInv DEF ClientPump
<1>3. CASE UpstreamPump
  <2>1. CASE LockToWrite
      BY <2>1, FrameInv DEF LockToWrite, Lock, session, peers, tracker
  <2> QED
      BY <1>3, <2>1, ReadUpstreamInv, CountInv, SettleInv, WriteClientInv, UpstreamPumpEndsInv DEF UpstreamPump
<1>4. CASE Peers
  <2>1. CASE ContextEnds
      BY <2>1, FrameInv DEF ContextEnds, session, peers, tracker
  <2>2. CASE \E side \in Side : Leaves(side)
      BY <2>2, HandlerInv
  <2>3. CASE \E side \in Side : Stalls(side)
      BY <2>3, FrameInv DEF Stalls, session, peers, tracker
  <2> QED
      BY <1>4, <2>1, <2>2, <2>3, Zenon DEF Peers
<1>5. CASE UNCHANGED vars
    BY <1>5, FrameInv DEF vars, session, links, peers, tracker
<1> QED
    BY <1>1, <1>2, <1>3, <1>4, <1>5 DEF Next

\* In every state of every session the invariant holds.
LEMMA Invariance == Spec => []IndInv
<1>1. IndInv /\ [Next]_vars => IndInv'
    BY NextInv
<1> QED
    BY InitInv, <1>1, PTL DEF Spec

\* Whatever the peers do and however the pumps and the cleanup interleave, no turn
\* is settled twice, and a turn that the cleanup settles is billed for at least
\* the deltas its client was sent, as long as the upstream keeps to the protocol
\* (pkg/core/engine_websocket.go, handleUpstreamEvent and the cleanup).
THEOREM SettlesOnce == Spec => []SettledOnce
<1>1. IndInv => SettledOnce
  <2> SUFFICES ASSUME IndInv PROVE SettledOnce
      OBVIOUS
  <2>1. \A t \in Turn : turns[t].got \in Nat /\ turns[t].billed \in Nat
      BY DEF IndInv, TypeInv, ActiveTurns
  <2> QED
      BY <2>1, Zenon DEF IndInv, OnePlace, Settled, CountedFirst, SettledOnce
<1> QED
    BY <1>1, Invariance, PTL

\* As long as the upstream keeps to the protocol, AssociateLatestTempID
\* (pkg/core/ws_session.go) binds each response to the turn that asked for it,
\* for any number of turns and whatever the filters refuse.
THEOREM BindsInOrder == Spec => []BoundInOrder
<1>1. IndInv => BoundInOrder
    BY DEF IndInv, InOrder, LateOnly, Tracking, BoundInOrder
<1> QED
    BY <1>1, Invariance, PTL
==============================================================================
