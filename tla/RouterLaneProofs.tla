-------------------------- MODULE RouterLaneProofs --------------------------
(***************************************************************************)
(* TLAPS proofs about RouterLane, for any number of session ids,           *)
(* connections and requests.                                               *)
(***************************************************************************)
EXTENDS RouterLane, NaturalsInduction, WellFoundedInduction, TLAPS

-----------------------------------------------------------------------------
(* The inductive invariant, of the gate g and the requests iss made so far *)

\* Requests and calls have the same numbers, and incarnations are handed out
\* in order.
Counted(g, iss) ==
    /\ g \in Gates /\ iss \in History
    /\ g.lastSeq = Len(iss) /\ Len(iss) <= MaxRequests /\ g.lastInc <= MaxConnections
    /\ \A i \in DOMAIN iss : iss[i].inc <= g.lastInc

\* What waits in a lane: requests of its connection without an answer, in order.
InLine(lane, g, iss) ==
    /\ \A n \in DOMAIN lane.queued :
          /\ lane.queued[n].seq = lane.queued[n].id
          /\ lane.queued[n].id \in DOMAIN iss
          /\ iss[lane.queued[n].id].inc = lane.inc
          /\ iss[lane.queued[n].id].msg = lane.queued[n].msg
          /\ ~answered(g, lane.queued[n].id)
          /\ lane.inFlight < lane.queued[n].id
    /\ \A m, n \in DOMAIN lane.queued : m < n => lane.queued[m].id < lane.queued[n].id

\* A request of the connection is answered, in flight or in the lane, until the
\* client is sent elsewhere.
Accounted(lane, g, iss) ==
    /\ lane.redirected => lane.queued = <<>>
    /\ ~lane.redirected =>
          \A j \in DOMAIN iss : iss[j].inc = lane.inc =>
              answered(g, j) \/ j = lane.inFlight \/ \E n \in DOMAIN lane.queued : lane.queued[n].id = j

\* A lane that lets EnterGame pass was granted a Login before what waits in it.
Opened(lane, g, iss) ==
    lane.loginSucceeded =>
        \E r \in g.answers : /\ r.kind = "granted" /\ r.id \in DOMAIN iss /\ iss[r.id].inc = lane.inc
                             /\ \A n \in DOMAIN lane.queued : r.id < lane.queued[n].id

LaneOK(lane, g, iss) ==
    /\ lane.inc <= g.lastInc /\ Depth(lane) <= kMaxLaneDepth
    /\ InLine(lane, g, iss) /\ Accounted(lane, g, iss) /\ Opened(lane, g, iss)

\* No two connections have one incarnation.
Apart(g) ==
    \A s, t \in Sids :
        g.sessions[s] # None /\ g.sessions[t] # None /\ g.sessions[s].inc = g.sessions[t].inc
        => s = t

\* A call in the index is in flight on its lane, and without an answer.
CallOK(c, g, iss) ==
    /\ claims(g, c) /\ c.id = c.seq /\ c.seq \in DOMAIN iss
    /\ iss[c.seq].inc = c.inc /\ iss[c.seq].msg = c.msg /\ ~answered(g, c.seq)

IndexOK(g, iss) ==
    /\ \A c \in g.inflight : CallOK(c, g, iss)
    /\ \A c, d \in g.inflight : c.seq = d.seq => c = d
    /\ \A s \in Sids : g.sessions[s] # None /\ g.sessions[s].inFlight # kNoCallSeq =>
          \E c \in g.inflight : c.seq = g.sessions[s].inFlight /\ c.sid = s

AnswersOK(g, iss) ==
    /\ g.again = {}
    /\ \A r, t \in g.answers : r.id = t.id => r = t
    /\ \A r \in g.answers : r.id \in DOMAIN iss /\ r.inc = iss[r.id].inc

\* An EnterGame has a granted Login of its connection before it.
Entitled(i, g, iss) ==
    iss[i].msg = "EnterGame" =>
        \E r \in g.answers : r.kind = "granted" /\ r.id < i /\ iss[r.id].inc = iss[i].inc

SentOK(g, iss) == \A i \in g.sent : i \in DOMAIN iss /\ Entitled(i, g, iss)

LanesOK(g, iss) == \A s \in Sids : g.sessions[s] # None => LaneOK(g.sessions[s], g, iss)

GateOK(g, iss) ==
    /\ Counted(g, iss) /\ LanesOK(g, iss) /\ Apart(g)
    /\ IndexOK(g, iss) /\ AnswersOK(g, iss) /\ SentOK(g, iss)

LInv == GateOK(gate, issued) /\ router \in BOOLEAN

-----------------------------------------------------------------------------
(* One lane *)

\* A set of naturals that is not empty has a least element.
LEMMA Least ==
    ASSUME NEW S \in SUBSET Nat, S # {}
    PROVE  \E n \in S : \A m \in S : n <= m
<1>1. IsWellFoundedOn(OpToRel(<, Nat), Nat)
  BY Zenon, NatLessThanWellFounded
<1>2. \E x \in S : \A y \in S : ~ (<<y, x>> \in OpToRel(<, Nat))
  BY Zenon, <1>1, WFMin
<1>3. PICK x \in S : \A y \in S : ~ (<<y, x>> \in OpToRel(<, Nat))
  BY Zenon, <1>2
<1>4. ASSUME NEW y \in S PROVE x <= y
  <2>1. ~ (y < x)
    BY ZenonT(30), <1>3, <1>4 DEF OpToRel
  <2> QED BY <2>1
<1> QED BY Zenon, <1>4

\* Where Pump stops in a lane: it is busy, or all its requests are refused, or
\* the first that is not.
LEMMA TurnFacts ==
    ASSUME NEW lane \in Lanes
    PROVE  \/ lane.inFlight # kNoCallSeq /\ turn(lane) = 0
           \/ /\ lane.inFlight = kNoCallSeq /\ turn(lane) = Len(lane.queued) + 1
              /\ \A n \in DOMAIN lane.queued : refusal(lane.queued[n], lane) # "none"
           \/ /\ lane.inFlight = kNoCallSeq /\ turn(lane) \in DOMAIN lane.queued
              /\ refusal(lane.queued[turn(lane)], lane) = "none"
              /\ \A n \in DOMAIN lane.queued : n < turn(lane) => refusal(lane.queued[n], lane) # "none"
<1>1. CASE lane.inFlight # kNoCallSeq
  BY Zenon, <1>1 DEF turn
<1>2. CASE lane.inFlight = kNoCallSeq /\ sendable(lane) = {}
  BY Zenon, <1>2 DEF turn, sendable
<1>3. CASE lane.inFlight = kNoCallSeq /\ sendable(lane) # {}
  <2>1. DOMAIN lane.queued \subseteq Nat
    BY DEF Lanes
  <2>2. sendable(lane) \in SUBSET Nat
    BY Zenon, <2>1 DEF sendable
  <2>3. turn(lane) \in sendable(lane) /\ \A m \in sendable(lane) : turn(lane) <= m
    <3>1. \E n \in sendable(lane) : \A m \in sendable(lane) : n <= m
      BY Zenon, <1>3, <2>2, Least
    <3>2. turn(lane) = CHOOSE n \in sendable(lane) : \A m \in sendable(lane) : n <= m
      BY Zenon, <1>3 DEF turn
    <3> QED BY Zenon, <3>1, <3>2
  <2>4. \A n \in DOMAIN lane.queued : n < turn(lane) => n \notin sendable(lane)
    <3>1. turn(lane) \in Nat
      BY Zenon, <2>2, <2>3
    <3> QED BY <2>1, <2>3, <3>1
  <2> QED BY Zenon, <1>3, <2>3, <2>4 DEF sendable
<1> QED BY Zenon, <1>1, <1>2, <1>3

\* The rest of a sequence.
LEMMA RestOf ==
    ASSUME NEW T, NEW p \in Seq(T), NEW t \in 0..(Len(p) + 1)
    PROVE  LET q == SubSeq(p, t + 1, Len(p))
           IN  /\ q \in Seq(T)
               /\ Len(q) = IF t <= Len(p) THEN Len(p) - t ELSE 0
               /\ \A n \in 1..Len(q) : q[n] = p[n + t]
<1> DEFINE q == SubSeq(p, t + 1, Len(p))
<1>1. Len(p) \in Nat /\ t \in Nat /\ t + 1 \in 1..(Len(p) + 2)
  OBVIOUS
<1>2. q \in Seq(T)
  <2>1. \A n \in 1..Len(p) : p[n] \in T
    OBVIOUS
  <2> QED BY <1>1, <2>1
<1>3. Len(q) = IF t <= Len(p) THEN Len(p) - t ELSE 0
  <2>1. CASE t <= Len(p)
    BY <1>1, <2>1
  <2>2. CASE ~ (t <= Len(p))
    BY <1>1, <2>2
  <2> QED BY Zenon, <2>1, <2>2
<1>4. ASSUME NEW n \in 1..Len(q) PROVE q[n] = p[n + t]
  <2>1. n \in 1..(Len(p) - t)
    BY <1>1, <1>3
  <2> QED BY <1>1, <2>1
<1> QED BY Zenon, <1>2, <1>3, <1>4

\* What Pump leaves of a lane: what comes after the request at which it stopped.
LEMMA MarkSentFacts ==
    ASSUME NEW lane \in Lanes, \A n \in DOMAIN lane.queued : lane.queued[n].seq \in Requests
    PROVE  LET l == MarkSent(lane)
           IN  /\ l \in Lanes /\ l.inc = lane.inc /\ l.redirected = lane.redirected
               /\ l.loginSucceeded = lane.loginSucceeded
               /\ l.inFlight = IF turn(lane) \in DOMAIN lane.queued
                               THEN lane.queued[turn(lane)].seq ELSE lane.inFlight
               /\ \A n \in DOMAIN l.queued :
                     /\ n + turn(lane) \in DOMAIN lane.queued
                     /\ l.queued[n] = lane.queued[n + turn(lane)]
               /\ \A k \in DOMAIN lane.queued : k > turn(lane) =>
                     \E n \in DOMAIN l.queued : l.queued[n] = lane.queued[k]
               /\ Depth(l) <= Depth(lane)
<1> DEFINE q == SubSeq(lane.queued, turn(lane) + 1, Len(lane.queued))
           f == IF turn(lane) \in DOMAIN lane.queued
                THEN lane.queued[turn(lane)].seq ELSE lane.inFlight
           l == [lane EXCEPT !.queued = q, !.inFlight = f]
<1>0. lane.queued \in Seq(Items) /\ lane.inFlight \in 0..MaxRequests
  BY DEF Lanes
<1>1. turn(lane) \in 0..(Len(lane.queued) + 1)
  BY <1>0, TurnFacts
<1>2. /\ q \in Seq(Items)
      /\ Len(q) = IF turn(lane) <= Len(lane.queued) THEN Len(lane.queued) - turn(lane) ELSE 0
      /\ \A n \in 1..Len(q) : q[n] = lane.queued[n + turn(lane)]
  BY Zenon, <1>0, <1>1, RestOf
<1>3. f \in 0..MaxRequests
  BY <1>0 DEF Requests
<1>4. MarkSent(lane) = l
  BY Zenon DEF MarkSent
<1> HIDE DEF q, f
<1>5. l \in Lanes
  BY ZenonT(30), <1>2, <1>3 DEF Lanes
<1>6. /\ l.inc = lane.inc /\ l.redirected = lane.redirected /\ l.queued = q /\ l.inFlight = f
      /\ l.loginSucceeded = lane.loginSucceeded
  BY DEF Lanes
<1> HIDE DEF l
<1>7. \A n \in DOMAIN q : n + turn(lane) \in DOMAIN lane.queued /\ q[n] = lane.queued[n + turn(lane)]
  <2> SUFFICES ASSUME NEW n \in DOMAIN q
               PROVE  n + turn(lane) \in DOMAIN lane.queued /\ q[n] = lane.queued[n + turn(lane)]
    OBVIOUS
  <2>1. n \in 1..Len(q)
    BY <1>2
  <2>2. n + turn(lane) \in 1..Len(lane.queued)
    BY <1>0, <1>1, <1>2, <2>1
  <2> QED BY <1>0, <1>2, <2>1, <2>2
<1>8. ASSUME NEW k \in DOMAIN lane.queued, k > turn(lane)
      PROVE  \E n \in DOMAIN q : q[n] = lane.queued[k]
  <2>1. k - turn(lane) \in DOMAIN q /\ (k - turn(lane)) + turn(lane) = k
    BY <1>0, <1>1, <1>2, <1>8
  <2>2. q[k - turn(lane)] = lane.queued[k]
    BY Zenon, <1>7, <2>1
  <2> QED BY Zenon, <2>1, <2>2
<1>9. Depth(l) <= Depth(lane)
  <2> DEFINE x == IF f = 0 THEN 0 ELSE 1
             y == IF lane.inFlight = 0 THEN 0 ELSE 1
  <2>1. x \in {0, 1} /\ y \in {0, 1} /\ (f = lane.inFlight => x = y) /\ Len(lane.queued) \in Nat
    BY <1>0
  <2> HIDE DEF x, y
  <2>2. CASE turn(lane) = 0
    <3>1. f = lane.inFlight /\ Len(q) = Len(lane.queued)
      BY <1>0, <1>2, <2>2 DEF f
    <3>2. Len(q) + x <= Len(lane.queued) + y
      BY <2>1, <3>1
    <3> QED BY Zenon, <1>6, <3>2 DEF Depth, kNoCallSeq, x, y
  <2>3. CASE turn(lane) = Len(lane.queued) + 1
    <3>1. f = lane.inFlight /\ Len(q) = 0
      BY <1>0, <1>2, <2>3 DEF f
    <3>2. Len(q) + x <= Len(lane.queued) + y
      BY <2>1, <3>1
    <3> QED BY Zenon, <1>6, <3>2 DEF Depth, kNoCallSeq, x, y
  <2>4. CASE turn(lane) \in DOMAIN lane.queued
    <3>1. turn(lane) \in 1..Len(lane.queued) /\ Len(q) = Len(lane.queued) - turn(lane)
      BY <1>0, <1>2, <2>4
    <3>2. Len(q) + x <= Len(lane.queued) + y
      BY <2>1, <3>1
    <3> QED BY Zenon, <1>6, <3>2 DEF Depth, kNoCallSeq, x, y
  <2> QED BY Zenon, <2>2, <2>3, <2>4, TurnFacts
<1> QED BY Zenon, <1>4, <1>5, <1>6, <1>7, <1>8, <1>9 DEF f

-----------------------------------------------------------------------------
(* Pump *)

Refusals(g, S) == UNION {refusals(g.sessions[s]) : s \in S}
Sendings(g, S) == UNION {sending(s, g.sessions[s]) : s \in S}

pumped(g, S) == [s \in Sids |-> IF s \in S THEN MarkSent(g.sessions[s]) ELSE g.sessions[s]]

\* What an answer changes.
LEMMA AnsweredEffect ==
    ASSUME NEW g \in Gates, NEW A
    PROVE  LET h == Answered(g, A)
           IN  /\ h.sessions = g.sessions /\ h.inflight = g.inflight /\ h.lastSeq = g.lastSeq
               /\ h.lastInc = g.lastInc /\ h.wire = g.wire /\ h.sent = g.sent
               /\ h.answers = g.answers \cup A
               /\ h.again = g.again \cup ({r.id : r \in A} \cap {r.id : r \in g.answers})
BY DEF Answered, Gates

\* What Pump changes.
LEMMA PumpEffect ==
    ASSUME NEW g \in Gates, NEW S
    PROVE  LET h == Pump(g, S)
           IN  /\ h.sessions = pumped(g, S)
               /\ h.inflight = Insert(g.inflight, Sendings(g, S))
               /\ h.wire = g.wire \cup {c.seq : c \in Sendings(g, S)}
               /\ h.sent = g.sent \cup {c.id : c \in Sendings(g, S)}
               /\ h.lastSeq = g.lastSeq /\ h.lastInc = g.lastInc
               /\ h.answers = g.answers \cup Refusals(g, S)
               /\ h.again = g.again \cup ({r.id : r \in Refusals(g, S)} \cap {r.id : r \in g.answers})
<1> DEFINE B == Sendings(g, S)
           A == Refusals(g, S)
           z == [s \in Sids |-> IF s \in S THEN MarkSent(g.sessions[s]) ELSE g.sessions[s]]
           y == Insert(g.inflight, B)
           w == g.wire \cup {c.seq : c \in B}
           u == g.sent \cup {c.id : c \in B}
           k == [g EXCEPT !.sessions = z, !.inflight = y, !.wire = w, !.sent = u]
           v == g.again \cup ({r.id : r \in A} \cap {r.id : r \in g.answers})
           h == [k EXCEPT !.answers = @ \cup A, !.again = @ \cup ({r.id : r \in A} \cap {r.id : r \in k.answers})]
<1>1. Pump(g, S) = h
  BY Zenon DEF Pump, Answered, Sendings, Refusals
<1> HIDE DEF B, A, z, y, w, u
<1>2. /\ k.sessions = z /\ k.inflight = y /\ k.wire = w /\ k.sent = u /\ k.lastSeq = g.lastSeq
      /\ k.lastInc = g.lastInc /\ k.answers = g.answers /\ k.again = g.again
      /\ DOMAIN k = DOMAIN g
  BY DEF Gates
<1>3. DOMAIN k = {"sessions", "inflight", "lastSeq", "lastInc", "wire", "answers", "again", "sent"}
  BY DEF Gates
<1> HIDE DEF k
<1>4. /\ h.sessions = k.sessions /\ h.inflight = k.inflight /\ h.wire = k.wire /\ h.sent = k.sent
      /\ h.lastSeq = k.lastSeq /\ h.lastInc = k.lastInc /\ h.answers = k.answers \cup A
      /\ h.again = k.again \cup ({r.id : r \in A} \cap {r.id : r \in k.answers})
  BY <1>3
<1> HIDE DEF h
<1> QED BY Zenon, <1>1, <1>2, <1>4 DEF B, A, y, w, u, z, pumped

\* The type of a gate whose parts are replaced.
LEMMA GateUpdate ==
    ASSUME NEW g \in Gates, NEW z \in [Sids -> Lanes \cup {None}], NEW y \in SUBSET Calls,
           NEW w \in SUBSET Requests, NEW u \in SUBSET Requests
    PROVE  [g EXCEPT !.sessions = z, !.inflight = y, !.wire = w, !.sent = u] \in Gates
BY ZenonT(30) DEF Gates

\* The type of a gate that has answered.
LEMMA AnsweredTyped ==
    ASSUME NEW g \in Gates, NEW A \in SUBSET Answers
    PROVE  Answered(g, A) \in Gates
<1> DEFINE x == g.answers \cup A
           y == g.again \cup ({r.id : r \in A} \cap {r.id : r \in g.answers})
<1>1. g.answers \in SUBSET Answers /\ g.again \in SUBSET Requests
  BY DEF Gates
<1>2. x \in SUBSET Answers
  BY Zenon, <1>1
<1>3. {r.id : r \in A} \subseteq Requests
  BY Zenon DEF Answers
<1>4. y \in SUBSET Requests
  BY Zenon, <1>1, <1>3
<1>5. Answered(g, A) = [g EXCEPT !.answers = x, !.again = y]
  BY Zenon DEF Answered
<1> HIDE DEF x, y
<1> QED BY ZenonT(30), <1>2, <1>4, <1>5 DEF Gates

\* The kinds of refusals.
LEMMA RefusalKinds ==
    ASSUME NEW x, NEW lane
    PROVE  /\ refusal(x, lane) \in {"unavailable", "notLoggedIn", "none"}
           /\ refusal(x, lane) = "none" /\ RequiresSuccessfulLogin(x.msg) => lane.loginSucceeded
BY DEF refusal

\* The answer r refuses request n of the lane.
Refused(r, lane, n) ==
    /\ n \in DOMAIN lane.queued /\ n < turn(lane) /\ lane.inFlight = kNoCallSeq
    /\ r.id = lane.queued[n].id /\ r.inc = lane.inc /\ r.kind = refusal(lane.queued[n], lane)
    /\ r.kind # "granted" /\ r \in Answers

\* A refusal answers a request that comes before the one at which Pump stops.
LEMMA RefusalFacts ==
    ASSUME NEW g, NEW S, \A s \in S : g.sessions[s] \in Lanes
    PROVE  /\ \A r \in Refusals(g, S) : \E s \in S : \E n : Refused(r, g.sessions[s], n)
           /\ \A s \in S : \A n \in DOMAIN g.sessions[s].queued :
                 n < turn(g.sessions[s]) =>
                     \E r \in Refusals(g, S) : r.id = g.sessions[s].queued[n].id
<1>1. ASSUME NEW s \in S, NEW r \in refusals(g.sessions[s])
      PROVE  \E n : Refused(r, g.sessions[s], n)
  <2> DEFINE lane == g.sessions[s]
  <2>1. PICK n \in 1..(turn(lane) - 1) :
           r = [id |-> lane.queued[n].id, inc |-> lane.inc, kind |-> refusal(lane.queued[n], lane)]
    BY Zenon DEF refusals
  <2>2. lane \in Lanes
    BY Zenon
  <2> HIDE DEF lane
  <2>3. lane.queued \in Seq(Items) /\ lane.inc \in Incarnations
    BY <2>2 DEF Lanes
  <2>4. /\ n \in DOMAIN lane.queued /\ n < turn(lane) /\ lane.inFlight = kNoCallSeq
        /\ refusal(lane.queued[n], lane) # "none"
    BY <2>1, <2>2, <2>3, TurnFacts
  <2>5. lane.queued[n].id \in Requests
    <3>1. lane.queued[n] \in Items
      BY <2>3, <2>4
    <3> QED BY Zenon, <3>1 DEF Items
  <2>6. refusal(lane.queued[n], lane) \in {"unavailable", "notLoggedIn"}
    BY Zenon, <2>4, RefusalKinds
  <2>7. /\ r.kind # "granted" /\ r \in Answers /\ r.id = lane.queued[n].id /\ r.inc = lane.inc
        /\ r.kind = refusal(lane.queued[n], lane)
    BY <2>1, <2>3, <2>5, <2>6 DEF Answers
  <2> QED BY Zenon, <2>4, <2>7 DEF lane, Refused
<1>2. ASSUME NEW s \in S, NEW n \in DOMAIN g.sessions[s].queued, n < turn(g.sessions[s])
      PROVE  \E r \in refusals(g.sessions[s]) : r.id = g.sessions[s].queued[n].id
  <2> DEFINE lane == g.sessions[s]
             r == [id |-> lane.queued[n].id, inc |-> lane.inc, kind |-> refusal(lane.queued[n], lane)]
  <2>1. lane \in Lanes
    BY Zenon
  <2> HIDE DEF lane
  <2>2. n \in DOMAIN lane.queued /\ n < turn(lane)
    BY Zenon, <1>2 DEF lane
  <2>3. n \in 1..Len(lane.queued)
    BY <2>1, <2>2 DEF Lanes
  <2>4. n \in 1..(turn(lane) - 1)
    BY <2>1, <2>2, <2>3, TurnFacts
  <2>5. r \in refusals(lane) /\ r.id = lane.queued[n].id
    BY Zenon, <2>4 DEF refusals
  <2> QED BY Zenon, <2>5 DEF lane
<1>3. \A r \in Refusals(g, S) : \E s \in S : r \in refusals(g.sessions[s])
  BY Zenon DEF Refusals
<1>4. \A s \in S : \A r \in refusals(g.sessions[s]) : r \in Refusals(g, S)
  BY Zenon DEF Refusals
<1>5. \A r \in Refusals(g, S) : \E s \in S : \E n : Refused(r, g.sessions[s], n)
  BY Zenon, <1>1, <1>3
<1> QED BY Zenon, <1>2, <1>4, <1>5

\* The call c is for the request at which Pump stops in the lane.
MadeFor(c, lane) ==
    /\ c \in Calls /\ turn(lane) \in DOMAIN lane.queued /\ lane.inFlight = kNoCallSeq
    /\ c = [seq |-> lane.queued[turn(lane)].seq, sid |-> c.sid, inc |-> lane.inc,
            id |-> lane.queued[turn(lane)].id, msg |-> lane.queued[turn(lane)].msg, due |-> FALSE]
    /\ c.seq = lane.queued[turn(lane)].seq /\ c.id = lane.queued[turn(lane)].id
    /\ c.msg = lane.queued[turn(lane)].msg /\ c.inc = lane.inc

\* A call that Pump makes is for the request at which it stops.
LEMMA SendingFacts ==
    ASSUME NEW g, NEW S \in SUBSET Sids, \A s \in S : g.sessions[s] \in Lanes
    PROVE  /\ \A c \in Sendings(g, S) : c.sid \in S /\ MadeFor(c, g.sessions[c.sid])
           /\ \A s \in S : turn(g.sessions[s]) \in DOMAIN g.sessions[s].queued =>
                 \E c \in Sendings(g, S) : c.sid = s /\ MadeFor(c, g.sessions[s])
<1> DEFINE call(s, x, i) == [seq |-> x.seq, sid |-> s, inc |-> i, id |-> x.id, msg |-> x.msg, due |-> FALSE]
<1>1. ASSUME NEW s \in S, turn(g.sessions[s]) \in DOMAIN g.sessions[s].queued, NEW c,
             c = call(s, g.sessions[s].queued[turn(g.sessions[s])], g.sessions[s].inc)
      PROVE  c.sid = s /\ MadeFor(c, g.sessions[s])
  <2> DEFINE lane == g.sessions[s]
  <2>1. turn(lane) \in DOMAIN lane.queued /\ c = call(s, lane.queued[turn(lane)], lane.inc) /\ lane \in Lanes
    BY Zenon, <1>1
  <2> HIDE DEF lane
  <2>3. lane.queued \in Seq(Items) /\ lane.inc \in Incarnations
    BY <2>1 DEF Lanes
  <2>4. lane.queued[turn(lane)] \in Items
    BY <2>1, <2>3
  <2>5. c \in Calls /\ c.sid = s
    BY <2>1, <2>3, <2>4 DEF Items, Calls
  <2>6. lane.inFlight = kNoCallSeq
    <3>1. 0 \notin DOMAIN lane.queued
      BY <2>3
    <3> QED BY Zenon, <2>1, <3>1, TurnFacts
  <2>7. /\ c.seq = lane.queued[turn(lane)].seq /\ c.id = lane.queued[turn(lane)].id
        /\ c.msg = lane.queued[turn(lane)].msg /\ c.inc = lane.inc
    BY Zenon, <2>1
  <2>8. MadeFor(c, lane)
    BY Zenon, <2>1, <2>5, <2>6, <2>7 DEF MadeFor
  <2> QED BY Zenon, <2>5, <2>8 DEF lane
<1>2. ASSUME NEW s \in S, NEW c \in sending(s, g.sessions[s]) PROVE c.sid = s /\ MadeFor(c, g.sessions[s])
  <2>1. /\ turn(g.sessions[s]) \in DOMAIN g.sessions[s].queued
        /\ c = call(s, g.sessions[s].queued[turn(g.sessions[s])], g.sessions[s].inc)
    BY Zenon DEF sending
  <2> HIDE DEF call
  <2> QED BY Zenon, <1>1, <2>1
<1>3. ASSUME NEW s \in S, turn(g.sessions[s]) \in DOMAIN g.sessions[s].queued
      PROVE  \E c \in sending(s, g.sessions[s]) : c.sid = s /\ MadeFor(c, g.sessions[s])
  <2> DEFINE c == call(s, g.sessions[s].queued[turn(g.sessions[s])], g.sessions[s].inc)
  <2>1. c \in sending(s, g.sessions[s])
    BY Zenon, <1>3 DEF sending
  <2> HIDE DEF c
  <2> QED BY Zenon, <1>2, <2>1
<1>4. \A c \in Sendings(g, S) : \E s \in S : c \in sending(s, g.sessions[s])
  BY Zenon DEF Sendings
<1>5. \A s \in S : \A c \in sending(s, g.sessions[s]) : c \in Sendings(g, S)
  BY Zenon DEF Sendings
<1> QED BY Zenon, <1>2, <1>3, <1>4, <1>5

\* A gate in order, and the live lanes on which Pump is called.
PumpAt(g, S, iss) ==
    GateOK(g, iss) /\ S \in SUBSET Sids /\ \A s \in S : g.sessions[s] # None

\* The types of a gate in order.
LEMMA GateTypes ==
    ASSUME NEW g, NEW iss, Counted(g, iss)
    PROVE  /\ g \in Gates /\ iss \in History /\ DOMAIN iss \subseteq Requests /\ DOMAIN iss \subseteq Nat
           /\ DOMAIN iss = 1..Len(iss) /\ Len(iss) \in Nat
           /\ g.sessions \in [Sids -> Lanes \cup {None}]
           /\ \A s \in Sids : g.sessions[s] # None => g.sessions[s] \in Lanes
           /\ g.inflight \subseteq Calls /\ g.answers \subseteq Answers
           /\ g.wire \subseteq Requests /\ g.sent \subseteq Requests /\ g.again \subseteq Requests
           /\ g.lastSeq \in Nat /\ g.lastInc \in Nat
           /\ \A i \in DOMAIN iss : iss[i].inc \in Incarnations /\ iss[i].msg \in Messages
<1>1. g \in Gates /\ iss \in History /\ Len(iss) <= MaxRequests
  BY Zenon DEF Counted
<1>2. DOMAIN iss = 1..Len(iss) /\ Len(iss) \in Nat
  BY <1>1 DEF History
<1>3. DOMAIN iss \subseteq Requests /\ DOMAIN iss \subseteq Nat
  BY <1>1, <1>2, LaneAssumption DEF Requests
<1>4. /\ g.sessions \in [Sids -> Lanes \cup {None}] /\ g.inflight \subseteq Calls /\ g.answers \subseteq Answers
      /\ g.wire \subseteq Requests /\ g.sent \subseteq Requests /\ g.again \subseteq Requests
      /\ g.lastSeq \in Nat /\ g.lastInc \in Nat
  BY <1>1 DEF Gates
<1>5. \A s \in Sids : g.sessions[s] # None => g.sessions[s] \in Lanes
  BY Zenon, <1>4
<1>6. ASSUME NEW i \in DOMAIN iss PROVE iss[i].inc \in Incarnations /\ iss[i].msg \in Messages
  <2>1. iss[i] \in [inc : Incarnations, msg : Messages]
    <3> DEFINE R == [inc : Incarnations, msg : Messages]
    <3>1. iss \in Seq(R)
      BY Zenon, <1>1 DEF History
    <3> HIDE DEF R
    <3>2. iss[i] \in R
      BY <3>1
    <3> QED BY Zenon, <3>2 DEF R
  <2> QED BY Zenon, <2>1
<1> QED BY Zenon, <1>1, <1>2, <1>3, <1>4, <1>5, <1>6

\* The types of a lane and of its requests.
LEMMA LaneTypes ==
    ASSUME NEW lane \in Lanes
    PROVE  /\ lane.queued \in Seq(Items) /\ lane.inFlight \in 0..MaxRequests /\ lane.inFlight \in Nat
           /\ lane.inc \in Incarnations /\ lane.inc \in Nat
           /\ lane.redirected \in BOOLEAN /\ lane.loginSucceeded \in BOOLEAN
           /\ DOMAIN lane.queued = 1..Len(lane.queued) /\ Len(lane.queued) \in Nat
           /\ turn(lane) \in Nat
           /\ \A n \in DOMAIN lane.queued :
                 /\ lane.queued[n] \in Items /\ lane.queued[n].id \in Requests /\ lane.queued[n].id \in Nat
                 /\ lane.queued[n].seq \in Requests /\ lane.queued[n].msg \in Messages
<1>1. /\ lane.queued \in Seq(Items) /\ lane.inFlight \in 0..MaxRequests
      /\ lane.inc \in Incarnations /\ lane.redirected \in BOOLEAN /\ lane.loginSucceeded \in BOOLEAN
  BY DEF Lanes
<1>2. lane.inFlight \in Nat /\ lane.inc \in Nat
  BY <1>1, LaneAssumption DEF Incarnations
<1>3. DOMAIN lane.queued = 1..Len(lane.queued) /\ Len(lane.queued) \in Nat
  BY <1>1
<1>4. turn(lane) \in Nat
  BY <1>3, TurnFacts
<1>5. ASSUME NEW n \in DOMAIN lane.queued
      PROVE  /\ lane.queued[n] \in Items /\ lane.queued[n].id \in Requests /\ lane.queued[n].id \in Nat
             /\ lane.queued[n].seq \in Requests /\ lane.queued[n].msg \in Messages
  <2>1. lane.queued[n] \in Items
    BY <1>1
  <2>2. lane.queued[n].id \in Requests /\ lane.queued[n].seq \in Requests /\ lane.queued[n].msg \in Messages
    BY Zenon, <2>1 DEF Items
  <2>3. lane.queued[n].id \in Nat
    BY <2>2, LaneAssumption DEF Requests
  <2> QED BY Zenon, <2>1, <2>2, <2>3
<1> QED BY Zenon, <1>1, <1>2, <1>3, <1>4, <1>5

\* Pump takes request i out of the lane and refuses it.
Skips(lane, i) ==
    /\ lane.inFlight = kNoCallSeq
    /\ \E n \in DOMAIN lane.queued : n < turn(lane) /\ lane.queued[n].id = i

\* A depth is a number.
LEMMA DepthNat ==
    ASSUME NEW lane \in Lanes
    PROVE  Depth(lane) \in Nat
<1> DEFINE y == IF lane.inFlight = kNoCallSeq THEN 0 ELSE 1
<1>1. y \in {0, 1} /\ Len(lane.queued) \in Nat
  BY Zenon, LaneTypes
<1> HIDE DEF y
<1>2. Len(lane.queued) + y \in Nat
  BY <1>1
<1> QED BY Zenon, <1>2 DEF Depth, y

\* Of the requests of one live connection without an answer, Pump answers only
\* those before the one at which it stops.
LEMMA PumpAnswers ==
    ASSUME NEW g, NEW S, NEW iss, PumpAt(g, S, iss)
    PROVE  /\ \A i : answered(g, i) => answered(Pump(g, S), i)
           /\ \A s \in Sids : \A i \in DOMAIN iss :
                 /\ g.sessions[s] # None /\ iss[i].inc = g.sessions[s].inc
                 /\ ~answered(g, i) /\ answered(Pump(g, S), i)
                 => s \in S /\ Skips(g.sessions[s], i)
           /\ \A s \in S : \A n \in DOMAIN g.sessions[s].queued :
                 n < turn(g.sessions[s]) => answered(Pump(g, S), g.sessions[s].queued[n].id)
<1>1. /\ GateOK(g, iss) /\ S \in SUBSET Sids /\ \A s \in S : g.sessions[s] # None
      /\ Counted(g, iss) /\ LanesOK(g, iss) /\ Apart(g)
  BY Zenon DEF PumpAt, GateOK
<1>2. g \in Gates /\ \A s \in S : g.sessions[s] \in Lanes
  BY Zenon, <1>1, GateTypes
<1>3. Pump(g, S).answers = g.answers \cup Refusals(g, S)
  BY Zenon, <1>2, PumpEffect
<1>4. \A s \in S : \A n \in DOMAIN g.sessions[s].queued :
         n < turn(g.sessions[s]) => \E r \in Refusals(g, S) : r.id = g.sessions[s].queued[n].id
  BY Zenon, <1>2, RefusalFacts
<1>5. ASSUME NEW s \in Sids, NEW i \in DOMAIN iss, g.sessions[s] # None,
             iss[i].inc = g.sessions[s].inc, ~answered(g, i), answered(Pump(g, S), i)
      PROVE  s \in S /\ Skips(g.sessions[s], i)
  <2>1. PICK r \in Refusals(g, S) : r.id = i
    BY Zenon, <1>3, <1>5 DEF answered
  <2>2. PICK t \in S : \E n : Refused(r, g.sessions[t], n)
    <3>1. \A x \in Refusals(g, S) : \E t \in S : \E n : Refused(x, g.sessions[t], n)
      BY Zenon, <1>2, RefusalFacts
    <3> QED BY Zenon, <3>1
  <2>3. PICK n \in DOMAIN g.sessions[t].queued :
           /\ n < turn(g.sessions[t]) /\ g.sessions[t].inFlight = kNoCallSeq
           /\ r.id = g.sessions[t].queued[n].id
    BY Zenon, <2>2 DEF Refused
  <2>4. iss[i].inc = g.sessions[t].inc
    BY Zenon, <1>1, <2>1, <2>3 DEF LanesOK, LaneOK, InLine
  <2>5. s = t
    BY Zenon, <1>1, <1>5, <2>4 DEF Apart
  <2> QED BY Zenon, <2>1, <2>3, <2>5 DEF Skips
<1> QED BY Zenon, <1>3, <1>4, <1>5 DEF answered

\* Pump leaves a lane in order.
LEMMA PumpLane ==
    ASSUME NEW g, NEW S, NEW iss, PumpAt(g, S, iss), NEW s \in Sids, g.sessions[s] # None
    PROVE  LaneOK(Pump(g, S).sessions[s], Pump(g, S), iss)
<1> DEFINE h == Pump(g, S)
           lane == g.sessions[s]
           l == h.sessions[s]
           t == turn(lane)
<1>1. /\ GateOK(g, iss) /\ S \in SUBSET Sids /\ \A x \in S : g.sessions[x] # None
      /\ Counted(g, iss) /\ LanesOK(g, iss) /\ Apart(g)
  BY Zenon DEF PumpAt, GateOK
<1>2. g \in Gates /\ lane \in Lanes /\ DOMAIN iss \subseteq Nat /\ DOMAIN iss = 1..Len(iss) /\ Len(iss) \in Nat
  BY Zenon, <1>1, GateTypes
<1>3. h.answers = g.answers \cup Refusals(g, S) /\ h.lastInc = g.lastInc
  BY Zenon, <1>2, PumpEffect
<1>4. LaneOK(lane, g, iss)
  BY Zenon, <1>1 DEF LanesOK
<1>5. /\ \A i : answered(g, i) => answered(h, i)
      /\ \A i \in DOMAIN iss : iss[i].inc = lane.inc /\ ~answered(g, i) /\ answered(h, i) =>
            s \in S /\ Skips(lane, i)
      /\ s \in S => \A n \in DOMAIN lane.queued : n < t => answered(h, lane.queued[n].id)
  <2>1. \A i : answered(g, i) => answered(h, i)
    BY Zenon, PumpAnswers
  <2>2. \A i \in DOMAIN iss : iss[i].inc = lane.inc /\ ~answered(g, i) /\ answered(h, i) =>
            s \in S /\ Skips(lane, i)
    BY Zenon, PumpAnswers
  <2>3. s \in S => \A n \in DOMAIN lane.queued : n < t => answered(h, lane.queued[n].id)
    BY Zenon, PumpAnswers
  <2> QED BY Zenon, <2>1, <2>2, <2>3
<1>6. l = IF s \in S THEN MarkSent(lane) ELSE lane
  <2>1. h.sessions = pumped(g, S)
    BY Zenon, <1>2, PumpEffect
  <2> QED BY Zenon, <2>1 DEF pumped
<1> HIDE DEF h, lane, l
<1>7. CASE s \notin S
  <2>1. l = lane
    BY Zenon, <1>6, <1>7
  <2>2. InLine(lane, h, iss)
    BY Zenon, <1>4, <1>5, <1>7 DEF LaneOK, InLine
  <2>3. Accounted(lane, h, iss)
    BY Zenon, <1>4, <1>5 DEF LaneOK, Accounted
  <2>4. Opened(lane, h, iss)
    BY Zenon, <1>3, <1>4 DEF LaneOK, Opened
  <2>5. lane.inc <= h.lastInc /\ Depth(lane) <= kMaxLaneDepth
    BY Zenon, <1>3, <1>4 DEF LaneOK
  <2> QED BY Zenon, <2>1, <2>2, <2>3, <2>4, <2>5 DEF LaneOK, h, l, lane
<1>8. CASE s \in S
  <2>0. /\ \A n \in DOMAIN lane.queued :
              /\ lane.queued[n].seq \in Requests /\ lane.queued[n].id \in Nat
        /\ lane.inFlight \in Nat /\ lane.queued \in Seq(Items) /\ t \in Nat /\ lane.redirected \in BOOLEAN
        /\ DOMAIN lane.queued = 1..Len(lane.queued) /\ Len(lane.queued) \in Nat
    BY Zenon, <1>2, LaneTypes
  <2>1. /\ l \in Lanes /\ l.inc = lane.inc /\ l.redirected = lane.redirected
        /\ l.loginSucceeded = lane.loginSucceeded
        /\ l.inFlight = IF t \in DOMAIN lane.queued THEN lane.queued[t].seq ELSE lane.inFlight
        /\ \A n \in DOMAIN l.queued : n + t \in DOMAIN lane.queued /\ l.queued[n] = lane.queued[n + t]
        /\ \A k \in DOMAIN lane.queued : k > t => \E n \in DOMAIN l.queued : l.queued[n] = lane.queued[k]
        /\ Depth(l) <= Depth(lane)
    <3>1. l = MarkSent(lane)
      BY Zenon, <1>6, <1>8
    <3> QED BY Zenon, <1>2, <2>0, <3>1, MarkSentFacts
  <2>2. l.queued \in Seq(Items) /\ DOMAIN l.queued = 1..Len(l.queued) /\ Len(l.queued) \in Nat
    BY Zenon, <2>1, LaneTypes
  <2> HIDE DEF t
  <2>3. InLine(l, h, iss)
    <3>1. ASSUME NEW n \in DOMAIN l.queued
          PROVE  /\ l.queued[n].seq = l.queued[n].id
                 /\ l.queued[n].id \in DOMAIN iss
                 /\ iss[l.queued[n].id].inc = l.inc
                 /\ iss[l.queued[n].id].msg = l.queued[n].msg
                 /\ ~answered(g, l.queued[n].id)
                 /\ lane.inFlight < l.queued[n].id
      BY Zenon, <1>4, <2>1, <3>1 DEF LaneOK, InLine
    <3>2. ASSUME NEW m \in DOMAIN l.queued, NEW n \in DOMAIN l.queued, m < n
          PROVE  l.queued[m].id < l.queued[n].id
      <4>1. m + t < n + t
        BY <2>0, <2>2, <3>2
      <4> QED BY Zenon, <1>4, <2>1, <3>2, <4>1 DEF LaneOK, InLine
    <3>3. ASSUME NEW n \in DOMAIN l.queued, NEW k \in DOMAIN lane.queued, k <= t
          PROVE  lane.queued[k].id < l.queued[n].id
      <4>1. k < n + t
        BY <2>0, <2>2, <3>3
      <4> QED BY Zenon, <1>4, <2>1, <3>3, <4>1 DEF LaneOK, InLine
    <3>4. ASSUME NEW n \in DOMAIN l.queued PROVE ~answered(h, l.queued[n].id)
      <4>1. SUFFICES ASSUME answered(h, l.queued[n].id) PROVE FALSE
        BY Zenon
      <4>2. PICK k \in DOMAIN lane.queued : k < t /\ lane.queued[k].id = l.queued[n].id
        BY Zenon, <1>5, <2>1, <3>1, <4>1 DEF Skips, t
      <4>3. lane.queued[k].id \in Nat /\ k <= t
        BY <2>0, <4>2
      <4>4. lane.queued[k].id < lane.queued[k].id
        BY Zenon, <3>3, <4>2, <4>3
      <4> QED BY <4>3, <4>4
    <3>5. ASSUME NEW n \in DOMAIN l.queued PROVE l.inFlight < l.queued[n].id
      <4>1. CASE t \in DOMAIN lane.queued
        <5>1. t <= t
          BY <2>0
        <5>2. l.inFlight = lane.queued[t].id
          BY Zenon, <1>4, <2>1, <4>1 DEF LaneOK, InLine
        <5> QED BY Zenon, <3>3, <4>1, <5>1, <5>2
      <4>2. CASE t \notin DOMAIN lane.queued
        BY Zenon, <2>1, <3>1, <4>2
      <4> QED BY Zenon, <4>1, <4>2
    <3> QED BY Zenon, <3>1, <3>2, <3>4, <3>5 DEF InLine
  <2>4. Accounted(l, h, iss)
    <3>1. ASSUME l.redirected PROVE l.queued = <<>>
      <4>1. lane.queued = <<>>
        BY Zenon, <1>4, <2>1, <3>1 DEF LaneOK, Accounted
      <4>2. DOMAIN lane.queued = {}
        BY <4>1
      <4>3. DOMAIN l.queued = {}
        BY Zenon, <2>1, <4>2
      <4>4. 1 \notin 1..Len(l.queued)
        BY Zenon, <2>2, <4>3
      <4>5. Len(l.queued) = 0
        BY <2>2, <4>4
      <4> QED BY <2>2, <4>5
    <3>2. ASSUME ~l.redirected, NEW j \in DOMAIN iss, iss[j].inc = l.inc
          PROVE  answered(h, j) \/ j = l.inFlight \/ \E n \in DOMAIN l.queued : l.queued[n].id = j
      <4>1. answered(g, j) \/ j = lane.inFlight \/ \E n \in DOMAIN lane.queued : lane.queued[n].id = j
        BY Zenon, <1>4, <2>1, <3>2 DEF LaneOK, Accounted
      <4>2. CASE answered(g, j)
        BY Zenon, <1>5, <4>2
      <4>3. CASE j = lane.inFlight
        <5>1. j # kNoCallSeq
          BY <1>2 DEF kNoCallSeq
        <5>2. t \notin DOMAIN lane.queued
          <6>1. t = 0
            BY Zenon, <1>2, <4>3, <5>1, TurnFacts DEF t
          <6> QED BY <2>0, <6>1
        <5> QED BY Zenon, <2>1, <4>3, <5>2
      <4>4. ASSUME NEW n \in DOMAIN lane.queued, lane.queued[n].id = j
            PROVE  answered(h, j) \/ j = l.inFlight \/ \E m \in DOMAIN l.queued : l.queued[m].id = j
        <5>1. n < t \/ n = t \/ n > t
          BY <2>0
        <5>2. CASE n < t
          BY Zenon, <1>5, <1>8, <4>4, <5>2 DEF t
        <5>3. CASE n = t
          BY Zenon, <1>4, <2>1, <4>4, <5>3 DEF LaneOK, InLine
        <5>4. CASE n > t
          BY Zenon, <2>1, <4>4, <5>4
        <5> QED BY Zenon, <5>1, <5>2, <5>3, <5>4
      <4> QED BY Zenon, <4>1, <4>2, <4>3, <4>4
    <3> QED BY Zenon, <3>1, <3>2 DEF Accounted
  <2>5. Opened(l, h, iss)
    <3> SUFFICES ASSUME l.loginSucceeded
                 PROVE  \E r \in h.answers : /\ r.kind = "granted" /\ r.id \in DOMAIN iss
                                             /\ iss[r.id].inc = l.inc
                                             /\ \A n \in DOMAIN l.queued : r.id < l.queued[n].id
      BY Zenon DEF Opened
    <3>1. PICK r \in g.answers : /\ r.kind = "granted" /\ r.id \in DOMAIN iss /\ iss[r.id].inc = lane.inc
                                 /\ \A n \in DOMAIN lane.queued : r.id < lane.queued[n].id
      BY Zenon, <1>4, <2>1 DEF LaneOK, Opened
    <3>2. \A n \in DOMAIN l.queued : r.id < l.queued[n].id
      BY Zenon, <2>1, <3>1
    <3> QED BY Zenon, <1>3, <2>1, <3>1, <3>2
  <2>6. l.inc <= h.lastInc /\ Depth(l) <= kMaxLaneDepth
    <3>1. Depth(l) \in Nat /\ Depth(lane) \in Nat
      BY Zenon, <1>2, <2>1, DepthNat
    <3>2. Depth(lane) <= kMaxLaneDepth
      BY Zenon, <1>4 DEF LaneOK
    <3>3. Depth(l) <= kMaxLaneDepth
      BY <2>1, <3>1, <3>2, LaneAssumption
    <3> QED BY Zenon, <1>3, <1>4, <2>1, <3>3 DEF LaneOK
  <2> QED BY Zenon, <2>3, <2>4, <2>5, <2>6 DEF LaneOK, h, l
<1> QED BY Zenon, <1>7, <1>8

\* What Pump keeps of a lane, and when a call goes out of it.
LEMMA PumpOutline ==
    ASSUME NEW g, NEW S, NEW iss, PumpAt(g, S, iss), NEW s \in Sids
    PROVE  LET l == Pump(g, S).sessions[s]
               lane == g.sessions[s]
           IN  /\ (l = None) <=> (lane = None)
               /\ l \in Lanes \cup {None}
               /\ lane # None =>
                     /\ l.inc = lane.inc
                     /\ l.inFlight = IF s \in S /\ turn(lane) \in DOMAIN lane.queued
                                     THEN lane.queued[turn(lane)].seq ELSE lane.inFlight
                     /\ lane.inFlight # kNoCallSeq => l.inFlight = lane.inFlight
<1> DEFINE l == Pump(g, S).sessions[s]
           lane == g.sessions[s]
<1>1. S \in SUBSET Sids /\ \A x \in S : g.sessions[x] # None
  BY Zenon DEF PumpAt, GateOK
<1>2. g \in Gates /\ lane \in Lanes \cup {None}
  BY Zenon, GateTypes DEF PumpAt, GateOK
<1>3. l = IF s \in S THEN MarkSent(lane) ELSE lane
  <2>1. Pump(g, S).sessions = pumped(g, S)
    BY Zenon, <1>2, PumpEffect
  <2> QED BY Zenon, <2>1 DEF pumped
<1>4. s \in S => lane # None
  BY Zenon, <1>1
<1> HIDE DEF l, lane
<1>5. CASE s \notin S
  BY Zenon, <1>2, <1>3, <1>5 DEF l, lane
<1>6. CASE s \in S
  <2>1. lane \in Lanes /\ l = MarkSent(lane)
    BY Zenon, <1>2, <1>3, <1>4, <1>6
  <2>2. \A n \in DOMAIN lane.queued : lane.queued[n].seq \in Requests
    BY Zenon, <2>1, LaneTypes
  <2>3. /\ l \in Lanes /\ l.inc = lane.inc
        /\ l.inFlight = IF turn(lane) \in DOMAIN lane.queued
                        THEN lane.queued[turn(lane)].seq ELSE lane.inFlight
    BY Zenon, <2>1, <2>2, MarkSentFacts
  <2>4. lane.inFlight # kNoCallSeq => turn(lane) \notin DOMAIN lane.queued
    <3>1. 0 \notin DOMAIN lane.queued
      BY <2>1 DEF Lanes
    <3> QED BY Zenon, <2>1, <3>1, TurnFacts
  <2>5. l # None /\ lane # None
    BY Zenon, <2>1, <2>3, NoLaneAssumption
  <2> QED BY Zenon, <1>6, <2>3, <2>4, <2>5 DEF l, lane
<1> QED BY Zenon, <1>5, <1>6

\* Every earlier request of the connection is answered.
InTurn(i, g, iss) == \A j \in DOMAIN iss : iss[j].inc = iss[i].inc /\ j < i => answered(g, j)

\* Pump makes calls for requests of their own that have no answer, and have
\* every earlier request of the connection answered; none of these calls is in
\* the index yet.
LEMMA PumpCalls ==
    ASSUME NEW g, NEW S, NEW iss, PumpAt(g, S, iss), NEW c \in Sendings(g, S)
    PROVE  /\ c \in Calls /\ c.sid \in S /\ MadeFor(c, g.sessions[c.sid])
           /\ CallOK(c, Pump(g, S), iss)
           /\ \A d \in g.inflight : d.seq # c.seq
           /\ InTurn(c.id, Pump(g, S), iss) /\ Entitled(c.id, g, iss)
<1> DEFINE h == Pump(g, S)
           s == c.sid
           lane == g.sessions[s]
           t == turn(lane)
           x == lane.queued[t]
<1>1. /\ S \in SUBSET Sids /\ \A y \in S : g.sessions[y] # None
      /\ Counted(g, iss) /\ LanesOK(g, iss) /\ Apart(g) /\ IndexOK(g, iss) /\ AnswersOK(g, iss)
  BY Zenon DEF PumpAt, GateOK
<1>2. /\ g \in Gates /\ \A y \in S : g.sessions[y] \in Lanes
      /\ DOMAIN iss \subseteq Nat /\ DOMAIN iss = 1..Len(iss) /\ Len(iss) \in Nat
  BY Zenon, <1>1, GateTypes
<1>3. c.sid \in S /\ MadeFor(c, g.sessions[c.sid])
  BY Zenon, <1>1, <1>2, SendingFacts
<1>4. /\ s \in Sids /\ lane # None /\ lane \in Lanes /\ LaneOK(lane, g, iss)
      /\ c \in Calls /\ t \in DOMAIN lane.queued /\ lane.inFlight = kNoCallSeq
      /\ c.seq = x.seq /\ c.id = x.id /\ c.msg = x.msg /\ c.inc = lane.inc
  BY Zenon, <1>1, <1>2, <1>3 DEF MadeFor, LanesOK
<1>5. /\ \A n \in DOMAIN lane.queued : lane.queued[n].id \in Nat
      /\ DOMAIN lane.queued = 1..Len(lane.queued) /\ Len(lane.queued) \in Nat
  BY Zenon, <1>4, LaneTypes
<1>6. /\ x.seq = x.id /\ x.id \in DOMAIN iss /\ iss[x.id].inc = lane.inc /\ iss[x.id].msg = x.msg
      /\ ~answered(g, x.id)
  BY Zenon, <1>4 DEF LaneOK, InLine
<1>7. ~answered(h, x.id)
  <2> SUFFICES ASSUME answered(h, x.id) PROVE FALSE
    BY Zenon
  <2>1. Skips(lane, x.id)
    <3>1. \A i \in DOMAIN iss : iss[i].inc = lane.inc /\ ~answered(g, i) /\ answered(h, i) =>
              Skips(lane, i)
      BY Zenon, <1>4, PumpAnswers
    <3> QED BY Zenon, <1>6, <3>1
  <2>2. PICK n \in DOMAIN lane.queued : n < t /\ lane.queued[n].id = x.id
    BY Zenon, <2>1 DEF Skips
  <2>3. lane.queued[n].id < lane.queued[t].id
    BY Zenon, <1>4, <2>2 DEF LaneOK, InLine
  <2>4. lane.queued[n].id \in Nat /\ lane.queued[n].id < lane.queued[n].id
    BY Zenon, <1>5, <2>2, <2>3
  <2> QED BY <2>4
<1>8. claims(h, c)
  <2>1. h.sessions[s] # None /\ h.sessions[s].inc = lane.inc /\ h.sessions[s].inFlight = x.seq
    BY Zenon, <1>3, <1>4, PumpOutline
  <2> QED BY Zenon, <1>4, <2>1 DEF claims
<1>9. CallOK(c, h, iss)
  BY Zenon, <1>4, <1>6, <1>7, <1>8 DEF CallOK
<1>10. ASSUME NEW d \in g.inflight, d.seq = c.seq PROVE FALSE
  <2>1. /\ g.sessions[d.sid] # None /\ g.sessions[d.sid].inc = d.inc
        /\ g.sessions[d.sid].inFlight = d.seq /\ iss[d.seq].inc = d.inc
    BY Zenon, <1>1, <1>10 DEF IndexOK, CallOK, claims
  <2>2. d.sid \in Sids
    <3>1. d \in Calls
      BY Zenon, <1>1, GateTypes
    <3> QED BY Zenon, <3>1 DEF Calls
  <2>3. d.sid = s
    BY Zenon, <1>1, <1>4, <1>6, <1>10, <2>1, <2>2 DEF Apart
  <2>4. d.seq = 0
    BY Zenon, <1>4, <2>1, <2>3 DEF kNoCallSeq
  <2>5. d.seq \in DOMAIN iss
    BY Zenon, <1>4, <1>6, <1>10
  <2> QED BY <1>2, <2>4, <2>5
<1>11. ASSUME NEW j \in DOMAIN iss, iss[j].inc = iss[c.id].inc, j < c.id PROVE answered(h, j)
  <2>1. ~lane.redirected
    <3>1. DOMAIN <<>> = {}
      OBVIOUS
    <3> QED BY Zenon, <1>4, <3>1 DEF LaneOK, Accounted
  <2>2. answered(g, j) \/ j = lane.inFlight \/ \E n \in DOMAIN lane.queued : lane.queued[n].id = j
    BY Zenon, <1>4, <1>6, <1>11, <2>1 DEF LaneOK, Accounted
  <2>3. CASE answered(g, j)
    BY Zenon, <2>3, PumpAnswers
  <2>4. j # lane.inFlight
    <3>1. j # 0
      BY <1>2
    <3> QED BY Zenon, <1>4, <3>1 DEF kNoCallSeq
  <2>5. ASSUME NEW n \in DOMAIN lane.queued, lane.queued[n].id = j PROVE answered(h, j)
    <3>1. ~ (n = t \/ t < n)
      <4>1. t < n => x.id < j
        BY Zenon, <1>4, <2>5 DEF LaneOK, InLine
      <4>2. j < x.id
        BY Zenon, <1>4, <1>11
      <4>3. j \in Nat /\ x.id \in Nat
        BY Zenon, <1>2, <1>6
      <4>4. n # t
        <5>1. ~ (j < j)
          BY <4>3
        <5> QED BY Zenon, <2>5, <4>2, <5>1
      <4> QED BY <4>1, <4>2, <4>3, <4>4
    <3>2. n < t
      <4> HIDE DEF t, lane
      <4>1. n \in Nat /\ t \in Nat
        BY <1>4, <1>5
      <4> QED BY <3>1, <4>1
    <3> QED BY Zenon, <1>3, <2>5, <3>2, PumpAnswers
  <2> QED BY Zenon, <2>2, <2>3, <2>4, <2>5
<1>12. ASSUME iss[c.id].msg = "EnterGame"
       PROVE  \E r \in g.answers : r.kind = "granted" /\ r.id < c.id /\ iss[r.id].inc = iss[c.id].inc
  <2>1. refusal(x, lane) = "none"
    <3>1. Len(lane.queued) + 1 \notin DOMAIN lane.queued /\ 0 \notin DOMAIN lane.queued
      <4> HIDE DEF t, lane
      <4> QED BY <1>5
    <3> QED BY Zenon, <1>4, <3>1, TurnFacts
  <2>2. RequiresSuccessfulLogin(x.msg)
    BY Zenon, <1>4, <1>6, <1>12 DEF RequiresSuccessfulLogin
  <2>3. lane.loginSucceeded
    BY Zenon, <2>1, <2>2, RefusalKinds
  <2> QED BY Zenon, <1>4, <1>6, <2>3 DEF LaneOK, Opened
<1> QED BY Zenon, <1>3, <1>4, <1>9, <1>10, <1>11, <1>12 DEF InTurn, Entitled

\* Pump's answers are the first to requests of the connections they go to.
LEMMA PumpRefusals ==
    ASSUME NEW g, NEW S, NEW iss, PumpAt(g, S, iss)
    PROVE  /\ Refusals(g, S) \subseteq Answers
           /\ \A r \in Refusals(g, S) : r.id \in DOMAIN iss /\ r.inc = iss[r.id].inc /\ ~answered(g, r.id)
           /\ \A r, q \in Refusals(g, S) : r.id = q.id => r = q
<1>1. /\ S \in SUBSET Sids /\ \A y \in S : g.sessions[y] # None
      /\ Counted(g, iss) /\ LanesOK(g, iss) /\ Apart(g)
  BY Zenon DEF PumpAt, GateOK
<1>2. /\ g \in Gates /\ \A y \in S : g.sessions[y] \in Lanes
  BY Zenon, <1>1, GateTypes
<1>3. \A r \in Refusals(g, S) : \E s \in S : \E n : Refused(r, g.sessions[s], n)
  BY Zenon, <1>2, RefusalFacts
<1>4. ASSUME NEW r \in Refusals(g, S)
      PROVE  r.id \in DOMAIN iss /\ r.inc = iss[r.id].inc /\ ~answered(g, r.id) /\ r \in Answers
  <2>1. PICK s \in S : \E n : Refused(r, g.sessions[s], n)
    BY Zenon, <1>3
  <2>2. PICK n : Refused(r, g.sessions[s], n)
    BY Zenon, <2>1
  <2>3. InLine(g.sessions[s], g, iss)
    BY Zenon, <1>1 DEF LanesOK, LaneOK
  <2> QED BY Zenon, <2>2, <2>3 DEF Refused, InLine
<1>5. ASSUME NEW r \in Refusals(g, S), NEW q \in Refusals(g, S), r.id = q.id PROVE r = q
  <2>1. PICK s \in S : \E n : Refused(r, g.sessions[s], n)
    BY Zenon, <1>3
  <2>2. PICK n : Refused(r, g.sessions[s], n)
    BY Zenon, <2>1
  <2>3. PICK t \in S : \E m : Refused(q, g.sessions[t], m)
    BY Zenon, <1>3
  <2>4. PICK m : Refused(q, g.sessions[t], m)
    BY Zenon, <2>3
  <2>5. s = t
    <3>1. g.sessions[s].inc = g.sessions[t].inc
      <4>1. r.inc = iss[r.id].inc /\ r.inc = g.sessions[s].inc
        BY Zenon, <1>4, <2>2 DEF Refused
      <4>2. q.inc = iss[q.id].inc /\ q.inc = g.sessions[t].inc
        BY Zenon, <1>4, <2>4 DEF Refused
      <4> QED BY Zenon, <1>5, <4>1, <4>2
    <3> QED BY Zenon, <1>1, <3>1 DEF Apart
  <2> DEFINE lane == g.sessions[s]
  <2>6. /\ lane \in Lanes /\ InLine(lane, g, iss) /\ n \in DOMAIN lane.queued /\ m \in DOMAIN lane.queued
        /\ lane.queued[n].id = lane.queued[m].id
        /\ r.kind = refusal(lane.queued[n], lane) /\ q.kind = refusal(lane.queued[m], lane)
        /\ r.inc = lane.inc /\ q.inc = lane.inc /\ r \in Answers /\ q \in Answers
    BY Zenon, <1>1, <1>2, <1>5, <2>2, <2>4, <2>5 DEF Refused, LanesOK, LaneOK
  <2> HIDE DEF lane
  <2>7. /\ lane.queued[n].id \in Nat /\ DOMAIN lane.queued \subseteq Nat
    <3>1. DOMAIN lane.queued = 1..Len(lane.queued) /\ lane.queued[n].id \in Nat
      BY Zenon, <2>6, LaneTypes
    <3> QED BY <3>1
  <2>8. n = m
    <3>1. ~ (n < m) /\ ~ (m < n)
      <4>1. ~ (lane.queued[n].id < lane.queued[n].id)
        BY <2>7
      <4> QED BY Zenon, <2>6, <4>1 DEF InLine
    <3>2. n \in Nat /\ m \in Nat
      BY Zenon, <2>6, <2>7
    <3> QED BY <3>1, <3>2
  <2>9. r.kind = q.kind
    BY Zenon, <2>6, <2>8
  <2> QED BY <1>5, <2>6, <2>9 DEF Answers
<1> QED BY Zenon, <1>4, <1>5

\* Pump keeps the gate in order, and hands a request over only once every
\* earlier one of its connection has been answered.
LEMMA PumpKeeps ==
    ASSUME NEW g, NEW S, NEW iss, PumpAt(g, S, iss)
    PROVE  /\ GateOK(Pump(g, S), iss)
           /\ \A i \in Pump(g, S).sent \ g.sent : \A j \in 1..(i - 1) :
                 iss[j].inc = iss[i].inc => answered(Pump(g, S), j)
           /\ \A i : answered(g, i) => answered(Pump(g, S), i)
<1> DEFINE h == Pump(g, S)
           A == Refusals(g, S)
           B == Sendings(g, S)
<1>1. /\ S \in SUBSET Sids /\ \A y \in S : g.sessions[y] # None
      /\ Counted(g, iss) /\ LanesOK(g, iss) /\ Apart(g) /\ IndexOK(g, iss) /\ AnswersOK(g, iss)
      /\ SentOK(g, iss)
  BY Zenon DEF PumpAt, GateOK
<1>2. /\ g \in Gates /\ iss \in History /\ DOMAIN iss \subseteq Requests
      /\ g.sessions \in [Sids -> Lanes \cup {None}]
      /\ g.inflight \subseteq Calls /\ g.answers \subseteq Answers
      /\ g.wire \subseteq Requests /\ g.sent \subseteq Requests /\ g.again \subseteq Requests
      /\ g.lastSeq \in Nat /\ g.lastInc \in Nat /\ DOMAIN iss = 1..Len(iss) /\ Len(iss) \in Nat
  BY Zenon, <1>1, GateTypes
<1>3. /\ h.sessions = pumped(g, S)
      /\ h.inflight = Insert(g.inflight, B)
      /\ h.wire = g.wire \cup {c.seq : c \in B}
      /\ h.sent = g.sent \cup {c.id : c \in B}
      /\ h.lastSeq = g.lastSeq /\ h.lastInc = g.lastInc
      /\ h.answers = g.answers \cup A
      /\ h.again = g.again \cup ({r.id : r \in A} \cap {r.id : r \in g.answers})
  BY Zenon, <1>2, PumpEffect
<1>4. /\ A \subseteq Answers
      /\ \A r \in A : r.id \in DOMAIN iss /\ r.inc = iss[r.id].inc /\ ~answered(g, r.id)
      /\ \A r, q \in A : r.id = q.id => r = q
  BY Zenon, PumpRefusals
<1>5. /\ \A c \in B : /\ c \in Calls /\ c.sid \in S /\ MadeFor(c, g.sessions[c.sid])
                      /\ CallOK(c, h, iss) /\ \A d \in g.inflight : d.seq # c.seq
  BY Zenon, PumpCalls
<1>6. \A c \in B : Entitled(c.id, g, iss)
  BY Zenon, PumpCalls
<1>7. \A c \in B : InTurn(c.id, h, iss)
  BY Zenon, PumpCalls
<1>8. \A i : answered(g, i) => answered(h, i)
  BY Zenon, PumpAnswers
<1>9. \A s \in Sids :
         /\ (h.sessions[s] = None) <=> (g.sessions[s] = None)
         /\ h.sessions[s] \in Lanes \cup {None}
         /\ g.sessions[s] # None => h.sessions[s].inc = g.sessions[s].inc
  BY Zenon, PumpOutline
<1>10. \A s \in Sids : g.sessions[s] # None =>
          /\ h.sessions[s].inFlight =
                IF s \in S /\ turn(g.sessions[s]) \in DOMAIN g.sessions[s].queued
                THEN g.sessions[s].queued[turn(g.sessions[s])].seq ELSE g.sessions[s].inFlight
          /\ g.sessions[s].inFlight # kNoCallSeq => h.sessions[s].inFlight = g.sessions[s].inFlight
  BY Zenon, PumpOutline
<1>11. \A s \in Sids : g.sessions[s] # None => LaneOK(h.sessions[s], h, iss)
  BY Zenon, PumpLane
<1>12. \A s \in Sids : \A i \in DOMAIN iss :
          g.sessions[s] # None /\ iss[i].inc = g.sessions[s].inc /\ ~answered(g, i) /\ answered(h, i)
          => Skips(g.sessions[s], i)
  BY Zenon, PumpAnswers
<1>13. h.inflight = g.inflight \cup B
  BY Zenon, <1>3, <1>5 DEF Insert
<1>14. \A s \in S : turn(g.sessions[s]) \in DOMAIN g.sessions[s].queued =>
           \E c \in B : c.sid = s /\ MadeFor(c, g.sessions[s])
  <2>1. \A y \in S : g.sessions[y] \in Lanes
    BY Zenon, <1>1, GateTypes
  <2> QED BY Zenon, <1>1, <2>1, SendingFacts
<1> HIDE DEF A, B, h
<1>15. \A c \in B : c.seq \in DOMAIN iss /\ c.id = c.seq
  BY Zenon, <1>5 DEF CallOK
<1>16. Counted(h, iss)
  <2>1. h.sessions \in [Sids -> Lanes \cup {None}]
    BY Zenon, <1>3, <1>9 DEF pumped
  <2>2. h.inflight \subseteq Calls
    BY Zenon, <1>2, <1>5, <1>13
  <2>3. {c.seq : c \in B} \subseteq Requests /\ {c.id : c \in B} \subseteq Requests
    BY Zenon, <1>2, <1>15
  <2>4. h.wire \subseteq Requests /\ h.sent \subseteq Requests
    BY Zenon, <1>2, <1>3, <2>3
  <2> DEFINE k == [g EXCEPT !.sessions = h.sessions, !.inflight = h.inflight,
                            !.wire = h.wire, !.sent = h.sent]
  <2>5. h = Answered(k, A)
    BY Zenon, <1>3 DEF h, Pump, A, B, Sendings, Refusals, pumped
  <2>6. k \in Gates
    BY Zenon, <1>2, <2>1, <2>2, <2>4, GateUpdate
  <2> HIDE DEF k
  <2>7. h \in Gates
    BY Zenon, <1>4, <2>5, <2>6, AnsweredTyped
  <2> QED BY Zenon, <1>1, <1>3, <2>7 DEF Counted
<1>17. LanesOK(h, iss)
  BY Zenon, <1>9, <1>11 DEF LanesOK
<1>18. Apart(h)
  BY Zenon, <1>1, <1>9 DEF Apart
<1>19. IndexOK(h, iss)
  <2>1. ASSUME NEW c \in g.inflight PROVE CallOK(c, h, iss)
    <3>1. CallOK(c, g, iss) /\ c \in Calls
      BY Zenon, <1>1, <1>2 DEF IndexOK
    <3>2. c.sid \in Sids
      BY Zenon, <3>1 DEF Calls
    <3>3. /\ g.sessions[c.sid] # None /\ g.sessions[c.sid].inc = c.inc
          /\ g.sessions[c.sid].inFlight = c.seq /\ c.seq \in DOMAIN iss
          /\ iss[c.seq].inc = c.inc /\ ~answered(g, c.seq)
      BY Zenon, <3>1 DEF CallOK, claims
    <3>4. c.seq # kNoCallSeq
      BY <1>2, <3>3 DEF kNoCallSeq
    <3>5. claims(h, c)
      BY Zenon, <1>9, <1>10, <3>2, <3>3, <3>4 DEF claims
    <3>6. ~answered(h, c.seq)
      BY Zenon, <1>12, <3>2, <3>3, <3>4 DEF Skips
    <3> QED BY Zenon, <3>1, <3>5, <3>6 DEF CallOK
  <2>2. ASSUME NEW c \in B, NEW d \in B, c.seq = d.seq PROVE c = d
    <3>1. CallOK(c, h, iss) /\ CallOK(d, h, iss) /\ c.sid \in Sids /\ d.sid \in Sids
      BY Zenon, <1>1, <1>5
    <3>2. c.sid = d.sid
      BY Zenon, <1>18, <2>2, <3>1 DEF CallOK, claims, Apart
    <3>3. MadeFor(c, g.sessions[c.sid]) /\ MadeFor(d, g.sessions[c.sid])
      BY Zenon, <1>5, <3>2
    <3> QED BY Zenon, <3>2, <3>3 DEF MadeFor
  <2>3. \A c, d \in h.inflight : c.seq = d.seq => c = d
    BY Zenon, <1>1, <1>5, <1>13, <2>2 DEF IndexOK
  <2>4. ASSUME NEW s \in Sids, h.sessions[s] # None, h.sessions[s].inFlight # kNoCallSeq
        PROVE  \E c \in h.inflight : c.seq = h.sessions[s].inFlight /\ c.sid = s
    <3>1. g.sessions[s] # None
      BY Zenon, <1>9, <2>4
    <3>2. CASE s \in S /\ turn(g.sessions[s]) \in DOMAIN g.sessions[s].queued
      <4>1. PICK c \in B : c.sid = s /\ MadeFor(c, g.sessions[s])
        BY Zenon, <1>14, <3>2
      <4>2. c.seq = h.sessions[s].inFlight
        BY Zenon, <1>10, <3>1, <3>2, <4>1 DEF MadeFor
      <4> QED BY Zenon, <1>13, <4>1, <4>2
    <3>3. CASE ~ (s \in S /\ turn(g.sessions[s]) \in DOMAIN g.sessions[s].queued)
      <4>1. h.sessions[s].inFlight = g.sessions[s].inFlight
        BY Zenon, <1>10, <3>1, <3>3
      <4> QED BY Zenon, <1>1, <1>13, <2>4, <3>1, <4>1 DEF IndexOK
    <3> QED BY Zenon, <3>2, <3>3
  <2> QED BY Zenon, <1>5, <1>13, <2>1, <2>3, <2>4 DEF IndexOK
<1>20. AnswersOK(h, iss)
  <2>1. h.again = {}
    <3>1. {r.id : r \in A} \cap {r.id : r \in g.answers} = {}
      <4>1. \A r \in g.answers : \A q \in A : r.id # q.id
        BY Zenon, <1>4 DEF answered
      <4> QED BY <4>1
    <3>2. g.again = {}
      BY Zenon, <1>1 DEF AnswersOK
    <3> QED BY <1>3, <3>1, <3>2
  <2>2. \A r \in g.answers : \A q \in A : r.id # q.id
    BY Zenon, <1>4 DEF answered
  <2>3. \A r, q \in g.answers : r.id = q.id => r = q
    BY Zenon, <1>1 DEF AnswersOK
  <2>4. \A r, q \in h.answers : r.id = q.id => r = q
    BY Zenon, <1>3, <1>4, <2>2, <2>3
  <2>5. \A r \in h.answers : r.id \in DOMAIN iss /\ r.inc = iss[r.id].inc
    BY Zenon, <1>1, <1>3, <1>4 DEF AnswersOK
  <2> QED BY Zenon, <2>1, <2>4, <2>5 DEF AnswersOK
<1>21. SentOK(h, iss)
  <2>1. \A i \in h.sent : i \in DOMAIN iss /\ Entitled(i, g, iss)
    <3>1. \A i \in g.sent : i \in DOMAIN iss /\ Entitled(i, g, iss)
      BY Zenon, <1>1 DEF SentOK
    <3>2. \A i \in {c.id : c \in B} : i \in DOMAIN iss /\ Entitled(i, g, iss)
      <4>1. \A c \in B : c.id \in DOMAIN iss /\ Entitled(c.id, g, iss)
        BY Zenon, <1>6, <1>15
      <4> QED BY Zenon, <4>1
    <3> QED BY Zenon, <1>3, <3>1, <3>2
  <2>2. \A i : Entitled(i, g, iss) => Entitled(i, h, iss)
    BY Zenon, <1>3 DEF Entitled
  <2> QED BY Zenon, <2>1, <2>2 DEF SentOK
<1>22. ASSUME NEW i \in h.sent \ g.sent, NEW j \in 1..(i - 1), iss[j].inc = iss[i].inc
       PROVE  answered(h, j)
  <2>1. PICK c \in B : c.id = i
    BY Zenon, <1>3
  <2>2. i \in 1..Len(iss)
    BY Zenon, <1>2, <1>15, <2>1
  <2>3. j \in 1..Len(iss) /\ j < i
    BY <1>2, <2>2
  <2> QED BY Zenon, <1>2, <1>7, <1>22, <2>1, <2>3 DEF InTurn
<1> QED BY Zenon, <1>8, <1>16, <1>17, <1>18, <1>19, <1>20, <1>21, <1>22 DEF GateOK, h

-----------------------------------------------------------------------------
(* Finish *)

\* The calls of a session, the lane once they are over, and the outcomes.
callsOf(calls, s) == {c \in calls : c.sid = s}
freedLane(lane, cs, kind) ==
    [lane EXCEPT !.inFlight = kNoCallSeq,
                 !.loginSucceeded = @ \/ \E c \in cs : opens(c, kind[c])]
outcomes(g, calls, kind) ==
    {[id |-> c.id, inc |-> g.sessions[c.sid].inc, kind |-> kind[c]] : c \in calls}

\* The gate m is the gate g once the calls are over.
Freed(g, m, calls, kind) ==
    /\ m \in Gates /\ calls \subseteq g.inflight
    /\ \A c \in calls : kind[c] \in {"granted", "reply", "unavailable"}
    /\ \A s \in Sids : m.sessions[s] = IF callsOf(calls, s) = {} THEN g.sessions[s]
                                       ELSE freedLane(g.sessions[s], callsOf(calls, s), kind)
    /\ m.inflight = g.inflight \ calls /\ m.sent = g.sent
    /\ m.lastSeq = g.lastSeq /\ m.lastInc = g.lastInc
    /\ m.answers = g.answers \cup outcomes(g, calls, kind)
    /\ m.again = g.again \cup ({r.id : r \in outcomes(g, calls, kind)} \cap {r.id : r \in g.answers})

\* What is known of a call in the index.
Known(c, g, iss) ==
    /\ c \in Calls /\ c.sid \in Sids /\ g.sessions[c.sid] # None /\ g.sessions[c.sid] \in Lanes
    /\ g.sessions[c.sid].inc = c.inc /\ g.sessions[c.sid].inFlight = c.seq
    /\ c.id = c.seq /\ c.seq \in DOMAIN iss /\ c.seq # kNoCallSeq
    /\ iss[c.seq].inc = c.inc /\ ~answered(g, c.seq)

\* A call in the index is known: it is the one in flight on the lane of the live
\* connection that made it, and has not been answered (FindLiveSession, Complete).
LEMMA CallFacts ==
    ASSUME NEW g, NEW iss, GateOK(g, iss), NEW c \in g.inflight
    PROVE  /\ Known(c, g, iss)
           /\ \A d \in g.inflight : d.sid = c.sid => d = c
           /\ \A d \in g.inflight : d.seq = c.seq => d = c
<1>1. Counted(g, iss) /\ IndexOK(g, iss)
  BY Zenon DEF GateOK
<1>2. /\ g.inflight \subseteq Calls /\ DOMAIN iss = 1..Len(iss) /\ Len(iss) \in Nat
      /\ \A s \in Sids : g.sessions[s] # None => g.sessions[s] \in Lanes
  BY Zenon, <1>1, GateTypes
<1>3. \A d \in g.inflight : CallOK(d, g, iss)
  BY Zenon, <1>1 DEF IndexOK
<1>4. \A d \in g.inflight : d.seq = c.seq => d = c
  BY Zenon, <1>1 DEF IndexOK
<1>5. \A d \in g.inflight : d.sid = c.sid => d = c
  BY Zenon, <1>3, <1>4 DEF CallOK, claims
<1>6. c \in Calls /\ c.sid \in Sids
  BY Zenon, <1>2 DEF Calls
<1>7. /\ g.sessions[c.sid] # None /\ g.sessions[c.sid].inc = c.inc /\ g.sessions[c.sid].inFlight = c.seq
      /\ c.id = c.seq /\ c.seq \in DOMAIN iss /\ iss[c.seq].inc = c.inc /\ ~answered(g, c.seq)
  BY Zenon, <1>3 DEF CallOK, claims
<1>8. c.seq # kNoCallSeq
  BY <1>2, <1>7 DEF kNoCallSeq
<1> QED BY Zenon, <1>2, <1>4, <1>5, <1>6, <1>7, <1>8 DEF Known

\* What is known of an outcome.
OutcomeOf(r, c, g, kind) ==
    /\ r = [id |-> c.id, inc |-> g.sessions[c.sid].inc, kind |-> kind[c]]
    /\ r.id = c.seq /\ r.inc = c.inc /\ r.kind = kind[c]

\* The answer Finish gives for a call is of the request and the connection that
\* made the call.
LEMMA OutcomeFacts ==
    ASSUME NEW g, NEW iss, GateOK(g, iss), NEW calls \in SUBSET g.inflight, NEW kind
    PROVE  /\ \A r \in outcomes(g, calls, kind) : \E c \in calls : OutcomeOf(r, c, g, kind)
           /\ \A c \in calls : \E r \in outcomes(g, calls, kind) : OutcomeOf(r, c, g, kind)
<1> DEFINE r(c) == [id |-> c.id, inc |-> g.sessions[c.sid].inc, kind |-> kind[c]]
<1>1. ASSUME NEW c \in calls PROVE r(c).id = c.seq /\ r(c).inc = c.inc /\ r(c).kind = kind[c]
  <2>1. r(c).id = c.id /\ r(c).inc = g.sessions[c.sid].inc /\ r(c).kind = kind[c]
    BY Zenon
  <2>2. c.id = c.seq /\ g.sessions[c.sid].inc = c.inc
    BY Zenon, CallFacts DEF Known
  <2> QED BY Zenon, <2>1, <2>2
<1>2. \A c \in calls : r(c) \in outcomes(g, calls, kind)
  BY Zenon DEF outcomes
<1>3. \A q \in outcomes(g, calls, kind) : \E c \in calls : q = r(c)
  BY Zenon DEF outcomes
<1>4. \A c \in calls : OutcomeOf(r(c), c, g, kind)
  BY Zenon, <1>1 DEF OutcomeOf
<1> HIDE DEF r
<1> QED BY Zenon, <1>2, <1>3, <1>4

\* The lane of a call that is over.
FreedFrom(l, lane, cs, kind) ==
    /\ l \in Lanes /\ l.inc = lane.inc /\ l.queued = lane.queued
    /\ l.redirected = lane.redirected /\ l.inFlight = kNoCallSeq
    /\ l.loginSucceeded => lane.loginSucceeded \/ \E c \in cs : opens(c, kind[c])
    /\ Depth(l) <= Depth(lane)

\* Complete leaves the lane idle and its queue as it was; only the outcome of a
\* Login changes loginSucceeded.
LEMMA FreedLaneFacts ==
    ASSUME NEW lane \in Lanes, NEW cs, NEW kind
    PROVE  FreedFrom(freedLane(lane, cs, kind), lane, cs, kind)
<1> DEFINE b == lane.loginSucceeded \/ \E c \in cs : opens(c, kind[c])
           l == [lane EXCEPT !.inFlight = kNoCallSeq, !.loginSucceeded = b]
<1>1. b \in BOOLEAN /\ kNoCallSeq \in 0..MaxRequests
  BY LaneAssumption DEF kNoCallSeq
<1>2. freedLane(lane, cs, kind) = l
  BY Zenon DEF freedLane
<1> HIDE DEF b
<1>3. l \in Lanes
  BY ZenonT(30), <1>1 DEF Lanes
<1>4. /\ l.inc = lane.inc /\ l.queued = lane.queued /\ l.redirected = lane.redirected
      /\ l.inFlight = kNoCallSeq /\ l.loginSucceeded = b
  BY DEF Lanes
<1> HIDE DEF l
<1>5. Depth(l) <= Depth(lane)
  <2> DEFINE y == IF lane.inFlight = kNoCallSeq THEN 0 ELSE 1
  <2>1. y \in {0, 1} /\ Len(lane.queued) \in Nat
    BY Zenon, LaneTypes
  <2> HIDE DEF y
  <2>2. Len(lane.queued) + 0 <= Len(lane.queued) + y
    BY <2>1
  <2> QED BY Zenon, <1>4, <2>2 DEF Depth, y
<1> QED BY Zenon, <1>2, <1>3, <1>4, <1>5 DEF b, FreedFrom

\* Calls that are over leave the gate in order, and their lanes live.
LEMMA FreedKeeps ==
    ASSUME NEW g, NEW m, NEW iss, NEW calls, NEW kind, GateOK(g, iss), Freed(g, m, calls, kind)
    PROVE  /\ PumpAt(m, {c.sid : c \in calls}, iss)
           /\ m.sent = g.sent /\ \A i : answered(g, i) => answered(m, i)
<1> DEFINE D == outcomes(g, calls, kind)
<1>1. /\ Counted(g, iss) /\ LanesOK(g, iss) /\ Apart(g) /\ IndexOK(g, iss) /\ AnswersOK(g, iss)
      /\ SentOK(g, iss)
  BY Zenon DEF GateOK
<1>2. /\ iss \in History /\ DOMAIN iss = 1..Len(iss) /\ Len(iss) \in Nat
      /\ \A s \in Sids : g.sessions[s] # None => g.sessions[s] \in Lanes
  BY Zenon, <1>1, GateTypes
<1>3. /\ m \in Gates /\ calls \subseteq g.inflight /\ calls \in SUBSET g.inflight
      /\ m.inflight = g.inflight \ calls /\ m.sent = g.sent
      /\ m.lastSeq = g.lastSeq /\ m.lastInc = g.lastInc
      /\ m.answers = g.answers \cup D
      /\ m.again = g.again \cup ({r.id : r \in D} \cap {r.id : r \in g.answers})
  BY Zenon DEF Freed
<1>4. \A s \in Sids : m.sessions[s] = IF callsOf(calls, s) = {} THEN g.sessions[s]
                                      ELSE freedLane(g.sessions[s], callsOf(calls, s), kind)
  BY Zenon DEF Freed
<1>5. \A r \in D : \E c \in calls : OutcomeOf(r, c, g, kind)
  BY Zenon, <1>3, OutcomeFacts
<1>6. \A c \in calls : \E r \in D : OutcomeOf(r, c, g, kind)
  BY Zenon, <1>3, OutcomeFacts
<1>7. \A c \in g.inflight : Known(c, g, iss)
  BY Zenon, CallFacts
<1>8. \A c, d \in g.inflight : d.sid = c.sid => d = c
  BY Zenon, CallFacts
<1>9. \A c, d \in g.inflight : d.seq = c.seq => d = c
  BY Zenon, CallFacts
<1> HIDE DEF D
<1>10. \A i : answered(g, i) => answered(m, i)
  BY Zenon, <1>3 DEF answered
<1>11. \A i : answered(m, i) => answered(g, i) \/ \E c \in calls : c.seq = i
  BY Zenon, <1>3, <1>5 DEF answered, OutcomeOf
<1>12. \A c \in calls : answered(m, c.seq)
  BY Zenon, <1>3, <1>6 DEF answered, OutcomeOf
<1>13. ASSUME NEW s \in Sids
       PROVE  /\ (m.sessions[s] = None) <=> (g.sessions[s] = None)
              /\ g.sessions[s] # None => m.sessions[s].inc = g.sessions[s].inc
              /\ callsOf(calls, s) # {} => g.sessions[s] # None /\ m.sessions[s].inFlight = kNoCallSeq
  <2>1. CASE callsOf(calls, s) = {}
    BY Zenon, <1>4, <2>1
  <2>2. CASE callsOf(calls, s) # {}
    <3>1. g.sessions[s] # None
      BY Zenon, <1>3, <1>7, <2>2 DEF callsOf, Known
    <3>2. m.sessions[s] = freedLane(g.sessions[s], callsOf(calls, s), kind)
      BY Zenon, <1>4, <2>2
    <3>3. m.sessions[s] \in Lanes /\ m.sessions[s].inc = g.sessions[s].inc /\ m.sessions[s].inFlight = kNoCallSeq
      <4>1. FreedFrom(m.sessions[s], g.sessions[s], callsOf(calls, s), kind)
        BY Zenon, <1>2, <3>1, <3>2, FreedLaneFacts
      <4> QED BY Zenon, <4>1 DEF FreedFrom
    <3>4. m.sessions[s] # None
      BY Zenon, <3>3, NoLaneAssumption
    <3> QED BY Zenon, <3>1, <3>3, <3>4
  <2> QED BY Zenon, <2>1, <2>2
<1>14. Counted(m, iss)
  BY Zenon, <1>1, <1>3 DEF Counted
<1>15. Apart(m)
  BY Zenon, <1>1, <1>13 DEF Apart
<1>16. ASSUME NEW s \in Sids, m.sessions[s] # None PROVE LaneOK(m.sessions[s], m, iss)
  <2> DEFINE lane == g.sessions[s]
             l == m.sessions[s]
  <2>1. g.sessions[s] # None
    BY Zenon, <1>13, <1>16
  <2>2. lane \in Lanes /\ LaneOK(lane, g, iss)
    BY Zenon, <1>1, <1>2, <2>1 DEF LanesOK
  <2>3. ASSUME NEW c \in calls, iss[c.seq].inc = lane.inc PROVE c.sid = s /\ c.seq = lane.inFlight
    <3>1. /\ c.sid \in Sids /\ g.sessions[c.sid] # None /\ g.sessions[c.sid].inc = lane.inc
          /\ g.sessions[c.sid].inFlight = c.seq
      BY Zenon, <1>3, <1>7, <2>3 DEF Known
    <3>2. c.sid = s
      BY Zenon, <1>1, <2>1, <3>1 DEF Apart
    <3> QED BY Zenon, <3>1, <3>2
  <2>4. ASSUME NEW n \in DOMAIN lane.queued PROVE ~answered(m, lane.queued[n].id)
    <3>1. /\ iss[lane.queued[n].id].inc = lane.inc /\ ~answered(g, lane.queued[n].id)
          /\ lane.inFlight < lane.queued[n].id
      BY Zenon, <2>2 DEF LaneOK, InLine
    <3>2. ~ (lane.inFlight < lane.inFlight)
      <4>1. lane.inFlight \in Nat
        BY Zenon, <2>2, LaneTypes
      <4> QED BY <4>1
    <3> QED BY Zenon, <1>11, <2>3, <3>1, <3>2
  <2>5. CASE callsOf(calls, s) = {}
    <3>1. l = lane
      BY Zenon, <1>4, <2>5
    <3> HIDE DEF l, lane
    <3>2. InLine(lane, m, iss)
      BY Zenon, <2>2, <2>4 DEF LaneOK, InLine
    <3>3. Accounted(lane, m, iss)
      BY Zenon, <1>10, <2>2 DEF LaneOK, Accounted
    <3>4. Opened(lane, m, iss)
      BY Zenon, <1>3, <2>2 DEF LaneOK, Opened
    <3> QED BY Zenon, <1>3, <2>2, <3>1, <3>2, <3>3, <3>4 DEF LaneOK, l
  <2>6. CASE callsOf(calls, s) # {}
    <3>1. l = freedLane(lane, callsOf(calls, s), kind)
      BY Zenon, <1>4, <2>6
    <3>2. PICK c \in calls : c.sid = s
      BY Zenon, <2>6 DEF callsOf
    <3>3. callsOf(calls, s) = {c}
      BY Zenon, <1>3, <1>8, <3>2 DEF callsOf
    <3>4. /\ l \in Lanes /\ l.inc = lane.inc /\ l.queued = lane.queued
          /\ l.redirected = lane.redirected /\ l.inFlight = kNoCallSeq
          /\ l.loginSucceeded => lane.loginSucceeded \/ \E d \in callsOf(calls, s) : opens(d, kind[d])
          /\ Depth(l) <= Depth(lane)
      <4>1. FreedFrom(l, lane, callsOf(calls, s), kind)
        BY Zenon, <2>2, <3>1, FreedLaneFacts
      <4> QED BY Zenon, <4>1 DEF FreedFrom
    <3>5. c.seq = lane.inFlight /\ iss[c.seq].inc = lane.inc /\ c.seq \in DOMAIN iss
      BY Zenon, <1>3, <1>7, <3>2 DEF Known
    <3> HIDE DEF l, lane
    <3>6. InLine(l, m, iss)
      <4>1. ASSUME NEW n \in DOMAIN lane.queued PROVE kNoCallSeq < lane.queued[n].id
        <5>1. lane.queued[n].id \in DOMAIN iss
          BY Zenon, <2>2 DEF LaneOK, InLine
        <5> QED BY <1>2, <5>1 DEF kNoCallSeq
      <4> QED BY Zenon, <2>2, <2>4, <3>4, <4>1 DEF LaneOK, InLine
    <3>7. Accounted(l, m, iss)
      BY Zenon, <1>10, <1>12, <2>2, <3>4, <3>5 DEF LaneOK, Accounted
    <3>8. Opened(l, m, iss)
      <4>1. CASE lane.loginSucceeded
        BY Zenon, <1>3, <2>2, <3>4, <4>1 DEF LaneOK, Opened
      <4>2. CASE kind[c] = "granted"
        <5>1. PICK r \in D : r.id = c.seq /\ r.inc = c.inc /\ r.kind = kind[c]
          BY Zenon, <1>6 DEF OutcomeOf
        <5>2. \A n \in DOMAIN l.queued : r.id < l.queued[n].id
          BY Zenon, <2>2, <3>4, <3>5, <5>1 DEF LaneOK, InLine
        <5>3. r \in m.answers /\ r.kind = "granted" /\ r.id \in DOMAIN iss /\ iss[r.id].inc = l.inc
          BY Zenon, <1>3, <3>4, <3>5, <4>2, <5>1
        <5> QED BY Zenon, <5>2, <5>3 DEF Opened
      <4>3. l.loginSucceeded => lane.loginSucceeded \/ kind[c] = "granted"
        BY Zenon, <3>3, <3>4 DEF opens
      <4> QED BY Zenon, <4>1, <4>2, <4>3 DEF Opened
    <3>9. Depth(l) <= kMaxLaneDepth
      <4>1. Depth(l) \in Nat /\ Depth(lane) \in Nat
        BY Zenon, <2>2, <3>4, DepthNat
      <4>2. Depth(lane) <= kMaxLaneDepth
        BY Zenon, <2>2 DEF LaneOK
      <4> QED BY <3>4, <4>1, <4>2, LaneAssumption
    <3> QED BY Zenon, <1>3, <2>2, <3>4, <3>6, <3>7, <3>8, <3>9 DEF LaneOK, l
  <2> QED BY Zenon, <2>5, <2>6
<1>17. IndexOK(m, iss)
  <2>1. ASSUME NEW c \in m.inflight PROVE CallOK(c, m, iss)
    <3>1. c \in g.inflight /\ c \notin calls /\ CallOK(c, g, iss)
      BY Zenon, <1>1, <1>3 DEF IndexOK
    <3>2. callsOf(calls, c.sid) = {} /\ c.sid \in Sids
      BY Zenon, <1>3, <1>7, <1>8, <3>1 DEF callsOf, Known
    <3>3. m.sessions[c.sid] = g.sessions[c.sid]
      BY Zenon, <1>4, <3>2
    <3>4. ~answered(m, c.seq)
      <4>1. ~answered(g, c.seq)
        BY Zenon, <1>7, <3>1 DEF Known
      <4>2. \A d \in calls : d.seq # c.seq
        BY Zenon, <1>3, <1>9, <3>1
      <4> QED BY Zenon, <1>11, <4>1, <4>2
    <3> QED BY Zenon, <3>1, <3>3, <3>4 DEF CallOK, claims
  <2>2. \A c, d \in m.inflight : c.seq = d.seq => c = d
    BY Zenon, <1>3, <1>9
  <2>3. ASSUME NEW s \in Sids, m.sessions[s] # None, m.sessions[s].inFlight # kNoCallSeq
        PROVE  \E c \in m.inflight : c.seq = m.sessions[s].inFlight /\ c.sid = s
    <3>1. callsOf(calls, s) = {} /\ m.sessions[s] = g.sessions[s]
      BY Zenon, <1>4, <1>13, <2>3
    <3>2. PICK c \in g.inflight : c.seq = m.sessions[s].inFlight /\ c.sid = s
      BY Zenon, <1>1, <2>3, <3>1 DEF IndexOK
    <3>3. c \notin calls
      BY Zenon, <3>1, <3>2 DEF callsOf
    <3> QED BY Zenon, <1>3, <3>2, <3>3
  <2> QED BY Zenon, <2>1, <2>2, <2>3 DEF IndexOK
<1>18. AnswersOK(m, iss)
  <2>1. ASSUME NEW r \in g.answers, NEW q \in D PROVE r.id # q.id
    <3>1. PICK c \in calls : q.id = c.seq
      BY Zenon, <1>5 DEF OutcomeOf
    <3> QED BY Zenon, <1>3, <1>7, <3>1 DEF answered, Known
  <2>2. m.again = {}
    <3>1. {r.id : r \in D} \cap {r.id : r \in g.answers} = {}
      BY <2>1
    <3>2. g.again = {}
      BY Zenon, <1>1 DEF AnswersOK
    <3> QED BY <1>3, <3>1, <3>2
  <2>3. ASSUME NEW r \in D, NEW q \in D, r.id = q.id PROVE r = q
    <3> DEFINE rec(c) == [id |-> c.id, inc |-> g.sessions[c.sid].inc, kind |-> kind[c]]
    <3>1. PICK c \in calls : r = rec(c) /\ r.id = c.seq
      BY Zenon, <1>5 DEF OutcomeOf
    <3>2. PICK d \in calls : q = rec(d) /\ q.id = d.seq
      BY Zenon, <1>5 DEF OutcomeOf
    <3> HIDE DEF rec
    <3>3. c = d
      BY Zenon, <1>3, <1>9, <2>3, <3>1, <3>2
    <3> QED BY Zenon, <3>1, <3>2, <3>3
  <2>4. \A r, q \in g.answers : r.id = q.id => r = q
    BY Zenon, <1>1 DEF AnswersOK
  <2>5. \A r, q \in m.answers : r.id = q.id => r = q
    BY Zenon, <1>3, <2>1, <2>3, <2>4
  <2>6. \A r \in D : r.id \in DOMAIN iss /\ r.inc = iss[r.id].inc
    <3>1. \A r \in D : \E c \in calls : r.id = c.seq /\ r.inc = c.inc
      BY Zenon, <1>5 DEF OutcomeOf
    <3>2. \A c \in calls : c.seq \in DOMAIN iss /\ iss[c.seq].inc = c.inc
      BY Zenon, <1>3, <1>7 DEF Known
    <3> QED BY Zenon, <3>1, <3>2
  <2>7. \A r \in m.answers : r.id \in DOMAIN iss /\ r.inc = iss[r.id].inc
    BY Zenon, <1>1, <1>3, <2>6 DEF AnswersOK
  <2> QED BY Zenon, <2>2, <2>5, <2>7 DEF AnswersOK
<1>19. SentOK(m, iss)
  <2>1. \A i : Entitled(i, g, iss) => Entitled(i, m, iss)
    BY Zenon, <1>3 DEF Entitled
  <2> QED BY Zenon, <1>1, <1>3, <2>1 DEF SentOK
<1>20. GateOK(m, iss)
  BY Zenon, <1>14, <1>15, <1>16, <1>17, <1>18, <1>19 DEF GateOK, LanesOK
<1>21. \A c \in calls : c.sid \in Sids /\ m.sessions[c.sid] # None
  BY Zenon, <1>3, <1>7, <1>13 DEF Known
<1>22. PumpAt(m, {c.sid : c \in calls}, iss)
  <2>1. {c.sid : c \in calls} \in SUBSET Sids /\ \A s \in {c.sid : c \in calls} : m.sessions[s] # None
    BY Zenon, <1>21
  <2> QED BY Zenon, <1>20, <2>1 DEF PumpAt
<1> QED BY Zenon, <1>3, <1>10, <1>22

\* The gate h is in order, and what was handed over since g came in its turn.
Stepped(g, h, iss) ==
    /\ GateOK(h, iss)
    /\ \A i \in h.sent \ g.sent : \A j \in 1..(i - 1) : iss[j].inc = iss[i].inc => answered(h, j)

\* The gate k is the gate g without the calls in its index; on the wire there may
\* be fewer.
Without(g, k, calls) ==
    /\ k \in Gates /\ k.sessions = g.sessions /\ k.inflight = g.inflight \ calls
    /\ k.answers = g.answers /\ k.again = g.again /\ k.sent = g.sent
    /\ k.lastSeq = g.lastSeq /\ k.lastInc = g.lastInc

\* Finish keeps the gate in order.
LEMMA FinishKeeps ==
    ASSUME NEW g, NEW k, NEW iss, NEW calls \in SUBSET g.inflight, NEW kind, GateOK(g, iss),
           Without(g, k, calls), \A c \in calls : kind[c] \in {"granted", "reply", "unavailable"}
    PROVE  Stepped(g, Finish(k, calls, kind), iss)
<1> DEFINE z(cs) == [s \in Sids |-> IF callsOf(cs, s) = {} THEN k.sessions[s]
                                    ELSE freedLane(k.sessions[s], callsOf(cs, s), kind)]
           F(cs) == Pump(Answered([k EXCEPT !.sessions = z(cs)], outcomes(k, cs, kind)),
                         {c.sid : c \in cs})
           done == {c \in calls : claims(k, c)}
           x == [k EXCEPT !.sessions = z(calls)]
           m == Answered(x, outcomes(k, calls, kind))
<1>1. Finish(k, calls, kind) = F(done)
  BY Zenon DEF Finish, callsOf, freedLane, outcomes
<1>2. \A c \in calls : Known(c, g, iss)
  BY Zenon, CallFacts
<1>3. /\ k \in Gates /\ k.sessions = g.sessions /\ k.inflight = g.inflight \ calls
      /\ k.answers = g.answers /\ k.again = g.again /\ k.sent = g.sent
      /\ k.lastSeq = g.lastSeq /\ k.lastInc = g.lastInc
  BY Zenon DEF Without
<1>4. done = calls
  <2>1. \A c \in calls : claims(k, c)
    BY Zenon, <1>2, <1>3 DEF Known, claims
  <2> QED BY Zenon, <2>1
<1>5. Finish(k, calls, kind) = Pump(m, {c.sid : c \in calls})
  <2>1. F(calls) = Pump(m, {c.sid : c \in calls})
    BY Zenon
  <2> HIDE DEF F, done, m
  <2> QED BY Zenon, <1>1, <1>4, <2>1
<1>6. z(calls) \in [Sids -> Lanes \cup {None}]
  <2>1. ASSUME NEW s \in Sids
        PROVE  (IF callsOf(calls, s) = {} THEN k.sessions[s]
                ELSE freedLane(k.sessions[s], callsOf(calls, s), kind)) \in Lanes \cup {None}
    <3>1. k.sessions[s] \in Lanes \cup {None}
      BY <1>3 DEF Gates
    <3>2. ASSUME callsOf(calls, s) # {}
          PROVE  freedLane(k.sessions[s], callsOf(calls, s), kind) \in Lanes
      <4>1. k.sessions[s] \in Lanes
        BY Zenon, <1>2, <1>3, <3>2 DEF Known, callsOf
      <4> QED BY Zenon, <4>1, FreedLaneFacts DEF FreedFrom
    <3> QED BY Zenon, <3>1, <3>2
  <2> QED BY Zenon, <2>1
<1>7. \A s \in Sids : z(calls)[s] = IF callsOf(calls, s) = {} THEN g.sessions[s]
                                    ELSE freedLane(g.sessions[s], callsOf(calls, s), kind)
  BY Zenon, <1>3
<1>8. outcomes(k, calls, kind) = outcomes(g, calls, kind)
  BY Zenon, <1>3 DEF outcomes
<1>9. outcomes(g, calls, kind) \subseteq Answers
  <2>1. ASSUME NEW r \in outcomes(g, calls, kind) PROVE r \in Answers
    <3>1. PICK c \in calls : r = [id |-> c.id, inc |-> g.sessions[c.sid].inc, kind |-> kind[c]]
      BY Zenon DEF outcomes
    <3>2. c \in Calls /\ g.sessions[c.sid].inc = c.inc
      BY Zenon, <1>2 DEF Known
    <3>3. c.id \in Requests /\ c.inc \in Incarnations
      BY Zenon, <3>2 DEF Calls
    <3>4. kind[c] \in {"granted", "reply", "unavailable", "full", "notLoggedIn"}
      BY Zenon
    <3> QED BY Zenon, <3>1, <3>2, <3>3, <3>4 DEF Answers
  <2> QED BY Zenon, <2>1
<1> HIDE DEF z
<1>10. x \in Gates
  BY ZenonT(30), <1>3, <1>6 DEF Gates
<1>11. /\ x.sessions = z(calls) /\ x.inflight = k.inflight /\ x.answers = k.answers /\ x.again = k.again
       /\ x.sent = k.sent /\ x.lastSeq = k.lastSeq /\ x.lastInc = k.lastInc
  BY <1>3 DEF Gates
<1> HIDE DEF x
<1>12. m \in Gates
  BY Zenon, <1>8, <1>9, <1>10, AnsweredTyped
<1>13. /\ m.sessions = x.sessions /\ m.inflight = x.inflight /\ m.lastSeq = x.lastSeq
       /\ m.lastInc = x.lastInc /\ m.sent = x.sent
       /\ m.answers = x.answers \cup outcomes(k, calls, kind)
       /\ m.again = x.again \cup ({r.id : r \in outcomes(k, calls, kind)} \cap {r.id : r \in x.answers})
  BY Zenon, <1>10, AnsweredEffect
<1> HIDE DEF m
<1>14. Freed(g, m, calls, kind)
  BY Zenon, <1>3, <1>7, <1>8, <1>11, <1>12, <1>13 DEF Freed
<1>15. PumpAt(m, {c.sid : c \in calls}, iss) /\ m.sent = g.sent
  BY Zenon, <1>14, FreedKeeps
<1> DEFINE S == {c.sid : c \in calls}
<1> HIDE DEF S
<1>16. PumpAt(m, S, iss)
  BY Zenon, <1>15 DEF S
<1>17. Stepped(m, Pump(m, S), iss)
  BY Zenon, <1>16, PumpKeeps DEF Stepped
<1>18. Stepped(g, Pump(m, S), iss)
  BY Zenon, <1>15, <1>17 DEF Stepped
<1> QED BY Zenon, <1>5, <1>18 DEF S

-----------------------------------------------------------------------------
(* The handlers *)

\* The histories of a step that answers nothing.
LEMMA SameHistory ==
    ASSUME NEW g, NEW h, NEW iss, GateOK(g, iss),
           h.answers = g.answers, h.again = g.again, h.sent = g.sent
    PROVE  AnswersOK(h, iss) /\ SentOK(h, iss)
<1>1. AnswersOK(h, iss)
  BY Zenon DEF GateOK, AnswersOK
<1>2. SentOK(h, iss)
  BY Zenon DEF GateOK, SentOK, Entitled
<1> QED BY Zenon, <1>1, <1>2

\* Whether a lane is in order depends on the answers and the incarnations only.
LEMMA SameAnswers ==
    ASSUME NEW g, NEW h, NEW iss, NEW lane, LaneOK(lane, g, iss),
           h.answers = g.answers, h.lastInc = g.lastInc
    PROVE  LaneOK(lane, h, iss)
<1>1. \A i : answered(h, i) <=> answered(g, i)
  BY Zenon DEF answered
<1>2. InLine(lane, h, iss)
  BY Zenon, <1>1 DEF LaneOK, InLine
<1>3. Accounted(lane, h, iss)
  BY Zenon, <1>1 DEF LaneOK, Accounted
<1>4. Opened(lane, h, iss)
  BY Zenon DEF LaneOK, Opened
<1> QED BY Zenon, <1>2, <1>3, <1>4 DEF LaneOK

\* A reply, a failure and the sweep finish calls of the index.
LEMMA CallbackSteps ==
    ASSUME LInv, NEW w, OnRouterCallFailed(w) \/ \E ok \in BOOLEAN : OnRouterReply(w, ok)
    PROVE  Stepped(gate, gate', issued)
<1>1. GateOK(gate, issued) /\ gate \in Gates
  BY Zenon DEF LInv, GateOK, Counted
<1>2. Without(gate, arrived(w), called(w))
  <2> DEFINE x == gate.wire \ {w}
             y == Extract(gate.inflight, {w})
             k == [gate EXCEPT !.wire = x, !.inflight = y]
  <2>1. arrived(w) = k
    BY Zenon DEF arrived
  <2>2. y = gate.inflight \ called(w)
    BY DEF Extract, called
  <2>3. gate.wire \in SUBSET Requests /\ gate.inflight \in SUBSET Calls
    BY <1>1 DEF Gates
  <2>4. x \in SUBSET Requests /\ y \in SUBSET Calls
    BY Zenon, <2>2, <2>3
  <2> HIDE DEF x, y
  <2>5. k \in Gates
    BY ZenonT(30), <1>1, <2>4 DEF Gates
  <2>6. /\ k.sessions = gate.sessions /\ k.inflight = y
        /\ k.answers = gate.answers /\ k.again = gate.again /\ k.sent = gate.sent
        /\ k.lastSeq = gate.lastSeq /\ k.lastInc = gate.lastInc
    BY <1>1 DEF Gates
  <2> HIDE DEF k
  <2> QED BY Zenon, <2>1, <2>2, <2>5, <2>6 DEF Without
<1>3. called(w) \in SUBSET gate.inflight
  BY Zenon DEF called
<1>4. CASE OnRouterCallFailed(w)
  <2> DEFINE kind == [c \in called(w) |-> "unavailable"]
  <2>1. gate' = Finish(arrived(w), called(w), kind)
    BY Zenon, <1>4 DEF OnRouterCallFailed, FinishWithFailure
  <2>2. \A c \in called(w) : kind[c] \in {"granted", "reply", "unavailable"}
    BY Zenon
  <2> HIDE DEF kind
  <2> QED BY Zenon, <1>1, <1>2, <1>3, <2>1, <2>2, FinishKeeps
<1>5. ASSUME NEW ok \in BOOLEAN, OnRouterReply(w, ok) PROVE Stepped(gate, gate', issued)
  <2> DEFINE kind == [c \in called(w) |-> IF c.msg = "Login" /\ ok THEN "granted" ELSE "reply"]
  <2>1. gate' = Finish(arrived(w), called(w), kind)
    BY Zenon, <1>5 DEF OnRouterReply, FinishWithReply
  <2>2. \A c \in called(w) : kind[c] \in {"granted", "reply", "unavailable"}
    BY Zenon
  <2> HIDE DEF kind
  <2> QED BY Zenon, <1>1, <1>2, <1>3, <2>1, <2>2, FinishKeeps
<1> QED BY Zenon, <1>4, <1>5

\* ExpireDue keeps the invariant: the overdue calls leave the index, and each
\* one's lane is freed, answered and pumped.
LEMMA SweepSteps ==
    ASSUME LInv, ExpireDue
    PROVE  Stepped(gate, gate', issued)
<1>1. GateOK(gate, issued) /\ gate \in Gates
  BY Zenon DEF LInv, GateOK, Counted
<1> DEFINE y == gate.inflight \ overdue
           k == [gate EXCEPT !.inflight = y]
           kind == [c \in overdue |-> "unavailable"]
<1>2. gate' = Finish(k, overdue, kind)
  BY Zenon DEF ExpireDue, Expired, FinishWithFailure
<1>3. overdue \in SUBSET gate.inflight
  BY Zenon DEF overdue
<1>4. Without(gate, k, overdue)
  <2>1. y \in SUBSET Calls
    BY <1>1 DEF Gates
  <2> HIDE DEF y
  <2>2. k \in Gates
    BY ZenonT(30), <1>1, <2>1 DEF Gates
  <2>3. /\ k.sessions = gate.sessions /\ k.inflight = y
        /\ k.answers = gate.answers /\ k.again = gate.again /\ k.sent = gate.sent
        /\ k.lastSeq = gate.lastSeq /\ k.lastInc = gate.lastInc
    BY <1>1 DEF Gates
  <2> HIDE DEF k
  <2> QED BY Zenon, <2>2, <2>3 DEF Without, y
<1>5. \A c \in overdue : kind[c] \in {"granted", "reply", "unavailable"}
  BY Zenon
<1> HIDE DEF kind, k
<1> QED BY Zenon, <1>1, <1>2, <1>3, <1>4, <1>5, FinishKeeps

\* A gate that differs only on the wire.
LEMMA EchoSteps ==
    ASSUME LInv, NEW w, ReplyWithoutEcho(w)
    PROVE  Stepped(gate, gate', issued)
<1> DEFINE x == gate.wire \ {w}
           h == [gate EXCEPT !.wire = x]
<1>1. GateOK(gate, issued) /\ gate \in Gates
  BY Zenon DEF LInv, GateOK, Counted
<1>2. gate' = h
  BY Zenon DEF ReplyWithoutEcho
<1>3. x \in SUBSET Requests
  BY <1>1 DEF Gates
<1> HIDE DEF x
<1>4. h \in Gates
  BY ZenonT(30), <1>1, <1>3 DEF Gates
<1>5. /\ h.sessions = gate.sessions /\ h.inflight = gate.inflight
      /\ h.answers = gate.answers /\ h.again = gate.again /\ h.sent = gate.sent
      /\ h.lastSeq = gate.lastSeq /\ h.lastInc = gate.lastInc
  BY <1>1 DEF Gates
<1> HIDE DEF h
<1>6. \A i : answered(h, i) <=> answered(gate, i)
  BY Zenon, <1>5 DEF answered
<1>7. Counted(h, issued) /\ Apart(h)
  BY Zenon, <1>1, <1>4, <1>5 DEF GateOK, Counted, Apart
<1>8. AnswersOK(h, issued) /\ SentOK(h, issued)
  BY Zenon, <1>1, <1>5, SameHistory
<1>9. LanesOK(h, issued)
  BY Zenon, <1>1, <1>5, SameAnswers DEF GateOK, LanesOK
<1>10. IndexOK(h, issued)
  <2>1. \A c : CallOK(c, gate, issued) => CallOK(c, h, issued)
    BY Zenon, <1>5, <1>6 DEF CallOK, claims
  <2>2. IndexOK(gate, issued)
    BY Zenon, <1>1 DEF GateOK
  <2>3. \A c \in h.inflight : CallOK(c, h, issued)
    BY Zenon, <1>5, <2>1, <2>2 DEF IndexOK
  <2>4. \A c, d \in h.inflight : c.seq = d.seq => c = d
    BY Zenon, <1>5, <2>2 DEF IndexOK
  <2>5. ASSUME NEW s \in Sids, h.sessions[s] # None, h.sessions[s].inFlight # kNoCallSeq
        PROVE  \E c \in h.inflight : c.seq = h.sessions[s].inFlight /\ c.sid = s
    <3>1. gate.sessions[s] = h.sessions[s]
      BY Zenon, <1>5
    <3>2. \E c \in gate.inflight : c.seq = gate.sessions[s].inFlight /\ c.sid = s
      BY Zenon, <2>2, <2>5, <3>1 DEF IndexOK
    <3> QED BY Zenon, <1>5, <3>1, <3>2
  <2> QED BY Zenon, <2>3, <2>4, <2>5 DEF IndexOK
<1>11. GateOK(h, issued)
  BY Zenon, <1>7, <1>8, <1>9, <1>10 DEF GateOK
<1> QED BY Zenon, <1>2, <1>5, <1>11 DEF Stepped

\* A deadline that passes.
LEMMA DeadlineSteps ==
    ASSUME LInv, NEW q, Deadline(q)
    PROVE  Stepped(gate, gate', issued)
<1>1. GateOK(gate, issued) /\ gate \in Gates /\ gate.inflight \subseteq Calls
  <2>1. GateOK(gate, issued) /\ gate \in Gates
    BY Zenon DEF LInv, GateOK, Counted
  <2> QED BY <2>1 DEF Gates
<1>2. PICK c \in gate.inflight :
         gate' = [gate EXCEPT !.inflight = (@ \ {c}) \cup {[c EXCEPT !.due = TRUE]}]
  BY Zenon DEF Deadline
<1> DEFINE b == [c EXCEPT !.due = TRUE]
           y == (gate.inflight \ {c}) \cup {b}
           h == [gate EXCEPT !.inflight = y]
<1>3. gate' = h
  BY Zenon, <1>2
<1>4. /\ b \in Calls /\ b.seq = c.seq /\ b.sid = c.sid /\ b.inc = c.inc /\ b.id = c.id /\ b.msg = c.msg
  <2>1. c \in Calls
    BY Zenon, <1>1
  <2> QED BY ZenonT(30), <2>1 DEF Calls
<1> HIDE DEF b
<1>5. y \in SUBSET Calls
  BY Zenon, <1>1, <1>4
<1> HIDE DEF y
<1>6. h \in Gates
  BY ZenonT(30), <1>1, <1>5 DEF Gates
<1>7. /\ h.sessions = gate.sessions /\ h.inflight = y
      /\ h.answers = gate.answers /\ h.again = gate.again /\ h.sent = gate.sent
      /\ h.lastSeq = gate.lastSeq /\ h.lastInc = gate.lastInc
  BY <1>1 DEF Gates
<1> HIDE DEF h
<1>8. \A i : answered(h, i) <=> answered(gate, i)
  BY Zenon, <1>7 DEF answered
<1>9. Counted(h, issued) /\ Apart(h)
  BY Zenon, <1>1, <1>6, <1>7 DEF GateOK, Counted, Apart
<1>10. AnswersOK(h, issued) /\ SentOK(h, issued)
  BY Zenon, <1>1, <1>7, SameHistory
<1>11. LanesOK(h, issued)
  BY Zenon, <1>1, <1>7, SameAnswers DEF GateOK, LanesOK
<1>12. IndexOK(h, issued)
  <2>1. \A d : CallOK(d, gate, issued) => CallOK(d, h, issued)
    BY Zenon, <1>7, <1>8 DEF CallOK, claims
  <2>2. CallOK(c, h, issued) => CallOK(b, h, issued)
    BY Zenon, <1>4 DEF CallOK, claims
  <2>3. \A d \in gate.inflight : CallOK(d, h, issued)
    BY Zenon, <1>1, <2>1 DEF GateOK, IndexOK
  <2>4. \A d \in h.inflight : CallOK(d, h, issued)
    BY Zenon, <1>7, <2>2, <2>3 DEF y
  <2>5. \A d, e \in gate.inflight : d.seq = e.seq => d = e
    BY Zenon, <1>1 DEF GateOK, IndexOK
  <2>6. \A d, e \in h.inflight : d.seq = e.seq => d = e
    BY Zenon, <1>4, <1>7, <2>5 DEF y
  <2>7. ASSUME NEW s \in Sids, h.sessions[s] # None, h.sessions[s].inFlight # kNoCallSeq
        PROVE  \E d \in h.inflight : d.seq = h.sessions[s].inFlight /\ d.sid = s
    <3>0. gate.sessions[s] = h.sessions[s]
      BY Zenon, <1>7
    <3>1. PICK d \in gate.inflight : d.seq = h.sessions[s].inFlight /\ d.sid = s
      <4>1. \E d \in gate.inflight : d.seq = gate.sessions[s].inFlight /\ d.sid = s
        BY Zenon, <1>1, <2>7, <3>0 DEF GateOK, IndexOK
      <4> QED BY Zenon, <3>0, <4>1
    <3>2. CASE d = c
      BY Zenon, <1>4, <1>7, <3>1, <3>2 DEF y
    <3>3. CASE d # c
      BY Zenon, <1>7, <3>1, <3>3 DEF y
    <3> QED BY Zenon, <3>2, <3>3
  <2> QED BY Zenon, <2>4, <2>6, <2>7 DEF IndexOK
<1>13. GateOK(h, issued)
  BY Zenon, <1>9, <1>10, <1>11, <1>12 DEF GateOK
<1> QED BY Zenon, <1>3, <1>7, <1>13 DEF Stepped

\* A connection that is gone.
LEMMA ClosingSteps ==
    ASSUME LInv, NEW s \in Sids, HandleConnectionDisconnection(s)
    PROVE  Stepped(gate, gate', issued)
<1>1. /\ GateOK(gate, issued) /\ Counted(gate, issued)
  BY Zenon DEF LInv, GateOK
<1>2. /\ gate \in Gates /\ gate.sessions \in [Sids -> Lanes \cup {None}] /\ gate.inflight \subseteq Calls
  BY Zenon, <1>1, GateTypes
<1> DEFINE y == OnSessionClosing(s)
           z == [gate.sessions EXCEPT ![s] = None]
           h == [gate EXCEPT !.inflight = y, !.sessions = z]
<1>3. gate' = h /\ gate.sessions[s] # None
  BY Zenon DEF HandleConnectionDisconnection
<1>4. y \in SUBSET Calls /\ z \in [Sids -> Lanes \cup {None}]
  BY Zenon, <1>2 DEF OnSessionClosing, Extract
<1>5. /\ \A t \in Sids : t # s => z[t] = gate.sessions[t]
      /\ z[s] = None
  BY Zenon, <1>2
<1>6. \A c \in gate.inflight : c \in y <=> c.sid # s
  <2>1. ASSUME NEW c \in gate.inflight PROVE c.seq = gate.sessions[s].inFlight <=> c.sid = s
    <3>1. Known(c, gate, issued) /\ \A d \in gate.inflight : d.seq = c.seq => d = c
      BY Zenon, <1>1, CallFacts
    <3>2. c.sid = s => c.seq = gate.sessions[s].inFlight
      BY Zenon, <3>1 DEF Known
    <3>3. ASSUME c.seq = gate.sessions[s].inFlight PROVE c.sid = s
      <4>1. gate.sessions[s].inFlight # kNoCallSeq
        BY Zenon, <3>1, <3>3 DEF Known
      <4>2. PICK d \in gate.inflight : d.seq = gate.sessions[s].inFlight /\ d.sid = s
        BY Zenon, <1>1, <1>3, <4>1 DEF GateOK, IndexOK
      <4> QED BY Zenon, <3>1, <3>3, <4>2
    <3> QED BY Zenon, <3>2, <3>3
  <2> QED BY Zenon, <2>1 DEF OnSessionClosing, Extract
<1>7. y \subseteq gate.inflight
  BY Zenon DEF OnSessionClosing, Extract
<1> HIDE DEF y, z
<1>8. h \in Gates
  BY ZenonT(30), <1>2, <1>4 DEF Gates
<1>9. /\ h.sessions = z /\ h.inflight = y
      /\ h.answers = gate.answers /\ h.again = gate.again /\ h.sent = gate.sent
      /\ h.lastSeq = gate.lastSeq /\ h.lastInc = gate.lastInc
  BY <1>2 DEF Gates
<1> HIDE DEF h
<1>10. \A i : answered(h, i) <=> answered(gate, i)
  BY Zenon, <1>9 DEF answered
<1>11. Counted(h, issued) /\ Apart(h)
  <2>1. Counted(h, issued)
    BY Zenon, <1>1, <1>8, <1>9 DEF Counted
  <2>2. \A t \in Sids : h.sessions[t] # None => h.sessions[t] = gate.sessions[t]
    BY Zenon, <1>5, <1>9
  <2>3. Apart(gate)
    BY Zenon, <1>1 DEF GateOK
  <2>4. Apart(h)
    BY Zenon, <2>2, <2>3 DEF Apart
  <2> QED BY Zenon, <2>1, <2>4
<1>12. AnswersOK(h, issued) /\ SentOK(h, issued)
  BY Zenon, <1>1, <1>9, SameHistory
<1>13. LanesOK(h, issued)
  <2>1. ASSUME NEW t \in Sids, h.sessions[t] # None PROVE LaneOK(h.sessions[t], h, issued)
    <3>1. h.sessions[t] = gate.sessions[t]
      BY Zenon, <1>5, <1>9, <2>1
    <3>2. LaneOK(h.sessions[t], gate, issued)
      BY Zenon, <1>1, <2>1, <3>1 DEF GateOK, LanesOK
    <3> QED BY Zenon, <1>9, <3>2, SameAnswers
  <2> QED BY Zenon, <2>1 DEF LanesOK
<1>14. IndexOK(h, issued)
  <2>1. ASSUME NEW c \in h.inflight PROVE CallOK(c, h, issued)
    <3>1. c \in gate.inflight /\ c.sid # s
      BY Zenon, <1>6, <1>7, <1>9
    <3>2. CallOK(c, gate, issued) /\ c.sid \in Sids
      BY Zenon, <1>1, <3>1, CallFacts DEF GateOK, IndexOK, Known
    <3>3. h.sessions[c.sid] = gate.sessions[c.sid]
      BY Zenon, <1>5, <1>9, <3>1, <3>2
    <3> QED BY Zenon, <1>10, <3>2, <3>3 DEF CallOK, claims
  <2>2. \A c, d \in h.inflight : c.seq = d.seq => c = d
    BY Zenon, <1>1, <1>7, <1>9 DEF GateOK, IndexOK
  <2>3. ASSUME NEW t \in Sids, h.sessions[t] # None, h.sessions[t].inFlight # kNoCallSeq
        PROVE  \E c \in h.inflight : c.seq = h.sessions[t].inFlight /\ c.sid = t
    <3>1. t # s /\ h.sessions[t] = gate.sessions[t]
      BY Zenon, <1>5, <1>9, <2>3
    <3>2. PICK c \in gate.inflight : c.seq = h.sessions[t].inFlight /\ c.sid = t
      BY Zenon, <1>1, <2>3, <3>1 DEF GateOK, IndexOK
    <3> QED BY Zenon, <1>6, <1>9, <3>1, <3>2
  <2> QED BY Zenon, <2>1, <2>2, <2>3 DEF IndexOK
<1>15. GateOK(h, issued)
  BY Zenon, <1>11, <1>12, <1>13, <1>14 DEF GateOK
<1> QED BY Zenon, <1>3, <1>9, <1>15 DEF Stepped

\* A lane is replaced by one of the same connection, in order as well.
LEMMA LaneSteps ==
    ASSUME NEW g, NEW iss, GateOK(g, iss), NEW s \in Sids, g.sessions[s] # None, NEW l \in Lanes,
           l.inc = g.sessions[s].inc, l.inFlight = g.sessions[s].inFlight, LaneOK(l, g, iss)
    PROVE  Stepped(g, [g EXCEPT !.sessions = [g.sessions EXCEPT ![s] = l]], iss)
<1> DEFINE z == [g.sessions EXCEPT ![s] = l]
           h == [g EXCEPT !.sessions = z]
<1>1. Counted(g, iss) /\ IndexOK(g, iss) /\ LanesOK(g, iss) /\ Apart(g)
  BY Zenon DEF GateOK
<1>2. g \in Gates /\ g.sessions \in [Sids -> Lanes \cup {None}]
  BY Zenon, <1>1, GateTypes
<1>3. z \in [Sids -> Lanes \cup {None}] /\ z[s] = l /\ \A t \in Sids : t # s => z[t] = g.sessions[t]
  BY Zenon, <1>2
<1> HIDE DEF z
<1>4. h \in Gates
  BY ZenonT(30), <1>2, <1>3 DEF Gates
<1>5. /\ h.sessions = z /\ h.inflight = g.inflight
      /\ h.answers = g.answers /\ h.again = g.again /\ h.sent = g.sent
      /\ h.lastSeq = g.lastSeq /\ h.lastInc = g.lastInc
  BY <1>2 DEF Gates
<1> HIDE DEF h
<1>6. \A i : answered(h, i) <=> answered(g, i)
  BY Zenon, <1>5 DEF answered
<1>7. \A t \in Sids : /\ h.sessions[t] = None <=> g.sessions[t] = None
                      /\ h.sessions[t].inc = g.sessions[t].inc
                      /\ h.sessions[t].inFlight = g.sessions[t].inFlight
  <2>1. l # None
    BY Zenon, NoLaneAssumption
  <2> QED BY Zenon, <1>3, <1>5, <2>1
<1>8. Counted(h, iss)
  BY Zenon, <1>1, <1>4, <1>5 DEF Counted
<1>9. Apart(h)
  BY Zenon, <1>1, <1>7 DEF Apart
<1>10. AnswersOK(h, iss) /\ SentOK(h, iss)
  BY Zenon, <1>5, SameHistory
<1>11. LanesOK(h, iss)
  <2>1. ASSUME NEW t \in Sids, h.sessions[t] # None PROVE LaneOK(h.sessions[t], h, iss)
    <3>1. LaneOK(h.sessions[t], g, iss)
      <4>1. CASE t = s
        BY Zenon, <1>3, <1>5, <4>1
      <4>2. CASE t # s
        BY Zenon, <1>1, <1>3, <1>5, <2>1, <4>2 DEF LanesOK
      <4> QED BY Zenon, <4>1, <4>2
    <3> QED BY Zenon, <1>5, <3>1, SameAnswers
  <2> QED BY Zenon, <2>1 DEF LanesOK
<1>12. IndexOK(h, iss)
  <2>1. ASSUME NEW c \in h.inflight PROVE CallOK(c, h, iss)
    <3>1. c \in g.inflight
      BY Zenon, <1>5
    <3>2. CallOK(c, g, iss) /\ c.sid \in Sids
      BY Zenon, <1>1, <3>1, CallFacts DEF IndexOK, Known
    <3> QED BY Zenon, <1>6, <1>7, <3>2 DEF CallOK, claims
  <2>2. \A c, d \in h.inflight : c.seq = d.seq => c = d
    BY Zenon, <1>1, <1>5 DEF IndexOK
  <2>3. ASSUME NEW t \in Sids, h.sessions[t] # None, h.sessions[t].inFlight # kNoCallSeq
        PROVE  \E c \in h.inflight : c.seq = h.sessions[t].inFlight /\ c.sid = t
    <3>1. g.sessions[t] # None /\ g.sessions[t].inFlight = h.sessions[t].inFlight
      BY Zenon, <1>7, <2>3
    <3>2. \E c \in g.inflight : c.seq = g.sessions[t].inFlight /\ c.sid = t
      BY Zenon, <1>1, <2>3, <3>1 DEF IndexOK
    <3> QED BY Zenon, <1>5, <3>1, <3>2
  <2> QED BY Zenon, <2>1, <2>2, <2>3 DEF IndexOK
<1>13. GateOK(h, iss)
  BY Zenon, <1>8, <1>9, <1>10, <1>11, <1>12 DEF GateOK
<1>14. Stepped(g, h, iss)
  BY Zenon, <1>5, <1>13 DEF Stepped
<1> QED BY Zenon, <1>14 DEF h, z

\* A lane whose client is sent elsewhere.
LEMMA RedirectSteps ==
    ASSUME LInv, NEW s \in Sids, OnSessionRedirected(s)
    PROVE  Stepped(gate, gate', issued)
<1> DEFINE lane == gate.sessions[s]
           e == <<>>
           l == [lane EXCEPT !.redirected = TRUE, !.queued = e]
<1>1. GateOK(gate, issued) /\ Counted(gate, issued) /\ lane # None
  BY Zenon DEF LInv, GateOK, OnSessionRedirected
<1>2. gate \in Gates /\ gate.sessions \in [Sids -> Lanes \cup {None}] /\ lane \in Lanes
  BY Zenon, <1>1, GateTypes
<1>3. gate' = [gate EXCEPT !.sessions = [gate.sessions EXCEPT ![s] = l]]
  BY ZenonT(30), <1>2 DEF OnSessionRedirected, Gates
<1>4. LaneOK(lane, gate, issued)
  BY Zenon, <1>1 DEF GateOK, LanesOK
<1>5. e \in Seq(Items) /\ e = <<>> /\ DOMAIN e = {} /\ Len(e) = 0
  OBVIOUS
<1> HIDE DEF lane, e
<1>6. l \in Lanes
  BY ZenonT(30), <1>2, <1>5 DEF Lanes
<1>7. /\ l.inc = lane.inc /\ l.inFlight = lane.inFlight /\ l.queued = e /\ l.redirected = TRUE
      /\ l.loginSucceeded = lane.loginSucceeded
  BY <1>2 DEF Lanes
<1> HIDE DEF l
<1>8. InLine(l, gate, issued)
  BY Zenon, <1>5, <1>7 DEF InLine
<1>9. Accounted(l, gate, issued)
  BY Zenon, <1>5, <1>7 DEF Accounted
<1>10. Opened(l, gate, issued)
  BY Zenon, <1>4, <1>5, <1>7 DEF LaneOK, Opened
<1>11. Depth(l) <= kMaxLaneDepth
  <2> DEFINE y == IF lane.inFlight = kNoCallSeq THEN 0 ELSE 1
  <2>1. y \in {0, 1}
    BY Zenon
  <2> HIDE DEF y
  <2>2. 0 + y <= kMaxLaneDepth
    BY <2>1, LaneAssumption
  <2> QED BY Zenon, <1>5, <1>7, <2>2 DEF Depth, y
<1>12. LaneOK(l, gate, issued)
  BY Zenon, <1>4, <1>7, <1>8, <1>9, <1>10, <1>11 DEF LaneOK
<1> QED BY Zenon, <1>1, <1>3, <1>6, <1>7, <1>12, LaneSteps DEF lane

\* A request that has waited too long.
LEMMA WaitSteps ==
    ASSUME LInv, NEW s \in Sids, Wait(s)
    PROVE  Stepped(gate, gate', issued)
<1>1. PICK n \in DOMAIN gate.sessions[s].queued :
         gate' = [gate EXCEPT !.sessions[s].queued[n].late = TRUE]
  BY Zenon DEF Wait
<1> DEFINE lane == gate.sessions[s]
           x == [lane.queued[n] EXCEPT !.late = TRUE]
           e == [lane.queued EXCEPT ![n] = x]
           l == [lane EXCEPT !.queued = e]
<1>2. GateOK(gate, issued) /\ Counted(gate, issued) /\ lane # None
  BY Zenon DEF LInv, GateOK, Wait
<1>3. gate \in Gates /\ gate.sessions \in [Sids -> Lanes \cup {None}] /\ lane \in Lanes
  BY Zenon, <1>2, GateTypes
<1>4. gate' = [gate EXCEPT !.sessions = [gate.sessions EXCEPT ![s] = l]]
  BY <1>1
<1>5. LaneOK(lane, gate, issued)
  BY Zenon, <1>2 DEF GateOK, LanesOK
<1>6. lane.queued \in Seq(Items) /\ lane.queued[n] \in Items /\ n \in DOMAIN lane.queued
  BY Zenon, <1>3, LaneTypes
<1> HIDE DEF lane
<1>7. x \in Items /\ x.id = lane.queued[n].id /\ x.seq = lane.queued[n].seq /\ x.msg = lane.queued[n].msg
  BY ZenonT(30), <1>6 DEF Items
<1> HIDE DEF x
<1>8. /\ e \in Seq(Items) /\ DOMAIN e = DOMAIN lane.queued /\ Len(e) = Len(lane.queued)
      /\ \A k \in DOMAIN lane.queued : e[k] = IF k = n THEN x ELSE lane.queued[k]
  <2>1. e \in Seq(Items) /\ Len(e) = Len(lane.queued)
    BY <1>6, <1>7
  <2>2. DOMAIN e = DOMAIN lane.queued
    BY Zenon
  <2>3. \A k \in DOMAIN lane.queued : e[k] = IF k = n THEN x ELSE lane.queued[k]
    BY Zenon
  <2> QED BY Zenon, <2>1, <2>2, <2>3
<1>9. \A k \in DOMAIN lane.queued :
         e[k].id = lane.queued[k].id /\ e[k].seq = lane.queued[k].seq /\ e[k].msg = lane.queued[k].msg
  BY Zenon, <1>7, <1>8
<1> HIDE DEF e
<1>10. l \in Lanes
  BY ZenonT(30), <1>3, <1>8 DEF Lanes
<1>11. /\ l.inc = lane.inc /\ l.inFlight = lane.inFlight /\ l.queued = e /\ l.redirected = lane.redirected
       /\ l.loginSucceeded = lane.loginSucceeded
  BY <1>3 DEF Lanes
<1> HIDE DEF l
<1>12. InLine(l, gate, issued)
  BY Zenon, <1>5, <1>8, <1>9, <1>11 DEF LaneOK, InLine
<1>13. Accounted(l, gate, issued)
  <2>1. DOMAIN <<>> = {}
    OBVIOUS
  <2>2. ~lane.redirected
    BY Zenon, <1>5, <1>6, <2>1 DEF LaneOK, Accounted
  <2>3. ASSUME NEW j \in DOMAIN issued, issued[j].inc = l.inc
        PROVE  answered(gate, j) \/ j = l.inFlight \/ \E k \in DOMAIN l.queued : l.queued[k].id = j
    <3>1. answered(gate, j) \/ j = lane.inFlight \/ \E k \in DOMAIN lane.queued : lane.queued[k].id = j
      BY Zenon, <1>5, <1>11, <2>2, <2>3 DEF LaneOK, Accounted
    <3> QED BY Zenon, <1>8, <1>9, <1>11, <3>1
  <2> QED BY Zenon, <1>11, <2>2, <2>3 DEF Accounted
<1>14. Opened(l, gate, issued)
  BY Zenon, <1>5, <1>8, <1>9, <1>11 DEF LaneOK, Opened
<1>15. LaneOK(l, gate, issued)
  BY Zenon, <1>5, <1>8, <1>11, <1>12, <1>13, <1>14 DEF LaneOK, Depth
<1> QED BY Zenon, <1>2, <1>4, <1>10, <1>11, <1>15, LaneSteps DEF lane

\* A new connection.
LEMMA ConnectSteps ==
    ASSUME LInv, NEW s \in Sids, HandleConnectionEstablished(s)
    PROVE  Stepped(gate, gate', issued)
<1> DEFINE i == gate.lastInc + 1
           l == NewSession(i)
           z == [gate.sessions EXCEPT ![s] = l]
           h == [gate EXCEPT !.lastInc = i, !.sessions = z]
<1>1. /\ GateOK(gate, issued) /\ Counted(gate, issued) /\ LanesOK(gate, issued) /\ Apart(gate)
      /\ IndexOK(gate, issued)
  BY Zenon DEF LInv, GateOK
<1>2. /\ gate \in Gates /\ gate.sessions \in [Sids -> Lanes \cup {None}] /\ gate.lastInc \in Nat
      /\ \A t \in Sids : gate.sessions[t] # None => gate.sessions[t] \in Lanes
      /\ \A j \in DOMAIN issued : issued[j].inc \in Incarnations
  BY Zenon, <1>1, GateTypes
<1>3. gate' = h /\ gate.sessions[s] = None /\ gate.lastInc < MaxConnections
  BY Zenon DEF HandleConnectionEstablished
<1>4. i \in Incarnations /\ i \in Nat /\ i <= MaxConnections /\ i <= i /\ ~ (i <= gate.lastInc)
  BY <1>2, <1>3, LaneAssumption DEF Incarnations
<1>5. \A j \in Incarnations : j <= gate.lastInc => j <= i /\ j # i
  BY <1>2, LaneAssumption DEF Incarnations
<1> HIDE DEF i
<1>6. /\ l \in Lanes /\ l.inc = i /\ l.queued = <<>> /\ l.inFlight = kNoCallSeq /\ l.redirected = FALSE
      /\ l.loginSucceeded = FALSE /\ l # None
  <2>1. /\ l.inc = i /\ l.queued = <<>> /\ l.inFlight = kNoCallSeq /\ l.redirected = FALSE
        /\ l.loginSucceeded = FALSE
    BY DEF NewSession
  <2>2. l \in Lanes
    BY <1>4, LaneAssumption DEF NewSession, Lanes, kNoCallSeq
  <2> QED BY Zenon, <2>1, <2>2, NoLaneAssumption
<1> HIDE DEF l
<1>7. z \in [Sids -> Lanes \cup {None}] /\ z[s] = l /\ \A t \in Sids : t # s => z[t] = gate.sessions[t]
  BY Zenon, <1>2, <1>6
<1> HIDE DEF z
<1>8. h \in Gates
  BY ZenonT(30), <1>2, <1>4, <1>7 DEF Gates
<1>9. /\ h.sessions = z /\ h.inflight = gate.inflight
      /\ h.answers = gate.answers /\ h.again = gate.again /\ h.sent = gate.sent
      /\ h.lastSeq = gate.lastSeq /\ h.lastInc = i
  BY <1>2 DEF Gates
<1> HIDE DEF h
<1>10. \A j : answered(h, j) <=> answered(gate, j)
  BY Zenon, <1>9 DEF answered
<1>11. Counted(h, issued)
  <2>1. \A j \in DOMAIN issued : issued[j].inc <= i
    BY Zenon, <1>1, <1>2, <1>5 DEF Counted
  <2> QED BY Zenon, <1>1, <1>4, <1>8, <1>9, <2>1 DEF Counted
<1>12. \A t \in Sids : gate.sessions[t] # None => gate.sessions[t].inc # i /\ gate.sessions[t].inc <= i
  <2>1. ASSUME NEW t \in Sids, gate.sessions[t] # None
        PROVE  gate.sessions[t].inc # i /\ gate.sessions[t].inc <= i
    <3>1. gate.sessions[t].inc \in Incarnations
      BY Zenon, <1>2, <2>1, LaneTypes
    <3>2. gate.sessions[t].inc <= gate.lastInc
      BY Zenon, <1>1, <2>1 DEF LanesOK, LaneOK
    <3> QED BY Zenon, <1>5, <3>1, <3>2
  <2> QED BY Zenon, <2>1
<1>13. Apart(h)
  <2>1. \A t \in Sids : t # s => h.sessions[t] = gate.sessions[t]
    BY Zenon, <1>7, <1>9
  <2>2. h.sessions[s].inc = i
    BY Zenon, <1>6, <1>7, <1>9
  <2>3. ASSUME NEW t \in Sids, NEW u \in Sids, h.sessions[t] # None, h.sessions[u] # None,
               h.sessions[t].inc = h.sessions[u].inc
        PROVE  t = u
    <3>1. CASE t = s
      BY Zenon, <1>12, <2>1, <2>2, <2>3, <3>1
    <3>2. CASE u = s
      BY Zenon, <1>12, <2>1, <2>2, <2>3, <3>2
    <3>3. CASE t # s /\ u # s
      BY Zenon, <1>1, <2>1, <2>3, <3>3 DEF Apart
    <3> QED BY Zenon, <3>1, <3>2, <3>3
  <2> QED BY Zenon, <2>3 DEF Apart
<1>14. AnswersOK(h, issued) /\ SentOK(h, issued)
  BY Zenon, <1>1, <1>9, SameHistory
<1>15. LanesOK(h, issued)
  <2>1. LaneOK(l, h, issued)
    <3>1. DOMAIN <<>> = {} /\ Len(<<>>) + 0 = 0 /\ 0 <= kMaxLaneDepth
      BY LaneAssumption
    <3>2. InLine(l, h, issued) /\ Opened(l, h, issued)
      BY Zenon, <1>6, <3>1 DEF InLine, Opened
    <3>3. Depth(l) <= kMaxLaneDepth
      BY Zenon, <1>6, <3>1 DEF Depth
    <3>4. \A j \in DOMAIN issued : issued[j].inc # i
      BY Zenon, <1>1, <1>2, <1>5 DEF Counted
    <3>5. Accounted(l, h, issued)
      BY Zenon, <1>6, <3>4 DEF Accounted
    <3> QED BY Zenon, <1>4, <1>6, <1>9, <3>2, <3>3, <3>5 DEF LaneOK
  <2>2. ASSUME NEW t \in Sids, t # s, gate.sessions[t] # None PROVE LaneOK(gate.sessions[t], h, issued)
    <3> DEFINE lane == gate.sessions[t]
    <3>1. LaneOK(lane, gate, issued)
      BY Zenon, <1>1, <2>2 DEF LanesOK
    <3>2. lane.inc <= h.lastInc
      BY Zenon, <1>9, <1>12, <2>2
    <3> HIDE DEF lane
    <3>3. InLine(lane, h, issued)
      BY Zenon, <1>10, <3>1 DEF LaneOK, InLine
    <3>4. Accounted(lane, h, issued)
      BY Zenon, <1>10, <3>1 DEF LaneOK, Accounted
    <3>5. Opened(lane, h, issued)
      BY Zenon, <1>9, <3>1 DEF LaneOK, Opened
    <3> QED BY Zenon, <3>1, <3>2, <3>3, <3>4, <3>5 DEF LaneOK, lane
  <2> QED BY Zenon, <1>7, <1>9, <2>1, <2>2 DEF LanesOK
<1>16. IndexOK(h, issued)
  <2>1. ASSUME NEW c \in h.inflight PROVE CallOK(c, h, issued)
    <3>1. c \in gate.inflight
      BY Zenon, <1>9
    <3>2. CallOK(c, gate, issued) /\ c.sid \in Sids /\ gate.sessions[c.sid] # None
      BY Zenon, <1>1, <3>1, CallFacts DEF IndexOK, Known
    <3>3. h.sessions[c.sid] = gate.sessions[c.sid]
      BY Zenon, <1>3, <1>7, <1>9, <3>2
    <3> QED BY Zenon, <1>10, <3>2, <3>3 DEF CallOK, claims
  <2>2. \A c, d \in h.inflight : c.seq = d.seq => c = d
    BY Zenon, <1>1, <1>9 DEF IndexOK
  <2>3. ASSUME NEW t \in Sids, h.sessions[t] # None, h.sessions[t].inFlight # kNoCallSeq
        PROVE  \E c \in h.inflight : c.seq = h.sessions[t].inFlight /\ c.sid = t
    <3>1. gate.sessions[t] = h.sessions[t]
      BY Zenon, <1>6, <1>7, <1>9, <2>3
    <3>2. \E c \in gate.inflight : c.seq = gate.sessions[t].inFlight /\ c.sid = t
      BY Zenon, <1>1, <2>3, <3>1 DEF IndexOK
    <3> QED BY Zenon, <1>9, <3>1, <3>2
  <2> QED BY Zenon, <2>1, <2>2, <2>3 DEF IndexOK
<1>17. GateOK(h, issued)
  BY Zenon, <1>11, <1>13, <1>14, <1>15, <1>16 DEF GateOK
<1> QED BY Zenon, <1>3, <1>9, <1>17 DEF Stepped

\* The requests made, with one more.
OneMore(iss, more, i, m) ==
    /\ more \in History /\ Len(more) = Len(iss) + 1 /\ Len(iss) \in Nat
    /\ DOMAIN more = DOMAIN iss \cup {Len(iss) + 1}
    /\ \A j \in DOMAIN iss : more[j] = iss[j] /\ j < Len(iss) + 1 /\ j # Len(iss) + 1
    /\ more[Len(iss) + 1].inc = i /\ more[Len(iss) + 1].msg = m

\* The history with one more request keeps the earlier ones and has the new one
\* last.
LEMMA MoreRequests ==
    ASSUME NEW iss \in History, NEW i \in Incarnations, NEW m \in Messages
    PROVE  OneMore(iss, Append(iss, [inc |-> i, msg |-> m]), i, m)
<1> DEFINE R == [inc : Incarnations, msg : Messages]
           x == [inc |-> i, msg |-> m]
<1>1. iss \in Seq(R) /\ x \in R /\ x.inc = i /\ x.msg = m
  BY Zenon DEF History
<1> HIDE DEF R, x
<1>2. /\ Append(iss, x) \in Seq(R) /\ Len(Append(iss, x)) = Len(iss) + 1 /\ Len(iss) \in Nat
      /\ DOMAIN iss = 1..Len(iss) /\ DOMAIN Append(iss, x) = 1..(Len(iss) + 1)
      /\ \A j \in 1..Len(iss) : Append(iss, x)[j] = iss[j]
      /\ Append(iss, x)[Len(iss) + 1] = x
  BY <1>1
<1>3. DOMAIN Append(iss, x) = DOMAIN iss \cup {Len(iss) + 1}
  BY <1>2
<1>4. \A j \in DOMAIN iss : j < Len(iss) + 1 /\ j # Len(iss) + 1
  BY <1>2
<1> QED BY Zenon, <1>1, <1>2, <1>3, <1>4 DEF R, x, History, OneMore

\* A request more, which h may have answered: iss is now more.
Grown(g, h, iss, more, i, D) ==
    /\ GateOK(g, iss) /\ h \in Gates /\ more \in History /\ Len(more) = Len(iss) + 1 /\ Len(iss) \in Nat
    /\ DOMAIN more = DOMAIN iss \cup {Len(iss) + 1}
    /\ \A j \in DOMAIN iss : more[j] = iss[j] /\ j < Len(iss) + 1 /\ j # Len(iss) + 1
    /\ more[Len(iss) + 1].inc = i
    /\ h.inflight = g.inflight /\ h.sent = g.sent /\ h.lastSeq = Len(more) /\ h.lastInc = g.lastInc
    /\ h.answers = g.answers \cup D
    /\ \A r \in D : r.id = Len(iss) + 1 /\ r.inc = i
    /\ \A r, q \in D : r = q

\* A lane in order stays so, if the new request is answered or another's.
LEMMA GrownLane ==
    ASSUME NEW g, NEW h, NEW iss, NEW more, NEW i, NEW D, Grown(g, h, iss, more, i, D),
           NEW lane, LaneOK(lane, g, iss), lane.inc # i \/ answered(h, Len(iss) + 1)
    PROVE  LaneOK(lane, h, more)
<1> DEFINE N == Len(iss) + 1
<1>1. /\ DOMAIN more = DOMAIN iss \cup {N} /\ more[N].inc = i
      /\ \A j \in DOMAIN iss : more[j] = iss[j] /\ j # N
      /\ h.answers = g.answers \cup D /\ \A r \in D : r.id = N
      /\ h.lastInc = g.lastInc
  BY Zenon DEF Grown
<1> HIDE DEF N
<1>2. \A j \in DOMAIN iss : answered(h, j) <=> answered(g, j)
  BY Zenon, <1>1 DEF answered
<1>3. InLine(lane, h, more)
  BY Zenon, <1>1, <1>2 DEF LaneOK, InLine
<1>4. Accounted(lane, h, more)
  <2>1. ASSUME ~lane.redirected, NEW j \in DOMAIN more, more[j].inc = lane.inc
        PROVE  answered(h, j) \/ j = lane.inFlight \/ \E n \in DOMAIN lane.queued : lane.queued[n].id = j
    <3>1. CASE j = N
      BY Zenon, <1>1, <2>1, <3>1 DEF N
    <3>2. CASE j \in DOMAIN iss
      BY Zenon, <1>1, <1>2, <2>1, <3>2 DEF LaneOK, Accounted
    <3> QED BY Zenon, <1>1, <3>1, <3>2
  <2> QED BY Zenon, <2>1 DEF LaneOK, Accounted
<1>5. Opened(lane, h, more)
  BY Zenon, <1>1 DEF LaneOK, Opened
<1> QED BY Zenon, <1>1, <1>3, <1>4, <1>5 DEF LaneOK

\* Only the lane of s may differ, and what waits in it.
OnlyQueue(g, h, s, i) ==
    /\ g.sessions[s] # None /\ g.sessions[s].inc = i
    /\ h.sessions[s] # None /\ h.sessions[s].inc = i /\ h.sessions[s].inFlight = g.sessions[s].inFlight
    /\ \A t \in Sids : t # s => h.sessions[t] = g.sessions[t]

\* The gate stays in order, if the lane of the new request does.
LEMMA GrownKeeps ==
    ASSUME NEW g, NEW h, NEW iss, NEW more, NEW i, NEW D, Grown(g, h, iss, more, i, D),
           Len(iss) < MaxRequests, NEW s \in Sids, OnlyQueue(g, h, s, i),
           LaneOK(h.sessions[s], h, more), h.again = {}
    PROVE  GateOK(h, more)
<1> DEFINE N == Len(iss) + 1
<1>0. /\ g.sessions[s] # None /\ g.sessions[s].inc = i
      /\ h.sessions[s] # None /\ h.sessions[s].inc = i /\ h.sessions[s].inFlight = g.sessions[s].inFlight
      /\ \A t \in Sids : t # s => h.sessions[t] = g.sessions[t]
  BY Zenon DEF OnlyQueue
<1>1. /\ GateOK(g, iss) /\ h \in Gates /\ more \in History /\ Len(more) = N /\ Len(iss) \in Nat
      /\ DOMAIN more = DOMAIN iss \cup {N} /\ more[N].inc = i
      /\ h.inflight = g.inflight /\ h.sent = g.sent /\ h.lastSeq = Len(more) /\ h.lastInc = g.lastInc
  BY Zenon DEF Grown
<1>2. \A j \in DOMAIN iss : more[j] = iss[j] /\ j # N
  BY Zenon DEF Grown
<1>3. /\ h.answers = g.answers \cup D /\ \A r \in D : r.id = N /\ r.inc = i
      /\ \A r, q \in D : r = q
  BY Zenon DEF Grown
<1>4. /\ Counted(g, iss) /\ LanesOK(g, iss) /\ Apart(g) /\ IndexOK(g, iss) /\ AnswersOK(g, iss)
      /\ SentOK(g, iss)
  BY Zenon, <1>1 DEF GateOK
<1>5. N <= MaxRequests
  BY <1>1, LaneAssumption
<1> HIDE DEF N
<1>6. \A j \in DOMAIN iss : answered(h, j) <=> answered(g, j)
  BY Zenon, <1>2, <1>3 DEF answered
<1>7. Counted(h, more)
  <2>1. i <= g.lastInc
    BY Zenon, <1>0, <1>4 DEF LanesOK, LaneOK
  <2>2. \A j \in DOMAIN more : more[j].inc <= h.lastInc
    BY Zenon, <1>1, <1>2, <1>4, <2>1 DEF Counted
  <2> QED BY Zenon, <1>1, <1>4, <1>5, <2>2 DEF Counted
<1>8. \A t \in Sids : /\ h.sessions[t] = None <=> g.sessions[t] = None
                      /\ h.sessions[t].inc = g.sessions[t].inc
                      /\ h.sessions[t].inFlight = g.sessions[t].inFlight
  BY Zenon, <1>0
<1>9. Apart(h)
  BY Zenon, <1>4, <1>8 DEF Apart
<1>10. LanesOK(h, more)
  <2>0. ASSUME NEW lane, LaneOK(lane, g, iss), lane.inc # i PROVE LaneOK(lane, h, more)
    BY Zenon, <2>0, GrownLane
  <2>1. ASSUME NEW t \in Sids, t # s, g.sessions[t] # None PROVE LaneOK(g.sessions[t], h, more)
    <3>1. LaneOK(g.sessions[t], g, iss) /\ g.sessions[t].inc # i
      BY Zenon, <1>0, <1>4, <2>1 DEF LanesOK, Apart
    <3> QED BY Zenon, <2>0, <3>1
  <2> QED BY Zenon, <1>0, <2>1 DEF LanesOK
<1>11. IndexOK(h, more)
  <2>1. ASSUME NEW c \in g.inflight PROVE CallOK(c, h, more)
    <3>1. CallOK(c, g, iss) /\ c.sid \in Sids
      BY Zenon, <1>1, <1>4, CallFacts DEF IndexOK, Known
    <3>2. claims(h, c)
      BY Zenon, <1>8, <3>1 DEF CallOK, claims
    <3> QED BY Zenon, <1>1, <1>2, <1>6, <3>1, <3>2 DEF CallOK
  <2>2. \A c, d \in g.inflight : c.seq = d.seq => c = d
    BY Zenon, <1>4 DEF IndexOK
  <2>3. ASSUME NEW t \in Sids, h.sessions[t] # None, h.sessions[t].inFlight # kNoCallSeq
        PROVE  \E c \in h.inflight : c.seq = h.sessions[t].inFlight /\ c.sid = t
    <3>1. g.sessions[t] # None /\ g.sessions[t].inFlight = h.sessions[t].inFlight
      BY Zenon, <1>8, <2>3
    <3>2. \E c \in g.inflight : c.seq = g.sessions[t].inFlight /\ c.sid = t
      BY Zenon, <1>4, <2>3, <3>1 DEF IndexOK
    <3> QED BY Zenon, <1>1, <3>1, <3>2
  <2> QED BY Zenon, <1>1, <2>1, <2>2, <2>3 DEF IndexOK
<1>12. AnswersOK(h, more)
  <2>1. \A r \in g.answers : r.id \in DOMAIN iss /\ r.inc = iss[r.id].inc
    BY Zenon, <1>4 DEF AnswersOK
  <2>2. \A r, q \in g.answers : r.id = q.id => r = q
    BY Zenon, <1>4 DEF AnswersOK
  <2>3. \A r \in h.answers : r.id \in DOMAIN more /\ r.inc = more[r.id].inc
    BY Zenon, <1>1, <1>2, <1>3, <2>1
  <2>4. \A r \in g.answers : \A q \in D : r.id # q.id
    BY Zenon, <1>2, <1>3, <2>1
  <2>5. \A r, q \in h.answers : r.id = q.id => r = q
    BY Zenon, <1>3, <2>2, <2>4
  <2> QED BY Zenon, <2>3, <2>5 DEF AnswersOK
<1>13. SentOK(h, more)
  <2>1. \A r \in g.answers : r.id \in DOMAIN iss
    BY Zenon, <1>4 DEF AnswersOK
  <2>2. ASSUME NEW j \in DOMAIN iss, Entitled(j, g, iss) PROVE Entitled(j, h, more)
    BY Zenon, <1>2, <1>3, <2>1, <2>2 DEF Entitled
  <2> QED BY Zenon, <1>1, <1>4, <2>2 DEF SentOK
<1> QED BY Zenon, <1>7, <1>9, <1>10, <1>11, <1>12, <1>13 DEF GateOK

\* What a request finds.
AdmitAt(s, m, more) ==
    /\ LInv /\ s \in Sids /\ m \in Messages /\ gate.sessions[s] # None /\ Len(issued) < MaxRequests
    /\ more = Append(issued, [inc |-> gate.sessions[s].inc, msg |-> m])

\* A request that is refused at once.
LEMMA RejectedSteps ==
    ASSUME NEW s, NEW m, NEW more, AdmitAt(s, m, more), NEW item, item.id = Len(issued) + 1,
           NEW kind \in {"unavailable", "full"}
    PROVE  Stepped(gate, rejected(s, item, kind), more)
<1> DEFINE N == Len(issued) + 1
           lane == gate.sessions[s]
           n == gate.lastSeq + 1
           x == [gate EXCEPT !.lastSeq = n]
           r == [id |-> item.id, inc |-> lane.inc, kind |-> kind]
           h == Answered(x, {r})
<1>1. /\ GateOK(gate, issued) /\ Counted(gate, issued) /\ LanesOK(gate, issued) /\ AnswersOK(gate, issued)
      /\ s \in Sids /\ m \in Messages /\ lane # None /\ Len(issued) < MaxRequests
      /\ more = Append(issued, [inc |-> lane.inc, msg |-> m])
  BY Zenon DEF AdmitAt, LInv, GateOK
<1>2. /\ gate \in Gates /\ issued \in History /\ lane \in Lanes /\ gate.lastSeq \in Nat
  BY Zenon, <1>1, GateTypes
<1>3. lane.inc \in Incarnations
  BY Zenon, <1>2, LaneTypes
<1>4. /\ more \in History /\ Len(more) = N /\ Len(issued) \in Nat
      /\ DOMAIN more = DOMAIN issued \cup {N}
      /\ \A j \in DOMAIN issued : more[j] = issued[j] /\ j < N /\ j # N
      /\ more[N].inc = lane.inc /\ more[N].msg = m
  <2>1. OneMore(issued, more, lane.inc, m)
    BY Zenon, <1>1, <1>2, <1>3, MoreRequests
  <2> QED BY Zenon, <2>1 DEF OneMore
<1>5. N \in Requests /\ n = N /\ n \in Nat
  <2>1. gate.lastSeq = Len(issued)
    BY Zenon, <1>1 DEF Counted
  <2> QED BY <1>1, <1>4, <2>1, LaneAssumption DEF Requests
<1>6. rejected(s, item, kind) = h
  BY Zenon DEF rejected
<1>7. r \in Answers /\ r.id = N /\ r.inc = lane.inc
  <2>1. kind \in {"granted", "reply", "unavailable", "full", "notLoggedIn"}
    OBVIOUS
  <2> QED BY Zenon, <1>3, <1>5, <2>1 DEF Answers
<1> HIDE DEF r, n, N, lane
<1>8. x \in Gates
  BY ZenonT(30), <1>2, <1>5 DEF Gates
<1>9. /\ x.sessions = gate.sessions /\ x.inflight = gate.inflight /\ x.lastSeq = n
      /\ x.lastInc = gate.lastInc /\ x.sent = gate.sent /\ x.answers = gate.answers /\ x.again = gate.again
  BY <1>2 DEF Gates
<1> HIDE DEF x
<1>10. h \in Gates
  BY Zenon, <1>7, <1>8, AnsweredTyped
<1>11. /\ h.sessions = x.sessions /\ h.inflight = x.inflight /\ h.lastSeq = x.lastSeq
       /\ h.lastInc = x.lastInc /\ h.sent = x.sent /\ h.answers = x.answers \cup {r}
       /\ h.again = x.again \cup ({q.id : q \in {r}} \cap {q.id : q \in x.answers})
  BY Zenon, <1>8, AnsweredEffect
<1> HIDE DEF h
<1>12. Grown(gate, h, issued, more, lane.inc, {r})
  BY Zenon, <1>1, <1>4, <1>5, <1>7, <1>9, <1>10, <1>11 DEF Grown, N
<1>13. answered(h, Len(issued) + 1)
  BY Zenon, <1>7, <1>11 DEF answered, N
<1>14. LaneOK(lane, h, more)
  <2>1. LaneOK(lane, gate, issued)
    BY Zenon, <1>1 DEF LanesOK, lane
  <2> QED BY Zenon, <1>12, <1>13, <2>1, GrownLane
<1>15. h.again = {}
  <2>1. gate.again = {} /\ \A q \in gate.answers : q.id \in DOMAIN issued
    BY Zenon, <1>1 DEF AnswersOK
  <2>2. \A q \in gate.answers : q.id # r.id
    BY Zenon, <1>4, <1>7, <2>1
  <2> QED BY <1>9, <1>11, <2>1, <2>2
<1>16. h.sessions = gate.sessions
  BY Zenon, <1>9, <1>11
<1>17. GateOK(h, more)
  <2>1. OnlyQueue(gate, h, s, lane.inc) /\ LaneOK(h.sessions[s], h, more)
    BY Zenon, <1>1, <1>14, <1>16 DEF lane, OnlyQueue
  <2> QED BY Zenon, <1>1, <1>12, <1>15, <2>1, GrownKeeps
<1> QED BY Zenon, <1>6, <1>9, <1>11, <1>17 DEF Stepped

\* A request that joins its lane.
LEMMA QueuedSteps ==
    ASSUME NEW s, NEW m, NEW more, AdmitAt(s, m, more), NEW item, item \in Items,
           item.id = Len(issued) + 1, item.seq = gate.lastSeq + 1, item.msg = m,
           ~gate.sessions[s].redirected, ~ (Depth(gate.sessions[s]) >= kMaxLaneDepth)
    PROVE  GateOK(queuedUp(s, item), more) /\ queuedUp(s, item).sent = gate.sent
           /\ queuedUp(s, item).sessions[s] # None
<1> DEFINE N == Len(issued) + 1
           lane == gate.sessions[s]
           n == gate.lastSeq + 1
           e == Append(lane.queued, item)
           l == [lane EXCEPT !.queued = e]
           z == [gate.sessions EXCEPT ![s] = l]
           h == [gate EXCEPT !.lastSeq = n, !.sessions = z]
<1>1. /\ GateOK(gate, issued) /\ Counted(gate, issued) /\ LanesOK(gate, issued) /\ AnswersOK(gate, issued)
      /\ IndexOK(gate, issued)
      /\ s \in Sids /\ m \in Messages /\ lane # None /\ Len(issued) < MaxRequests
      /\ more = Append(issued, [inc |-> lane.inc, msg |-> m])
  BY Zenon DEF AdmitAt, LInv, GateOK
<1>2. /\ gate \in Gates /\ issued \in History /\ lane \in Lanes /\ gate.lastSeq \in Nat
      /\ gate.sessions \in [Sids -> Lanes \cup {None}] /\ DOMAIN issued \subseteq Nat
  BY Zenon, <1>1, GateTypes
<1>3. /\ lane.inc \in Incarnations /\ lane.queued \in Seq(Items) /\ lane.inFlight \in Nat
      /\ DOMAIN lane.queued = 1..Len(lane.queued) /\ Len(lane.queued) \in Nat
  BY Zenon, <1>2, LaneTypes
<1>4. /\ more \in History /\ Len(more) = N /\ Len(issued) \in Nat
      /\ DOMAIN more = DOMAIN issued \cup {N}
      /\ \A j \in DOMAIN issued : more[j] = issued[j] /\ j < N /\ j # N
      /\ more[N].inc = lane.inc /\ more[N].msg = m
  <2>1. OneMore(issued, more, lane.inc, m)
    BY Zenon, <1>1, <1>2, <1>3, MoreRequests
  <2> QED BY Zenon, <2>1 DEF OneMore
<1>5. n = N /\ n \in Nat /\ ~ (N < N) /\ 0 < N
  <2>1. gate.lastSeq = Len(issued)
    BY Zenon, <1>1 DEF Counted
  <2> QED BY <1>4, <2>1
<1>6. queuedUp(s, item) = h
  BY Zenon DEF queuedUp
<1>7. item.id = N /\ item.seq = N
  BY Zenon, <1>5
<1>8. LaneOK(lane, gate, issued) /\ ~lane.redirected /\ ~ (Depth(lane) >= kMaxLaneDepth)
  BY Zenon, <1>1 DEF LanesOK
<1>9. lane.inFlight < N
  <2>1. CASE lane.inFlight = kNoCallSeq
    BY Zenon, <1>5, <2>1 DEF kNoCallSeq
  <2>2. CASE lane.inFlight # kNoCallSeq
    <3>1. PICK c \in gate.inflight : c.seq = lane.inFlight
      BY Zenon, <1>1, <2>2 DEF IndexOK
    <3>2. c.seq \in DOMAIN issued
      BY Zenon, <1>1, CallFacts DEF Known
    <3> QED BY Zenon, <1>4, <3>1, <3>2
  <2> QED BY Zenon, <2>1, <2>2
<1> HIDE DEF lane
<1>10. /\ e \in Seq(Items) /\ Len(e) = Len(lane.queued) + 1
       /\ DOMAIN e = DOMAIN lane.queued \cup {Len(lane.queued) + 1}
       /\ e[Len(lane.queued) + 1] = item
  BY <1>3
<1>11. \A k \in DOMAIN lane.queued :
          e[k] = lane.queued[k] /\ k < Len(lane.queued) + 1 /\ k # Len(lane.queued) + 1
  BY <1>3
<1> DEFINE L == Len(lane.queued) + 1
<1>12. ~ (L < L) /\ \A k \in DOMAIN lane.queued : ~ (L < k)
  BY <1>3
<1> HIDE DEF e
<1>13. l \in Lanes
  BY ZenonT(30), <1>2, <1>10 DEF Lanes
<1>14. /\ l.inc = lane.inc /\ l.inFlight = lane.inFlight /\ l.queued = e /\ l.redirected = lane.redirected
       /\ l.loginSucceeded = lane.loginSucceeded
  BY <1>2 DEF Lanes
<1>15. l # None
  BY Zenon, <1>13, NoLaneAssumption
<1> HIDE DEF l
<1>16. z \in [Sids -> Lanes \cup {None}] /\ z[s] = l /\ \A t \in Sids : t # s => z[t] = gate.sessions[t]
  BY Zenon, <1>1, <1>2, <1>13
<1> HIDE DEF z, n
<1>17. h \in Gates
  BY ZenonT(30), <1>2, <1>5, <1>16 DEF Gates
<1>18. /\ h.sessions = z /\ h.inflight = gate.inflight
       /\ h.answers = gate.answers /\ h.again = gate.again /\ h.sent = gate.sent
       /\ h.lastSeq = n /\ h.lastInc = gate.lastInc
  BY <1>2 DEF Gates
<1> HIDE DEF h
<1>19. Grown(gate, h, issued, more, lane.inc, {})
  BY Zenon, <1>1, <1>4, <1>5, <1>17, <1>18 DEF Grown
<1> HIDE DEF N, L
<1>20. \A j : answered(h, j) <=> answered(gate, j)
  BY Zenon, <1>18 DEF answered
<1>21. \A k \in DOMAIN e : \/ k = L /\ e[k] = item
                           \/ k \in DOMAIN lane.queued /\ e[k] = lane.queued[k]
  BY Zenon, <1>10, <1>11 DEF L
<1>22. \A k \in DOMAIN lane.queued : lane.queued[k].id \in DOMAIN issued
  BY Zenon, <1>8 DEF LaneOK, InLine
<1>23. InLine(l, h, more)
  <2>1. ASSUME NEW k \in DOMAIN e
        PROVE  /\ e[k].seq = e[k].id /\ e[k].id \in DOMAIN more /\ more[e[k].id].inc = lane.inc
               /\ more[e[k].id].msg = e[k].msg /\ ~answered(h, e[k].id) /\ lane.inFlight < e[k].id
    <3>1. CASE k = L /\ e[k] = item
      <4>1. ~answered(h, N)
        <5>1. \A r \in gate.answers : r.id \in DOMAIN issued
          BY Zenon, <1>1 DEF AnswersOK
        <5>2. \A r \in gate.answers : r.id # N
          BY Zenon, <1>4, <5>1
        <5> QED BY Zenon, <1>20, <5>2 DEF answered
      <4> QED BY Zenon, <1>4, <1>7, <1>9, <3>1, <4>1
    <3>2. CASE k \in DOMAIN lane.queued /\ e[k] = lane.queued[k]
      BY Zenon, <1>4, <1>8, <1>20, <3>2 DEF LaneOK, InLine
    <3> QED BY Zenon, <1>21, <3>1, <3>2
  <2>2. ASSUME NEW j \in DOMAIN e, NEW k \in DOMAIN e, j < k PROVE e[j].id < e[k].id
    <3>1. j \in DOMAIN lane.queued /\ e[j] = lane.queued[j]
      BY Zenon, <1>12, <1>21, <2>2 DEF L
    <3>2. CASE k = L /\ e[k] = item
      BY Zenon, <1>4, <1>7, <1>22, <3>1, <3>2
    <3>3. CASE k \in DOMAIN lane.queued /\ e[k] = lane.queued[k]
      BY Zenon, <1>8, <2>2, <3>1, <3>3 DEF LaneOK, InLine
    <3> QED BY Zenon, <1>21, <3>2, <3>3
  <2> QED BY Zenon, <1>14, <2>1, <2>2 DEF InLine
<1>24. Accounted(l, h, more)
  <2>1. ASSUME NEW j \in DOMAIN more, more[j].inc = lane.inc
        PROVE  answered(h, j) \/ j = lane.inFlight \/ \E k \in DOMAIN e : e[k].id = j
    <3>1. CASE j = N
      <4>1. L \in DOMAIN e /\ e[L].id = N
        BY Zenon, <1>7, <1>10 DEF L
      <4> QED BY Zenon, <3>1, <4>1
    <3>2. CASE j \in DOMAIN issued
      <4>1. answered(gate, j) \/ j = lane.inFlight \/ \E k \in DOMAIN lane.queued : lane.queued[k].id = j
        BY Zenon, <1>4, <1>8, <2>1, <3>2 DEF LaneOK, Accounted
      <4>2. \A k \in DOMAIN lane.queued : k \in DOMAIN e /\ e[k] = lane.queued[k]
        BY Zenon, <1>10, <1>11
      <4> QED BY Zenon, <1>20, <4>1, <4>2
    <3> QED BY Zenon, <1>4, <3>1, <3>2
  <2> QED BY Zenon, <1>8, <1>14, <2>1 DEF Accounted
<1>25. Opened(l, h, more)
  <2> SUFFICES ASSUME lane.loginSucceeded
               PROVE  \E r \in h.answers : /\ r.kind = "granted" /\ r.id \in DOMAIN more
                                           /\ more[r.id].inc = lane.inc
                                           /\ \A k \in DOMAIN e : r.id < e[k].id
    BY Zenon, <1>14 DEF Opened
  <2>1. PICK r \in gate.answers :
           /\ r.kind = "granted" /\ r.id \in DOMAIN issued /\ issued[r.id].inc = lane.inc
           /\ \A k \in DOMAIN lane.queued : r.id < lane.queued[k].id
    BY Zenon, <1>8 DEF LaneOK, Opened
  <2>2. \A k \in DOMAIN e : r.id < e[k].id
    BY Zenon, <1>4, <1>7, <1>21, <2>1
  <2> QED BY Zenon, <1>4, <1>18, <2>1, <2>2
<1>26. Depth(l) <= kMaxLaneDepth
  <2> DEFINE y == IF lane.inFlight = kNoCallSeq THEN 0 ELSE 1
  <2>1. y \in {0, 1}
    BY Zenon
  <2>2. ~ (Len(lane.queued) + y >= kMaxLaneDepth)
    BY Zenon, <1>8 DEF Depth
  <2> HIDE DEF y
  <2>3. Len(e) + y <= kMaxLaneDepth
    BY <1>3, <1>10, <2>1, <2>2, LaneAssumption
  <2> QED BY Zenon, <1>14, <2>3 DEF Depth, y
<1>27. LaneOK(l, h, more)
  BY Zenon, <1>8, <1>14, <1>18, <1>23, <1>24, <1>25, <1>26 DEF LaneOK
<1>28. OnlyQueue(gate, h, s, lane.inc) /\ LaneOK(h.sessions[s], h, more) /\ h.again = {}
  BY Zenon, <1>1, <1>14, <1>15, <1>16, <1>18, <1>27 DEF lane, AnswersOK, OnlyQueue
<1>29. GateOK(h, more)
  BY Zenon, <1>1, <1>19, <1>28, GrownKeeps
<1> QED BY Zenon, <1>6, <1>18, <1>28, <1>29 DEF OnlyQueue

\* A request.
LEMMA AdmitSteps ==
    ASSUME LInv, NEW s \in Sids, NEW m \in Messages, Admit(s, m)
    PROVE  Stepped(gate, gate', issued')
<1> DEFINE item == [id |-> Len(issued) + 1, seq |-> NextCallSeq, msg |-> m, late |-> FALSE]
           more == Append(issued, [inc |-> gate.sessions[s].inc, msg |-> m])
           lane == gate.sessions[s]
<1>1. issued' = more /\ gate' = Admitted(s, item)
  BY Zenon DEF Admit
<1>2. AdmitAt(s, m, more)
  BY Zenon DEF AdmitAt, Admit
<1>3. /\ item.id = Len(issued) + 1 /\ item.seq = gate.lastSeq + 1 /\ item.msg = m
  BY Zenon DEF NextCallSeq
<1>4. item \in Items
  <2>1. Counted(gate, issued) /\ Len(issued) < MaxRequests
    BY Zenon DEF LInv, GateOK, Admit
  <2>2. gate.lastSeq = Len(issued) /\ Len(issued) \in Nat
    BY Zenon, <2>1, GateTypes DEF Counted
  <2>3. Len(issued) + 1 \in Requests /\ NextCallSeq \in Requests
    BY <2>1, <2>2, LaneAssumption DEF Requests, NextCallSeq
  <2> QED BY Zenon, <2>3 DEF Items
<1> HIDE DEF item, more
<1>5. CASE lane.redirected
  <2>1. gate' = rejected(s, item, "unavailable")
    BY Zenon, <1>1, <1>5 DEF Admitted
  <2> QED BY Zenon, <1>1, <1>2, <1>3, <2>1, RejectedSteps
<1>6. CASE ~lane.redirected /\ Depth(lane) >= kMaxLaneDepth
  <2>1. gate' = rejected(s, item, "full")
    BY Zenon, <1>1, <1>6 DEF Admitted
  <2> QED BY Zenon, <1>1, <1>2, <1>3, <2>1, RejectedSteps
<1>7. CASE ~lane.redirected /\ ~ (Depth(lane) >= kMaxLaneDepth)
  <2> DEFINE k == queuedUp(s, item)
  <2>1. gate' = Pump(k, {s})
    BY Zenon, <1>1, <1>7 DEF Admitted
  <2>2. GateOK(k, more) /\ k.sent = gate.sent /\ k.sessions[s] # None
    BY Zenon, <1>2, <1>3, <1>4, <1>7, QueuedSteps
  <2> HIDE DEF k
  <2>3. PumpAt(k, {s}, more)
    BY Zenon, <2>2 DEF PumpAt
  <2>4. Stepped(k, Pump(k, {s}), more)
    BY Zenon, <2>3, PumpKeeps DEF Stepped
  <2> QED BY Zenon, <1>1, <2>1, <2>2, <2>4 DEF Stepped
<1> QED BY Zenon, <1>5, <1>6, <1>7

-----------------------------------------------------------------------------
(* The theorems *)

\* Every step keeps the invariant, and hands requests over in their turn.
LEMMA LaneStep ==
    ASSUME LInv, [Next]_vars
    PROVE  LInv' /\ Stepped(gate, gate', issued')
<1>1. GateOK(gate, issued) /\ router \in BOOLEAN
  BY Zenon DEF LInv
<1>2. CASE UNCHANGED gate /\ UNCHANGED issued /\ router' \in BOOLEAN
  <2>1. gate' = gate /\ issued' = issued
    BY Zenon, <1>2
  <2>2. Stepped(gate, gate, issued)
    BY Zenon, <1>1 DEF Stepped
  <2>3. Stepped(gate, gate', issued')
    BY Zenon, <2>1, <2>2
  <2> QED BY Zenon, <1>2, <2>3 DEF LInv, Stepped
<1>3. CASE UNCHANGED <<router, issued>> /\ Stepped(gate, gate', issued)
  <2>1. issued' = issued /\ router' = router
    BY Zenon, <1>3
  <2>2. Stepped(gate, gate', issued')
    BY Zenon, <1>3, <2>1
  <2> QED BY Zenon, <1>1, <2>1, <2>2 DEF LInv, Stepped
<1>4. ASSUME NEW s \in Sids, HandleConnectionEstablished(s) PROVE LInv' /\ Stepped(gate, gate', issued')
  BY Zenon, <1>3, <1>4, ConnectSteps DEF HandleConnectionEstablished
<1>5. ASSUME NEW s \in Sids, HandleConnectionDisconnection(s) PROVE LInv' /\ Stepped(gate, gate', issued')
  BY Zenon, <1>3, <1>5, ClosingSteps DEF HandleConnectionDisconnection
<1>6. ASSUME NEW s \in Sids, OnSessionRedirected(s) PROVE LInv' /\ Stepped(gate, gate', issued')
  BY Zenon, <1>3, <1>6, RedirectSteps DEF OnSessionRedirected
<1>7. ASSUME NEW s \in Sids, Wait(s) PROVE LInv' /\ Stepped(gate, gate', issued')
  BY Zenon, <1>3, <1>7, WaitSteps DEF Wait
<1>8. ASSUME NEW s \in Sids, NEW m \in Messages, Admit(s, m) PROVE LInv' /\ Stepped(gate, gate', issued')
  <2>1. Stepped(gate, gate', issued') /\ router' = router
    BY Zenon, <1>8, AdmitSteps DEF Admit
  <2> QED BY Zenon, <1>1, <2>1 DEF LInv, Stepped
<1>9. ASSUME NEW w \in gate.wire, NEW ok \in BOOLEAN, OnRouterReply(w, ok)
      PROVE  LInv' /\ Stepped(gate, gate', issued')
  <2>1. Stepped(gate, gate', issued)
    BY Zenon, <1>9, CallbackSteps
  <2> QED BY Zenon, <1>3, <1>9, <2>1 DEF OnRouterReply
<1>10. ASSUME NEW w \in gate.wire, OnRouterCallFailed(w) PROVE LInv' /\ Stepped(gate, gate', issued')
  <2>1. Stepped(gate, gate', issued)
    BY Zenon, <1>10, CallbackSteps
  <2> QED BY Zenon, <1>3, <1>10, <2>1 DEF OnRouterCallFailed
<1>11. ASSUME NEW w \in gate.wire, ReplyWithoutEcho(w) PROVE LInv' /\ Stepped(gate, gate', issued')
  BY Zenon, <1>3, <1>11, EchoSteps DEF ReplyWithoutEcho
<1>12. ASSUME NEW q \in Requests, Deadline(q) PROVE LInv' /\ Stepped(gate, gate', issued')
  BY Zenon, <1>3, <1>12, DeadlineSteps DEF Deadline
<1>13. CASE ExpireDue
  BY Zenon, <1>3, <1>13, SweepSteps DEF ExpireDue
<1>14. CASE RouterChanges
  BY Zenon, <1>2, <1>14 DEF RouterChanges
<1>15. CASE UNCHANGED vars
  BY Zenon, <1>1, <1>2, <1>15 DEF vars
<1> QED BY Zenon, <1>4, <1>5, <1>6, <1>7, <1>8, <1>9, <1>10, <1>11, <1>12, <1>13, <1>14, <1>15 DEF Next

\* The invariant holds at the start.
LEMMA LaneInit == Init => LInv
<1> SUFFICES ASSUME Init PROVE LInv
  OBVIOUS
<1> DEFINE z == [s \in Sids |-> None]
<1>1. /\ gate = [sessions |-> z, inflight |-> {}, lastSeq |-> kNoCallSeq, lastInc |-> 0, wire |-> {},
                 answers |-> {}, again |-> {}, sent |-> {}]
      /\ issued = <<>> /\ router = TRUE
  BY Zenon DEF Init
<1>2. z \in [Sids -> Lanes \cup {None}] /\ \A s \in Sids : z[s] = None
  BY Zenon
<1> HIDE DEF z
<1>3. /\ gate.sessions = z /\ gate.inflight = {} /\ gate.lastSeq = 0 /\ gate.lastInc = 0
      /\ gate.answers = {} /\ gate.again = {} /\ gate.sent = {} /\ gate.wire = {}
  BY <1>1 DEF kNoCallSeq
<1>4. gate \in Gates
  <2>1. kNoCallSeq \in Nat /\ 0 \in Nat
    BY DEF kNoCallSeq
  <2>2. {} \in SUBSET Calls /\ {} \in SUBSET Requests /\ {} \in SUBSET Answers
    BY Zenon
  <2> QED BY ZenonT(30), <1>1, <1>2, <2>1, <2>2 DEF Gates
<1>5. issued \in History /\ DOMAIN issued = {} /\ Len(issued) = 0
  <2> DEFINE R == [inc : Incarnations, msg : Messages]
  <2> HIDE DEF R
  <2>1. <<>> \in Seq(R) /\ DOMAIN <<>> = {} /\ Len(<<>>) = 0
    OBVIOUS
  <2> QED BY Zenon, <1>1, <2>1 DEF R, History
<1>6. 0 <= MaxRequests /\ 0 <= MaxConnections
  BY LaneAssumption
<1>7. Counted(gate, issued)
  BY Zenon, <1>3, <1>4, <1>5, <1>6 DEF Counted
<1>8. LanesOK(gate, issued) /\ Apart(gate)
  BY Zenon, <1>2, <1>3 DEF LanesOK, Apart
<1>9. IndexOK(gate, issued)
  BY Zenon, <1>2, <1>3 DEF IndexOK
<1>10. AnswersOK(gate, issued) /\ SentOK(gate, issued)
  BY Zenon, <1>3 DEF AnswersOK, SentOK
<1> QED BY Zenon, <1>1, <1>7, <1>8, <1>9, <1>10 DEF LInv, GateOK

\* The invariant of the gate's lanes is inductive (Complete, and Pump
\* and its callers in client_request_lane.cpp): it holds in every reachable state.
THEOREM LaneInvariance == Spec => []LInv
<1>1. LInv /\ [Next]_vars => LInv'
  BY Zenon, LaneStep
<1> QED BY PTL, LaneInit, <1>1 DEF Spec

\* FinishWithFailure and OnRouterReply can rely on the index: a call in it is
\* the one in flight on the lane of a live connection, and the call in flight of
\* a lane is in it; no lane is longer than kMaxLaneDepth.
THEOREM LanesMatchIndex == Spec => []LaneMatchesIndex
<1>1. LInv => LaneMatchesIndex
  <2> SUFFICES ASSUME LInv PROVE LaneMatchesIndex
    OBVIOUS
  <2>1. GateOK(gate, issued) /\ router \in BOOLEAN
    BY Zenon DEF LInv
  <2>2. LaneTypeOK
    BY Zenon, <2>1 DEF GateOK, Counted, LanesOK, LaneOK, LaneTypeOK, live
  <2>3. \A c \in gate.inflight : claims(gate, c)
    BY Zenon, <2>1 DEF GateOK, IndexOK, CallOK
  <2>4. \A s \in live : gate.sessions[s].inFlight # kNoCallSeq =>
           \E c \in gate.inflight : c.seq = gate.sessions[s].inFlight /\ c.sid = s
    BY Zenon, <2>1 DEF GateOK, IndexOK, live
  <2> QED BY Zenon, <2>2, <2>3, <2>4 DEF LaneMatchesIndex
<1> QED BY PTL, LaneInvariance, <1>1

\* A request is answered once at most, to the connection that made it, whichever
\* of reply, failure, sweep and refusal come.
THEOREM AnsweredOnce == Spec => []OneAnswer
<1>1. LInv => OneAnswer
  BY Zenon DEF LInv, GateOK, AnswersOK, OneAnswer
<1> QED BY PTL, LaneInvariance, <1>1

\* An EnterGame leaves the gate only on a connection that was granted an earlier
\* Login of its own (RequiresSuccessfulLogin).
THEOREM EnterGameFollowsLogin == Spec => []EnterAfterLogin
<1>1. LInv => EnterAfterLogin
  BY Zenon DEF LInv, GateOK, SentOK, Entitled, EnterAfterLogin
<1> QED BY PTL, LaneInvariance, <1>1

\* A request is handed to the router only when every earlier request of its
\* connection has been answered.
THEOREM RequestsGoInOrder == Spec => InOrder
<1>1. LInv /\ [Next]_vars => [InOrderStep]_vars
  BY Zenon, LaneStep DEF Stepped, InOrderStep
<1> QED BY PTL, LaneInvariance, <1>1 DEF Spec, InOrder
================================================================================
