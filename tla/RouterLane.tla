------------------------------ MODULE RouterLane ------------------------------
(***************************************************************************)
(* The gate's router lanes.  The requests of one client connection go to   *)
(* the router one at a time, in the order they came; the process keeps one *)
(* index of the calls in flight, from which a completion is claimed: the   *)
(* reply, the failure of the call, or the sweep once its local deadline is *)
(* over.  A session id is taken over by a later connection, which has a    *)
(* new incarnation, while calls of the old one are still under way.        *)
(*                                                                         *)
(* The gate has one event loop, so a handler is one step, Pump included.   *)
(* A handler is a function on the state of the gate, a record; since lanes *)
(* share only the index, Pump is one on the lanes a handler has touched.   *)
(***************************************************************************)
EXTENDS Naturals, Sequences, FiniteSets

CONSTANTS
    Sids,          \* session ids
    Messages,      \* the messages clients send
    None,          \* no session has the id
    kMaxLaneDepth, \* requests queued and in flight on one connection
    MaxRequests,   \* bound on the requests clients make
    MaxConnections \* bound on the connections

ASSUME LaneAssumption ==
    /\ kMaxLaneDepth \in Nat \ {0}
    /\ Messages \subseteq {"Login", "EnterGame", "other"}
    /\ MaxRequests \in Nat
    /\ MaxConnections \in Nat

VARIABLES
    gate,   \* sessions, inflight (tlsInflight), lastSeq, lastInc; wire, the
            \* calls whose callback is still to come; and as history answers,
            \* the answers given, again, the requests answered a second time,
            \* and sent, the requests handed over
    router, \* whether the gate knows a router
    issued  \* history: the requests made, in order

vars == <<gate, router, issued>>

Requests == 1..MaxRequests
Incarnations == 1..MaxConnections
kNoCallSeq == 0

\* A request in a lane; late tells that it has waited longer than kMaxLaneWait.
Items == [id : Requests, seq : Requests, msg : Messages, late : BOOLEAN]
\* The session with its lane.
Lanes == [inc : Incarnations, queued : Seq(Items), inFlight : 0..MaxRequests,
          redirected : BOOLEAN, loginSucceeded : BOOLEAN]
\* A call in flight; due tells that its local deadline is over.
Calls == [seq : Requests, sid : Sids, inc : Incarnations, id : Requests, msg : Messages,
          due : BOOLEAN]
Answers == [id : Requests, inc : Incarnations,
            kind : {"granted", "reply", "unavailable", "full", "notLoggedIn"}]

ASSUME NoLaneAssumption == None \notin Lanes

NewSession(inc) ==
    [inc |-> inc, queued |-> <<>>, inFlight |-> kNoCallSeq,
     redirected |-> FALSE, loginSucceeded |-> FALSE]

Init ==
    /\ gate = [sessions |-> [s \in Sids |-> None], inflight |-> {},
               lastSeq |-> kNoCallSeq, lastInc |-> 0, wire |-> {},
               answers |-> {}, again |-> {}, sent |-> {}]
    /\ router = TRUE
    /\ issued = <<>>

-----------------------------------------------------------------------------
(* The index of the calls in flight, a map by number. *)

\* Insert refuses a number that is in the index.
Insert(index, calls) == index \cup {c \in calls : \A d \in index : d.seq # c.seq}

Extract(index, seqs) == {c \in index : c.seq \notin seqs}

-----------------------------------------------------------------------------
(* The lane of one session. *)

Depth(lane) == Len(lane.queued) + (IF lane.inFlight = kNoCallSeq THEN 0 ELSE 1)

RequiresSuccessfulLogin(msg) == msg = "EnterGame"

\* Why a request in its turn is answered here instead of being sent.
refusal(item, lane) ==
    CASE item.late -> "unavailable"
      [] ~item.late /\ RequiresSuccessfulLogin(item.msg) /\ ~lane.loginSucceeded -> "notLoggedIn"
      [] OTHER -> IF router THEN "none" ELSE "unavailable"

sendable(lane) == {n \in DOMAIN lane.queued : refusal(lane.queued[n], lane) = "none"}

\* The request at which Pump stops: the first that is not refused, else past the
\* last; none while a call is in flight.
turn(lane) ==
    CASE lane.inFlight # kNoCallSeq -> 0
      [] lane.inFlight = kNoCallSeq /\ sendable(lane) = {} -> Len(lane.queued) + 1
      [] OTHER -> CHOOSE n \in sendable(lane) : \A m \in sendable(lane) : n <= m

\* Mutant: the lane is not marked as busy.
MarkSent_not(lane) == [lane EXCEPT !.queued = SubSeq(@, turn(lane) + 1, Len(@))]

\* The lane once Pump has taken its requests up to there: MarkSent.
MarkSent(lane) ==
    [lane EXCEPT !.queued = SubSeq(@, turn(lane) + 1, Len(@)),
                 !.inFlight = IF turn(lane) \in DOMAIN lane.queued
                              THEN lane.queued[turn(lane)].seq ELSE @]

\* The answers to the requests before it, and the call made for it.
refusals(lane) ==
    {[id |-> lane.queued[n].id, inc |-> lane.inc, kind |-> refusal(lane.queued[n], lane)]
        : n \in 1..(turn(lane) - 1)}
sending(s, lane) ==
    {[seq |-> lane.queued[n].seq, sid |-> s, inc |-> lane.inc, id |-> lane.queued[n].id,
      msg |-> lane.queued[n].msg, due |-> FALSE] : n \in {turn(lane)} \cap DOMAIN lane.queued}

\* SendEnvelope, and the delivery of a reply.
Answered(g, answers) ==
    [g EXCEPT !.answers = @ \cup answers,
              !.again = @ \cup ({r.id : r \in answers} \cap {r.id : r \in g.answers})]

\* Pump: while a lane is idle, its next request is sent or refused.
Pump(g, sids) ==
    LET calls == UNION {sending(s, g.sessions[s]) : s \in sids}
    IN Answered([g EXCEPT !.sessions = [s \in Sids |-> IF s \in sids THEN MarkSent(@[s]) ELSE @[s]],
                          !.inflight = Insert(@, calls),
                          !.wire = @ \cup {c.seq : c \in calls},
                          !.sent = @ \cup {c.id : c \in calls}],
                UNION {refusals(g.sessions[s]) : s \in sids})

\* FindLiveSession, and Complete on its lane: whether the call is the one in
\* flight on the connection that made it.
claims(g, call) ==
    /\ g.sessions[call.sid] # None
    /\ g.sessions[call.sid].inc = call.inc
    /\ g.sessions[call.sid].inFlight = call.seq

\* Mutant: any reply to a Login opens the gate.
opens_anyReply(call, kind) == call.msg = "Login" /\ kind # "unavailable"

\* Whether this outcome of a call lets the connection enter the game.
opens(call, kind) == kind = "granted"

\* Calls taken out of the index are over: their clients get the outcome, which
\* for a Login is recorded before the lane moves on.
Finish(g, calls, kind) ==
    LET done == {c \in calls : claims(g, c)}
        of(s) == {c \in done : c.sid = s}
        freed(s) == [g.sessions[s] EXCEPT
                        !.inFlight = kNoCallSeq,
                        !.loginSucceeded = @ \/ \E c \in of(s) : opens(c, kind[c])]
    IN Pump(Answered([g EXCEPT !.sessions = [s \in Sids |-> IF of(s) = {} THEN @[s] ELSE freed(s)]],
                     {[id |-> c.id, inc |-> g.sessions[c.sid].inc, kind |-> kind[c]] : c \in done}),
            {c.sid : c \in done})

FinishWithFailure(g, calls) == Finish(g, calls, [c \in calls |-> "unavailable"])

FinishWithReply(g, calls, ok) ==
    Finish(g, calls, [c \in calls |-> IF c.msg = "Login" /\ ok THEN "granted" ELSE "reply"])

-----------------------------------------------------------------------------
(* The handlers. *)

\* A connection takes a free session id.
HandleConnectionEstablished(s) ==
    /\ gate.sessions[s] = None
    /\ gate.lastInc < MaxConnections
    /\ gate' = [gate EXCEPT !.lastInc = @ + 1, !.sessions[s] = NewSession(gate.lastInc + 1)]
    /\ UNCHANGED <<router, issued>>

NextCallSeq == gate.lastSeq + 1

rejected(s, item, kind) ==
    Answered([gate EXCEPT !.lastSeq = @ + 1],
             {[id |-> item.id, inc |-> gate.sessions[s].inc, kind |-> kind]})

queuedUp(s, item) ==
    [gate EXCEPT !.lastSeq = @ + 1, !.sessions[s].queued = Append(@, item)]

\* Mutant: the depth is looked at once the request is queued.
Admitted_lateCheck(s, item) ==
    LET lane == gate.sessions[s]
    IN CASE lane.redirected -> rejected(s, item, "unavailable")
         [] ~lane.redirected /\ Depth(lane) + 1 > kMaxLaneDepth ->
              Answered(queuedUp(s, item), {[id |-> item.id, inc |-> lane.inc, kind |-> "full"]})
         [] OTHER -> Pump(queuedUp(s, item), {s})

\* What Admit makes of a request.
Admitted(s, item) ==
    LET lane == gate.sessions[s]
    IN CASE lane.redirected -> rejected(s, item, "unavailable")
         [] ~lane.redirected /\ Depth(lane) >= kMaxLaneDepth -> rejected(s, item, "full")
         [] OTHER -> Pump(queuedUp(s, item), {s})

\* A request of the client, which HandleRouterForward admits.
Admit(s, msg) ==
    /\ gate.sessions[s] # None
    /\ Len(issued) < MaxRequests
    /\ issued' = Append(issued, [inc |-> gate.sessions[s].inc, msg |-> msg])
    /\ gate' = Admitted(s, [id |-> Len(issued) + 1, seq |-> NextCallSeq, msg |-> msg, late |-> FALSE])
    /\ UNCHANGED router

\* The callback of a call has come, and Claim takes the call out of the index.
arrived(seq) == [gate EXCEPT !.wire = @ \ {seq}, !.inflight = Extract(@, {seq})]
called(seq) == {c \in gate.inflight : c.seq = seq}

\* The reply comes; ok tells that a Login was granted.
OnRouterReply(seq, ok) ==
    /\ gate' = FinishWithReply(arrived(seq), called(seq), ok)
    /\ UNCHANGED <<router, issued>>

\* The call fails: its deadline, a broken link, a router that goes away.
OnRouterCallFailed(seq) ==
    /\ gate' = FinishWithFailure(arrived(seq), called(seq))
    /\ UNCHANGED <<router, issued>>

\* The reply comes without the session it should echo, and is dropped.
ReplyWithoutEcho(seq) ==
    /\ gate' = [gate EXCEPT !.wire = @ \ {seq}]
    /\ UNCHANGED <<router, issued>>

overdue == {c \in gate.inflight : c.due}

\* Mutant: the sweep only cleans the index.
Expired_dropped == [gate EXCEPT !.inflight = @ \ overdue]

Expired == FinishWithFailure([gate EXCEPT !.inflight = @ \ overdue], overdue)

\* The sweep, every 250 ms.
ExpireDue ==
    /\ overdue # {}
    /\ gate' = Expired
    /\ UNCHANGED <<router, issued>>

\* Mutant: the call in flight stays in the index.
OnSessionClosing_keepsCall(s) == gate.inflight

\* OnSessionClosing: the call in flight leaves the index.
OnSessionClosing(s) == Extract(gate.inflight, {gate.sessions[s].inFlight})

\* The connection is gone, with what is queued on it.
HandleConnectionDisconnection(s) ==
    /\ gate.sessions[s] # None
    /\ gate' = [gate EXCEPT !.inflight = OnSessionClosing(s), !.sessions[s] = None]
    /\ UNCHANGED <<router, issued>>

\* The client is sent to another gate: what is queued is dropped unanswered.
OnSessionRedirected(s) ==
    /\ gate.sessions[s] # None
    /\ ~gate.sessions[s].redirected
    /\ gate' = [gate EXCEPT !.sessions[s].redirected = TRUE, !.sessions[s].queued = <<>>]
    /\ UNCHANGED <<router, issued>>

-----------------------------------------------------------------------------
(* Time and the routers. *)

\* The local deadline of a call passes.
Deadline(q) ==
    /\ \E c \in gate.inflight :
        /\ c.seq = q /\ ~c.due
        /\ gate' = [gate EXCEPT !.inflight = (@ \ {c}) \cup {[c EXCEPT !.due = TRUE]}]
    /\ UNCHANGED <<router, issued>>

\* A request has waited too long, as have those before it.
Wait(s) ==
    /\ gate.sessions[s] # None
    /\ \E n \in DOMAIN gate.sessions[s].queued :
        /\ \A m \in DOMAIN gate.sessions[s].queued : gate.sessions[s].queued[m].late <=> m < n
        /\ gate' = [gate EXCEPT !.sessions[s].queued[n].late = TRUE]
    /\ UNCHANGED <<router, issued>>

RouterChanges ==
    /\ router' = ~router
    /\ UNCHANGED <<gate, issued>>

Next ==
    \/ \E s \in Sids :
        \/ HandleConnectionEstablished(s) \/ HandleConnectionDisconnection(s)
        \/ OnSessionRedirected(s) \/ Wait(s)
        \/ \E msg \in Messages : Admit(s, msg)
    \/ \E w \in gate.wire :
        \/ \E ok \in BOOLEAN : OnRouterReply(w, ok)
        \/ OnRouterCallFailed(w) \/ ReplyWithoutEcho(w)
    \/ \E q \in Requests : Deadline(q)
    \/ ExpireDue
    \/ RouterChanges

Spec == Init /\ [][Next]_vars

-----------------------------------------------------------------------------
(* Properties. *)

live == {s \in Sids : gate.sessions[s] # None}

answered(g, i) == \E r \in g.answers : r.id = i

Gates == [sessions : [Sids -> Lanes \cup {None}], inflight : SUBSET Calls,
          lastSeq : Nat, lastInc : Nat, wire : SUBSET Requests,
          answers : SUBSET Answers, again : SUBSET Requests, sent : SUBSET Requests]
History == Seq([inc : Incarnations, msg : Messages])

\* The type of the state; no lane is longer than kMaxLaneDepth (AdmitResult).
LaneTypeOK ==
    /\ gate \in Gates
    /\ \A s \in live : Depth(gate.sessions[s]) <= kMaxLaneDepth
    /\ router \in BOOLEAN
    /\ issued \in History

\* The invariant FinishWithFailure and OnRouterReply rely on: a call in the
\* index is the one in flight on the lane of a live connection, and a lane with
\* a call in flight has it in the index, from where the sweep can free it.
LaneMatchesIndex ==
    /\ LaneTypeOK
    /\ \A c \in gate.inflight : claims(gate, c)
    /\ \A s \in live : gate.sessions[s].inFlight # kNoCallSeq =>
           \E c \in gate.inflight : c.seq = gate.sessions[s].inFlight /\ c.sid = s

\* A request is answered once at most, whichever of reply, failure, sweep and
\* refusal come, and only to the connection that made it, though its session
\* id may by now be another connection's.
OneAnswer ==
    /\ gate.again = {}
    /\ \A r, t \in gate.answers : r.id = t.id => r = t
    /\ \A r \in gate.answers : r.id \in DOMAIN issued /\ r.inc = issued[r.id].inc

\* A request is handed to the router only when every earlier request of its
\* connection has been answered: in order, one at a time.
InOrderStep ==
    \A i \in gate'.sent \ gate.sent : \A j \in 1..(i - 1) :
        issued'[j].inc = issued'[i].inc => answered(gate', j)
InOrder == [][InOrderStep]_vars

\* An EnterGame leaves the gate only on a connection that was granted an earlier
\* Login of its own.
EnterAfterLogin ==
    \A i \in gate.sent : issued[i].msg = "EnterGame" =>
        \E r \in gate.answers : /\ r.kind = "granted" /\ r.id < i
                                /\ issued[r.id].inc = issued[i].inc

\* A request that waits in a lane or in flight does not wait for ever, even if
\* its reply is lost: it is answered, or its connection is closed or redirected.
waiting(i) ==
    \E s \in live :
        \/ \E n \in DOMAIN gate.sessions[s].queued : gate.sessions[s].queued[n].id = i
        \/ \E c \in gate.inflight : gate.sessions[s].inFlight = c.seq /\ c.id = i
LaneMoves == \A i \in Requests : waiting(i) ~> ~waiting(i)
=============================================================================
