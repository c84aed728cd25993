------------------------------ MODULE SessionRpc ------------------------------
(***************************************************************************)
(* The session RPCs of player_locator: SetSession, Reconnect,              *)
(* SetDisconnecting and MarkOffline.  Each handler reads the record (GET), *)
(* decides, and submits one script that compares against what it read; any *)
(* number of other steps may happen between the two.  A handler in flight  *)
(* is call[c]; a request the handler refuses after its GET changes nothing *)
(* and is not a step.                                                      *)
(***************************************************************************)
EXTENDS SessionStore

CONSTANT Calls      \* handler goroutines that may be in flight at once

VARIABLE call

IdleCall == [op |-> "idle", player |-> None, expected |-> None, next |-> None]

Call ==
    [op : {"idle", "replace", "disconnect", "delete", "leave", "enqueue"},
     player : Players \cup {None},
     expected : PlayerSession \cup {None},
     next : PlayerSession \cup {None}]

begin(c, op, p, next) ==
    /\ call[c] = IdleCall
    /\ call' = [call EXCEPT ![c] = [op |-> op, player |-> p,
                                    expected |-> session[p], next |-> next]]
    /\ UNCHANGED storeVars

finish(c) == call' = [call EXCEPT ![c] = IdleCall]

-----------------------------------------------------------------------------
(* SetSession *)

\* What SetSession accepts over the record it read: a first write, a replay of
\* the very record, or the next version with an advancing generation.
setSessionAccepts(current, s) ==
    current # None /\ s # current =>
        /\ s.ver = current.ver + 1
        /\ loginGenerationAdvances(current.gen, s.gen)

SetSession(c, p, s) ==
    /\ setSessionAccepts(session[p], s)
    /\ begin(c, "replace", p, s)

-----------------------------------------------------------------------------
(* Reconnect *)

\* An empty account on either side is not compared.
accountsDiffer(a, b) == a # "" /\ b # "" /\ a # b

reconnectAccepts(current, account, gen) ==
    /\ InState(current, Disconnecting)
    /\ ~accountsDiffer(account, current.account)
    /\ loginGenerationAdvances(current.gen, gen)

Reconnect(c, p, sid, gate, account, gen) ==
    LET current == session[p] IN
    /\ reconnectAccepts(current, account, gen)
    /\ current.ver < MaxVersion
    /\ begin(c, "replace", p,
             [current EXCEPT !.sid = sid, !.gate = gate, !.gen = gen,
                             !.ver = @ + 1, !.state = Online])

\* The script both handlers above submit; a conflict or a pending cleanup is
\* an error reply and changes nothing.
CommitReplace(c) ==
    /\ call[c].op = "replace"
    /\ replaceSessionAndCancelLease(call[c].player, call[c].expected, call[c].next)
    /\ finish(c)

-----------------------------------------------------------------------------
(* SetDisconnecting *)

\* "" on either side means unknown and is not compared.
isStaleGateInstanceReport(recorded, reported) ==
    recorded # NoGate /\ reported # NoGate /\ recorded # reported

SetDisconnecting(c, p, sid, gate) ==
    LET current == session[p] IN
    /\ InState(current, Online)
    /\ current.sid = sid
    /\ ~isStaleGateInstanceReport(current.gate, gate)
    /\ current.ver < MaxVersion
    /\ begin(c, "disconnect", p,
             [current EXCEPT !.state = Disconnecting, !.ver = @ + 1])

CommitDisconnecting(c) ==
    /\ call[c].op = "disconnect"
    /\ transitionToDisconnecting(call[c].player, call[c].expected, call[c].next)
    /\ finish(c)

-----------------------------------------------------------------------------
(* MarkOffline *)

\* Mutant: the queued snapshot keeps its state.
retrySession_keepsState(s) == [s EXCEPT !.gate = NoGate]

\* The snapshot a failed LeaveScene is queued with: DISCONNECTING, or the
\* monitor would drop it, and without a gate, or the gate would be told to
\* close a connection that is only back at the role list.
retrySession(s) == [s EXCEPT !.state = Disconnecting, !.gate = NoGate]

MarkOffline(c, p, sid, ver, gate) ==
    LET current == session[p] IN
    /\ current # None
    /\ current.sid = sid /\ current.ver = ver
    /\ ~isStaleGateInstanceReport(current.gate, gate)
    /\ begin(c, "delete", p, retrySession(current))

CommitMarkOffline(c) ==
    /\ call[c].op = "delete"
    /\ deleteSessionIfUnchanged(call[c].player, call[c].expected)
    /\ IF session[call[c].player] = call[c].expected
       THEN call' = [call EXCEPT ![c].op = "leave"]
       ELSE finish(c)

\* The synchronous LeaveScene of scene_manager: done, or refused (a failure, or
\* the holder has not released the player yet) and queued for the monitor.
LeaveSceneOrEnqueue(c, left) ==
    /\ call[c].op = "leave"
    /\ IF left THEN finish(c) ELSE call' = [call EXCEPT ![c].op = "enqueue"]
    /\ UNCHANGED storeVars

EnqueueCleanup(c) ==
    /\ call[c].op = "enqueue"
    /\ enqueueOfflineCleanup(call[c].player, call[c].next)
    /\ finish(c)

-----------------------------------------------------------------------------
\* The process dies, or Redis refuses the script and the handler gives up.
AbortCall(c) ==
    /\ call[c] # IdleCall
    /\ finish(c)
    /\ UNCHANGED storeVars

\* Requests are arbitrary: login builds them from reads that may be stale.
BeginRpc(c, p) ==
    \/ \E s \in PlayerSession : s.state = Online /\ SetSession(c, p, s)
    \/ \E sid \in SessionIds, gate \in Gates \cup {NoGate}, account \in Accounts,
          gen \in 0..MaxGeneration : Reconnect(c, p, sid, gate, account, gen)
    \/ \E sid \in SessionIds, gate \in Gates \cup {NoGate} :
          SetDisconnecting(c, p, sid, gate)
    \/ \E sid \in SessionIds, ver \in 1..MaxVersion, gate \in Gates \cup {NoGate} :
          MarkOffline(c, p, sid, ver, gate)

RpcStep(c) ==
    \/ \E p \in Players : BeginRpc(c, p)
    \/ CommitReplace(c)
    \/ CommitDisconnecting(c)
    \/ CommitMarkOffline(c)
    \/ \E left \in BOOLEAN : LeaveSceneOrEnqueue(c, left)
    \/ EnqueueCleanup(c)
    \/ AbortCall(c)
=============================================================================
