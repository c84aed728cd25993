----------------------------- MODULE MCLocatorLive -----------------------------
(***************************************************************************)
(* Liveness of LocatorService: faults happen for a while, then stop.       *)
(***************************************************************************)
EXTENDS LocatorRefinement

VARIABLE calm   \* have the faults stopped for good?

liveVars == <<vars, calm>>

\* A round that nothing disturbs.  An AFK pass that is still valid counts as a
\* fault here: it holds the session on purpose.
MonitorProgress(m) ==
    /\ \/ ClaimBatch(m)
       \/ EndRound(m)
       \/ \E claim \in monitor[m].todo : Examine(m, claim, FALSE, "inactive")
       \/ Rearm(m)
       \/ CommitExpiry(m)
       \/ Notify(m, TRUE, TRUE)
       \/ Ack(m)
    /\ UNCHANGED call

MonitorFault(m) ==
    /\ \/ \E claim \in monitor[m].todo, readFails \in BOOLEAN, afk \in {"active", "unknown"} :
             Examine(m, claim, readFails, afk)
       \/ \E published, left \in BOOLEAN : Notify(m, published, left)
       \/ AbandonClaim(m)
       \/ AbortRound(m)
    /\ UNCHANGED call

\* Is a live round holding the claim on p?  Then its heartbeat renews it in
\* time, unless the replica is paused.
Held(p) == \E m \in Monitors : \E b \in monitor[m].batch : b.player = p /\ b.token = token[p]

LeaseTime(p) == LeaseFallsDue(p) /\ UNCHANGED <<call, monitor>>
ClaimTime(p) == ~Held(p) /\ ClaimFallsDue(p) /\ UNCHANGED <<call, monitor>>
PausedPast(p) == Held(p) /\ ClaimFallsDue(p) /\ UNCHANGED <<call, monitor>>

LiveNext ==
    \/ /\ ~calm /\ UNCHANGED calm
       /\ (\E m \in Monitors : MonitorFault(m)) \/ (\E p \in Players : PausedPast(p))
    \/ ~calm /\ calm' = TRUE /\ UNCHANGED vars
    \/ /\ \/ \E c \in Calls : Rpc(c)
          \/ \E m \in Monitors : MonitorProgress(m) \/ (Heartbeat(m) /\ UNCHANGED call)
          \/ \E p \in Players : LeaseTime(p) \/ ClaimTime(p)
       /\ UNCHANGED calm

LiveInit == Init /\ calm = FALSE

LiveSpec ==
    /\ LiveInit
    /\ [][LiveNext]_liveVars
    /\ \A m \in Monitors : WF_liveVars(MonitorProgress(m) /\ UNCHANGED calm)
    /\ \A p \in Players : /\ WF_liveVars(LeaseTime(p) /\ UNCHANGED calm)
                          /\ WF_liveVars(ClaimTime(p) /\ UNCHANGED calm)

\* Once the faults are over a disconnected player is not left in between: the
\* player reconnects or the session ends, although claims were lost by crashed
\* monitors on the way (leasemonitor.go:60-72, session_cas.go:114-147).
DisconnectsEnd ==
    \A p \in Players :
        calm /\ InState(session[p], Disconnecting) ~> ~InState(session[p], Disconnecting)

\* A first login, which a pending cleanup refuses, is not refused for ever
\* (session_cas.go:44-52).
CleanupsEnd == \A p \in Players : calm /\ CleanupPending(p) ~> ~CleanupPending(p)
=============================================================================
