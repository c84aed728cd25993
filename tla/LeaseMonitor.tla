----------------------------- MODULE LeaseMonitor -----------------------------
(***************************************************************************)
(* LeaseMonitor: every player_locator replica runs one.  A round claims a  *)
(* batch of due leases, then handles the claims one by one while a         *)
(* heartbeat keeps renewing the whole batch.  Between any two Redis calls  *)
(* the replica may be paused past its claim deadline, or die.              *)
(***************************************************************************)
EXTENDS SessionStore

CONSTANT
    Monitors        \* replicas running a lease monitor

VARIABLE monitor

Claim == [player : Players, token : Tokens, payload : PlayerSession \cup {None}]

IdleMonitor == [pc |-> "idle", batch |-> {}, todo |-> {}, claim |-> None]

Monitor ==
    [pc : {"idle", "next", "rearm", "commit", "notify", "ack"},
     batch : SUBSET Claim,
     todo : SUBSET Claim,
     claim : Claim \cup {None}]

\* A claim token is a uuid: not one any hash entry or replica still knows.
FreshTokens ==
    Tokens \ ({token[p] : p \in Players}
              \cup {b.token : b \in UNION {monitor[m].batch : m \in Monitors}})

-----------------------------------------------------------------------------
(* processExpiredLeases *)

ClaimBatch(m) ==
    /\ monitor[m].pc = "idle"
    /\ \E recovered, claimed \in SUBSET Players, t \in FreshTokens :
          /\ claimed # {}
          /\ claimExpiredLeases(recovered, claimed, t)
          /\ LET batch == {[player |-> p, token |-> t, payload |-> claimedPayload(p)] :
                              p \in claimed}
             IN  monitor' = [monitor EXCEPT ![m] = [pc |-> "next", batch |-> batch,
                                                    todo |-> batch, claim |-> None]]

\* One heartbeat round: renews what is still this replica's, for the whole
\* batch, handled or not.
Heartbeat(m) ==
    /\ monitor[m].pc # "idle"
    /\ renewLeaseClaims(monitor[m].batch)
    /\ UNCHANGED monitor

EndRound(m) ==
    /\ monitor[m].pc = "next"
    /\ monitor[m].todo = {}
    /\ monitor' = [monitor EXCEPT ![m] = IdleMonitor]
    /\ UNCHANGED storeVars

-----------------------------------------------------------------------------
(* handleLeaseExpiry *)

goto(m, pc) == monitor' = [monitor EXCEPT ![m].pc = pc]

\* Done with the claim in hand, whatever became of it.
nextClaim(m) == monitor' = [monitor EXCEPT ![m] = [@ EXCEPT !.pc = "next", !.claim = None]]

\* Mutant: the state of the claimed session is not looked at.
triage_anyState(snapshot, exists, afk) ==
    IF snapshot # None /\ exists /\ afk # "inactive" THEN "rearm" ELSE "commit"

\* Where a claim goes after the monitor has looked at its payload, at whether
\* the session key exists and at the AFK pass.  "exists" is also the answer of
\* a failed read; the pass is probed only then.
triage(snapshot, exists, afk) ==
    IF snapshot = None THEN "commit"
    ELSE IF snapshot.state # Disconnecting THEN "ack"
    ELSE IF exists /\ afk # "inactive" THEN "rearm"
    ELSE "commit"

Examine(m, claim, readFails, afk) ==
    /\ monitor[m].pc = "next"
    /\ claim \in monitor[m].todo
    /\ monitor' = [monitor EXCEPT
          ![m].pc = triage(claim.payload, session[claim.player] # None \/ readFails, afk),
          ![m].todo = @ \ {claim},
          ![m].claim = claim]
    /\ UNCHANGED storeVars

Rearm(m) ==
    LET c == monitor[m].claim IN
    /\ monitor[m].pc = "rearm"
    /\ rearmLeaseClaim(c.player, c.token, c.payload)
    /\ nextClaim(m)

\* An unreadable payload is acknowledged whatever the commit says: nothing
\* can be notified from it.
CommitExpiry(m) ==
    LET c == monitor[m].claim IN
    /\ monitor[m].pc = "commit"
    /\ commitLeaseExpiry(c.player, c.token, c.payload)
    /\ IF c.payload = None THEN goto(m, "ack")
       ELSE IF commitLeaseExpiryResult(c.player, c.token, c.payload) = "committed"
       THEN goto(m, "notify")
       ELSE nextClaim(m)

\* LeaseExpired to the gate and LeaveScene to scene_manager, both always
\* attempted; the claim is acknowledged only when both succeeded.
Notify(m, published, left) ==
    /\ monitor[m].pc = "notify"
    /\ IF published /\ left THEN goto(m, "ack") ELSE nextClaim(m)
    /\ UNCHANGED storeVars

Ack(m) ==
    LET c == monitor[m].claim IN
    /\ monitor[m].pc = "ack"
    /\ ackLeaseClaim(c.player, c.token)
    /\ nextClaim(m)

\* Redis refuses the script: the claim is left to its deadline.
AbandonClaim(m) ==
    /\ monitor[m].pc \in {"rearm", "commit", "ack"}
    /\ nextClaim(m)
    /\ UNCHANGED storeVars

\* The replica dies; a new one starts with an empty memory.
AbortRound(m) ==
    /\ monitor[m].pc # "idle"
    /\ monitor' = [monitor EXCEPT ![m] = IdleMonitor]
    /\ UNCHANGED storeVars

MonitorStep(m) ==
    \/ ClaimBatch(m)
    \/ Heartbeat(m)
    \/ EndRound(m)
    \/ \E claim \in monitor[m].todo, readFails \in BOOLEAN,
          afk \in {"inactive", "active", "unknown"} : Examine(m, claim, readFails, afk)
    \/ Rearm(m)
    \/ CommitExpiry(m)
    \/ \E published, left \in BOOLEAN : Notify(m, published, left)
    \/ Ack(m)
    \/ AbandonClaim(m)
    \/ AbortRound(m)
=============================================================================
