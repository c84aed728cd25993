----------------------- MODULE LocatorRefinementProofs -----------------------
(***************************************************************************)
(* player_locator implements SessionProtocol, for any number of players,   *)
(* gates, handlers in flight and monitors.                                 *)
(***************************************************************************)
EXTENDS LocatorServiceProofs, LocatorRefinement

RInv == IInv /\ DisconnectCoherent

\* The service starts in an initial state of the protocol.
LEMMA InitRefines == ASSUME Init PROVE Protocol!Init /\ DisconnectCoherent
<1>1. \A p \in Players : session[p] \in {None} \cup {s \in PlayerSession : s.state = "ONLINE"}
  BY StoreAssumption DEF Init, PlayerSession, Online, Disconnecting
<1>2. session \in [Players -> {None} \cup {s \in PlayerSession : s.state = "ONLINE"}]
  BY Zenon, <1>1 DEF Init
<1>3. Owed = {}
  BY Zenon DEF Init, Owed, CleanupPending
<1>4. Leased \subseteq Players
  BY Zenon DEF Leased
<1>5. DisconnectCoherent
  BY Zenon DEF Init, IdleCall, DisconnectCoherent
<1> QED
  BY Zenon, <1>2, <1>3, <1>4, <1>5 DEF Protocol!Init

\* Only SetDisconnecting puts a disconnect in flight.
LEMMA DisconnectsCoherent ==
    ASSUME IInv, DisconnectCoherent, [Next]_vars
    PROVE  DisconnectCoherent'
<1>1. call \in [Calls -> Call]
  BY Zenon DEF IInv, TypeOK
<1>2. ASSUME NEW c \in Calls, NEW p, NEW op, NEW next, begin(c, op, p, next), op # "disconnect"
      PROVE  DisconnectCoherent'
  BY Zenon, <1>1, <1>2 DEF begin, DisconnectCoherent, Call
<1>3. ASSUME NEW c \in Calls, NEW p \in Players, BeginRpc(c, p)
      PROVE  DisconnectCoherent'
  <2>1. ASSUME NEW s, SetSession(c, p, s) PROVE DisconnectCoherent'
    BY <1>2, <2>1, Zenon DEF SetSession
  <2>2. ASSUME NEW sid, NEW gate, NEW account, NEW gen, Reconnect(c, p, sid, gate, account, gen)
        PROVE  DisconnectCoherent'
    BY <1>2, <2>2, Zenon DEF Reconnect
  <2>3. ASSUME NEW sid, NEW ver, NEW gate, MarkOffline(c, p, sid, ver, gate)
        PROVE  DisconnectCoherent'
    BY <1>2, <2>3, Zenon DEF MarkOffline
  <2>4. ASSUME NEW sid, NEW gate, SetDisconnecting(c, p, sid, gate)
        PROVE  DisconnectCoherent'
    <3> DEFINE next == [session[p] EXCEPT !.state = Disconnecting, !.ver = @ + 1]
    <3>1. InState(session[p], Online) /\ begin(c, "disconnect", p, next)
      BY Zenon, <2>4 DEF SetDisconnecting
    <3>2. /\ call'[c].expected = session[p] /\ call'[c].next = next
          /\ \A d \in Calls \ {c} : call'[d] = call[d]
      BY Zenon, <1>1, <3>1 DEF begin
    <3> QED
      BY <3>1, <3>2, Zenon DEF DisconnectCoherent
  <2> QED
    BY <1>3, <2>1, <2>2, <2>3, <2>4, Zenon DEF BeginRpc
<1>4. ASSUME NEW c \in Calls, \A d \in Calls : call'[d] = call[d] \/ call'[d].op # "disconnect"
      PROVE  DisconnectCoherent'
  BY <1>4, Zenon DEF DisconnectCoherent
<1>5. ASSUME NEW c \in Calls, finish(c)
      PROVE  DisconnectCoherent'
  <2>1. \A d \in Calls : call'[d] = call[d] \/ call'[d].op # "disconnect"
    BY Zenon, <1>1, <1>5 DEF finish, IdleCall
  <2> QED
    BY Zenon, <1>4, <2>1
<1>6. ASSUME NEW c \in Calls, NEW op, op # "disconnect", call' = [call EXCEPT ![c].op = op]
      PROVE  DisconnectCoherent'
  <2>1. \A d \in Calls : call'[d] = call[d] \/ call'[d].op # "disconnect"
    BY Zenon, <1>1, <1>6 DEF Call
  <2> QED
    BY Zenon, <1>4, <2>1, <1>6
<1>7. ASSUME call' = call PROVE DisconnectCoherent'
  BY Zenon, <1>7 DEF DisconnectCoherent
<1>8. ASSUME NEW c \in Calls, Rpc(c) PROVE DisconnectCoherent'
  BY Zenon, <1>3, <1>5, <1>6, <1>8 DEF Rpc, RpcStep, CommitReplace, CommitDisconnecting,
     CommitMarkOffline, LeaveSceneOrEnqueue, EnqueueCleanup, AbortCall
<1> QED
  BY Zenon, <1>7, <1>8 DEF Next, Monitoring, Time, vars

-----------------------------------------------------------------------------

ProtocolStep == [Protocol!Next]_(Protocol!protocolVars)

\* Dropping a claim and the lease of a player removes it from both sets, and
\* from no other set.
LEMMA Dropped ==
    ASSUME TypeOK, NEW p \in Players, dropClaim(p)
    PROVE  /\ Owed' = Owed \ {p}
           /\ ready' = [ready EXCEPT ![p] = "none"] => Leased' = Leased \ {p}
           /\ ready' = [ready EXCEPT ![p] = "pending"] => Leased' = Leased \cup {p}
BY Zenon DEF dropClaim, Owed, Leased, CleanupPending, TypeOK, StoreTypeOK

\* SetSession and Reconnect take effect in replaceSessionAndCancelLease.
LEMMA ReplaceRefines ==
    ASSUME RInv, NEW c \in Calls, CommitReplace(c)
    PROVE  ProtocolStep
<1> DEFINE p == call[c].player
           s == call[c].next
<1>1. p \in Players /\ s \in PlayerSession /\ s.state = Online
      /\ setSessionAccepts(call[c].expected, s)
  BY Zenon DEF CommitReplace, RInv, IInv, CallCoherent
<1>2. CASE replaceSessionResult(p, call[c].expected) # "applied"
  <2>1. UNCHANGED storeVars
    BY Zenon, <1>2 DEF CommitReplace, replaceSessionAndCancelLease
  <2> QED
    BY Zenon, <2>1 DEF storeVars, ProtocolStep, Protocol!protocolVars, Leased, Owed, CleanupPending
<1>3. CASE replaceSessionResult(p, call[c].expected) = "applied"
  <2>1. /\ session[p] = call[c].expected
        /\ session[p] = None => ~CleanupPending(p)
        /\ session' = [session EXCEPT ![p] = s]
        /\ ready' = [ready EXCEPT ![p] = "none"]
        /\ dropClaim(p)
    BY Zenon, <1>3 DEF CommitReplace, replaceSessionAndCancelLease, replaceSessionResult
  <2>2. Owed' = Owed \ {p} /\ Leased' = Leased \ {p}
    BY Zenon, <1>1, <2>1, Dropped DEF RInv, IInv
  <2>3. Protocol!mayFollow(p, s)
    BY Zenon, <1>1, <2>1 DEF Protocol!mayFollow, setSessionAccepts, loginGenerationAdvances, Owed
  <2>4. Protocol!Enter(p, s)
    BY Zenon, <1>1, <2>1, <2>2, <2>3 DEF Protocol!Enter, Online
  <2> QED
    BY Zenon, <1>1, <2>4 DEF ProtocolStep, Protocol!Next
<1> QED
  BY Zenon, <1>2, <1>3

\* SetDisconnecting takes effect in transitionToDisconnecting.
LEMMA DisconnectRefines ==
    ASSUME RInv, NEW c \in Calls, CommitDisconnecting(c)
    PROVE  ProtocolStep
<1> DEFINE p == call[c].player
           e == call[c].expected
<1>1. p \in Players /\ InState(e, Online)
      /\ call[c].next = [e EXCEPT !.state = Disconnecting, !.ver = @ + 1]
  BY Zenon DEF CommitDisconnecting, RInv, IInv, CallCoherent, DisconnectCoherent
<1>2. CASE session[p] # e
  <2>1. UNCHANGED storeVars
    BY Zenon, <1>2 DEF CommitDisconnecting, transitionToDisconnecting
  <2> QED
    BY Zenon, <2>1 DEF storeVars, ProtocolStep, Protocol!protocolVars, Leased, Owed, CleanupPending
<1>3. CASE session[p] = e
  <2>1. /\ session' = [session EXCEPT ![p] = call[c].next]
        /\ ready' = [ready EXCEPT ![p] = "pending"]
        /\ dropClaim(p)
    BY Zenon, <1>3 DEF CommitDisconnecting, transitionToDisconnecting
  <2>2. Owed' = Owed \ {p} /\ Leased' = Leased \cup {p}
    BY Zenon, <1>1, <2>1, Dropped DEF RInv, IInv
  <2>3. Protocol!Drop(p)
    BY <1>1, <1>3, <2>1, <2>2, Zenon DEF Protocol!Drop, InState, Online, Disconnecting
  <2> QED
    BY Zenon, <1>1, <2>3 DEF ProtocolStep, Protocol!Next
<1> QED
  BY Zenon, <1>2, <1>3

\* MarkOffline takes effect in deleteSessionIfUnchanged.
LEMMA LeaveRefines ==
    ASSUME RInv, NEW c \in Calls, CommitMarkOffline(c)
    PROVE  ProtocolStep
<1> DEFINE p == call[c].player
           e == call[c].expected
<1>1. p \in Players /\ e # None
  BY Zenon, NoneAssumption DEF CommitMarkOffline, RInv, IInv, CallCoherent
<1>2. CASE session[p] # e
  <2>1. UNCHANGED storeVars
    BY Zenon, <1>2 DEF CommitMarkOffline, deleteSessionIfUnchanged
  <2> QED
    BY Zenon, <2>1 DEF storeVars, ProtocolStep, Protocol!protocolVars, Leased, Owed, CleanupPending
<1>3. CASE session[p] = e
  <2>1. /\ session' = [session EXCEPT ![p] = None]
        /\ ready' = [ready EXCEPT ![p] = "none"]
        /\ dropClaim(p)
    BY Zenon, <1>3 DEF CommitMarkOffline, deleteSessionIfUnchanged
  <2>2. Protocol!Leave(p)
    BY Zenon, <1>1, <1>3, <2>1, Dropped DEF Protocol!Leave, RInv, IInv
  <2> QED
    BY Zenon, <1>1, <2>2 DEF ProtocolStep, Protocol!Next
<1> QED
  BY Zenon, <1>2, <1>3

\* Queueing the cleanup of a departure makes it owed.
LEMMA EnqueueRefines ==
    ASSUME RInv, NEW c \in Calls, EnqueueCleanup(c)
    PROVE  ProtocolStep
<1> DEFINE p == call[c].player
<1>1. p \in Players /\ call[c].next # None
  BY Zenon, NoneAssumption DEF EnqueueCleanup, RInv, IInv, CallCoherent
<1>2. CASE session[p] # None
  <2>1. UNCHANGED storeVars
    BY Zenon, <1>2 DEF EnqueueCleanup, enqueueOfflineCleanup
  <2> QED
    BY Zenon, <2>1 DEF storeVars, ProtocolStep, Protocol!protocolVars, Leased, Owed, CleanupPending
<1>3. CASE session[p] = None
  <2>1. /\ \E when \in {"pending", "due"} : ready' = [ready EXCEPT ![p] = when]
        /\ payload' = [payload EXCEPT ![p] = call[c].next]
        /\ UNCHANGED <<session, processing, token>>
    BY Zenon, <1>3 DEF EnqueueCleanup, enqueueOfflineCleanup
  <2>2. Leased' = Leased \cup {p} /\ Owed' = Owed \cup {p}
    BY <1>1, <2>1 DEF Leased, Owed, CleanupPending, RInv, IInv, TypeOK, StoreTypeOK
  <2>3. Protocol!Owe(p)
    BY Zenon, <1>3, <2>1, <2>2 DEF Protocol!Owe
  <2> QED
    BY Zenon, <1>1, <2>3 DEF ProtocolStep, Protocol!Next
<1> QED
  BY Zenon, <1>2, <1>3

\* The other steps of a handler are invisible.
LEMMA RpcRefines ==
    ASSUME RInv, NEW c \in Calls, Rpc(c)
    PROVE  ProtocolStep
<1>1. ASSUME UNCHANGED storeVars PROVE ProtocolStep
  BY Zenon, <1>1 DEF storeVars, ProtocolStep, Protocol!protocolVars, Leased, Owed, CleanupPending
<1>2. ASSUME NEW p \in Players, BeginRpc(c, p) PROVE UNCHANGED storeVars
  <2>1. \A op, r, next : begin(c, op, r, next) => UNCHANGED storeVars
    BY Zenon DEF begin
  <2> QED
    BY <1>2, <2>1, Zenon DEF BeginRpc, SetSession, Reconnect, SetDisconnecting, MarkOffline
<1>3. CASE AbortCall(c) \/ \E left \in BOOLEAN : LeaveSceneOrEnqueue(c, left)
  BY Zenon, <1>1, <1>3 DEF LeaveSceneOrEnqueue, AbortCall
<1> QED
  BY Zenon, <1>1, <1>2, <1>3, ReplaceRefines, DisconnectRefines, LeaveRefines, EnqueueRefines
  DEF Rpc, RpcStep

-----------------------------------------------------------------------------

\* Claiming a batch moves leases between the queues; none is lost.
LEMMA ClaimRefines ==
    ASSUME RInv, NEW m \in Monitors, ClaimBatch(m)
    PROVE  ProtocolStep
<1>1. PICK recovered \in SUBSET Players, claimed \in SUBSET Players, t \in FreshTokens :
         claimExpiredLeases(recovered, claimed, t)
  BY Zenon DEF ClaimBatch
<1>2. /\ recovered \subseteq {p \in Players : processing[p] = "due"}
      /\ claimed \subseteq {p \in Players : ready[p] = "due"} \cup recovered
  BY Zenon, <1>1 DEF claimExpiredLeases, Limited
<1>3. t # NoToken /\ NoToken \notin Tokens
  BY Zenon, StoreAssumption DEF FreshTokens
<1> DEFINE returned == {p \in recovered \ claimed : payload[p] = None}
<1>4. session' = session
  BY Zenon, <1>1 DEF claimExpiredLeases
<1>5. Leased' = Leased
  BY Zenon, <1>1, <1>2 DEF claimExpiredLeases, Leased
<1>6. Owed' = (Owed \cup claimed) \ returned
  BY Zenon, <1>1, <1>2, <1>3 DEF claimExpiredLeases, Owed, CleanupPending
<1>7. claimed \cup returned \subseteq Leased
  BY Zenon, <1>2 DEF Leased
<1>8. Protocol!Claim(claimed, returned)
  BY Zenon, <1>4, <1>5, <1>6, <1>7 DEF Protocol!Claim
<1> QED
  BY Zenon, <1>8 DEF ProtocolStep, Protocol!Next

\* Giving up a claim under its token settles the player, unless its lease is, or
\* is put back, in the queue.
LEMMA DropRefines ==
    ASSUME RInv, NEW p \in Players, token[p] # NoToken, dropClaim(p), session' = session,
           \/ ready' = ready /\ ~InState(session[p], Disconnecting)
           \/ ready' = [ready EXCEPT ![p] = "pending"]
    PROVE  ProtocolStep
<1>1. Owed' = Owed \ {p}
  BY Zenon, Dropped DEF RInv, IInv
<1>2. p \in Leased
  BY Zenon DEF RInv, IInv, ClaimHasToken, Leased
<1>3. CASE ready' = ready /\ ready[p] = "none"
  <2>1. Leased' = Leased \ {p} /\ ~InState(session[p], Disconnecting)
    BY Zenon, <1>3, Dropped DEF dropClaim, Leased, RInv, IInv, TypeOK, StoreTypeOK, Deadline
  <2>2. Protocol!Settle(p)
    BY Zenon, <1>1, <2>1 DEF Protocol!Settle, InState, Online, Disconnecting, RInv, IInv, TypeOK,
       StoreTypeOK, PlayerSession
  <2> QED
    BY Zenon, <2>2 DEF ProtocolStep, Protocol!Next
<1>4. CASE ~(ready' = ready /\ ready[p] = "none")
  <2>1. Leased' = Leased
    BY Zenon, <1>2, <1>4, Dropped DEF dropClaim, Leased, RInv, IInv, TypeOK, StoreTypeOK
  <2>2. Protocol!Claim({}, {p})
    BY Zenon, <1>1, <1>2, <2>1 DEF Protocol!Claim
  <2> QED
    BY Zenon, <2>2 DEF ProtocolStep, Protocol!Next
<1> QED
  BY Zenon, <1>3, <1>4

\* A step that leaves the keys of Redis alone, or only deadlines, is invisible.
LEMMA InvisibleStep ==
    ASSUME session' = session, token' = token, payload' = payload,
           \A p \in Players : ready'[p] = "none" <=> ready[p] = "none",
           \A p \in Players : processing'[p] = "none" <=> processing[p] = "none"
    PROVE  ProtocolStep
BY Zenon DEF ProtocolStep, Protocol!protocolVars, Leased, Owed, CleanupPending

\* The claim in a monitor's hand is one of its batch.
LEMMA ClaimInHand ==
    ASSUME RInv, NEW m \in Monitors, monitor[m].pc \in {"rearm", "commit", "ack"}
    PROVE  /\ monitor[m].claim \in monitor[m].batch
           /\ monitor[m].claim.player \in Players
           /\ monitor[m].claim.token # NoToken
<1>1. monitor[m].claim \in monitor[m].batch
  BY Zenon DEF RInv, IInv, MonitorCoherent
<1> QED
  BY Zenon, <1>1, BatchTypes, StoreAssumption DEF RInv, IInv, TypeOK

\* Re-arming, expiring and acknowledging a claim are visible only under its token.
LEMMA HandleRefines ==
    ASSUME RInv, NEW m \in Monitors, Rearm(m) \/ CommitExpiry(m) \/ Ack(m)
    PROVE  ProtocolStep
<1> DEFINE b == monitor[m].claim
           p == b.player
<1>1. b \in monitor[m].batch /\ p \in Players /\ b.token # NoToken
  BY Zenon, ClaimInHand DEF Rearm, CommitExpiry, Ack
<1>2. token[p] = b.token => session[p] \in {None, b.payload}
  BY Zenon, <1>1 DEF RInv, IInv, OwnedClaimIsCurrent
<1>3. CASE Rearm(m)
  <2>1. CASE token[p] # b.token
    BY Zenon, <1>3, <2>1, InvisibleStep DEF Rearm, rearmLeaseClaim, storeVars
  <2>2. CASE token[p] = b.token
    <3>1. /\ dropClaim(p) /\ session' = session
          /\ ready' = [ready EXCEPT ![p] =
                         IF session[p] # None /\ session[p] = b.payload THEN "pending" ELSE @]
      BY Zenon, <1>3, <2>2 DEF Rearm, rearmLeaseClaim
    <3>2. CASE session[p] = None
      <4>1. ready' = ready
        BY Zenon, <3>1, <3>2 DEF RInv, IInv, TypeOK, StoreTypeOK
      <4> QED
        BY Zenon, <1>1, <2>2, <3>1, <3>2, <4>1, DropRefines DEF InState
    <3>3. CASE session[p] # None
      BY Zenon, <1>1, <1>2, <2>2, <3>1, <3>3, DropRefines
    <3> QED
      BY Zenon, <3>2, <3>3
  <2> QED
    BY Zenon, <2>1, <2>2
<1>4. CASE CommitExpiry(m)
  <2>1. CASE token[p] # b.token
    BY Zenon, <1>4, <2>1, InvisibleStep DEF CommitExpiry, commitLeaseExpiry, commitLeaseExpiryResult
  <2>2. CASE token[p] = b.token
    <3>1. /\ session' = [session EXCEPT ![p] = None]
          /\ UNCHANGED <<ready, processing, token, payload>>
      BY Zenon, <1>2, <1>4, <2>2 DEF CommitExpiry, commitLeaseExpiry, commitLeaseExpiryResult
    <3>2. Leased' = Leased /\ Owed' = Owed /\ p \in Owed
      BY Zenon, <1>1, <2>2, <3>1 DEF Leased, Owed, CleanupPending
    <3>3. CASE session[p] = None
      <4>1. session' = session
        BY Zenon, <3>1, <3>3 DEF RInv, IInv, TypeOK, StoreTypeOK
      <4> QED
        BY Zenon, <3>2, <4>1 DEF ProtocolStep, Protocol!protocolVars
    <3>4. CASE session[p] # None
      <4>1. ~InState(session[p], Online)
        BY Zenon, <1>2, <1>4, <2>2, <3>4 DEF CommitExpiry, RInv, IInv, MonitorCoherent
      <4>2. session[p].state = "DISCONNECTING"
        BY Zenon, <1>1, <3>4, <4>1 DEF InState, Online, Disconnecting, RInv, IInv, TypeOK,
           StoreTypeOK, PlayerSession
      <4>3. Protocol!Expire(p)
        BY Zenon, <3>1, <3>2, <3>4, <4>2 DEF Protocol!Expire
      <4> QED
        BY Zenon, <1>1, <4>3 DEF ProtocolStep, Protocol!Next
    <3> QED
      BY Zenon, <3>3, <3>4
  <2> QED
    BY Zenon, <2>1, <2>2
<1>5. CASE Ack(m)
  <2>1. CASE token[p] # b.token
    BY Zenon, <1>5, <2>1, InvisibleStep DEF Ack, ackLeaseClaim, storeVars
  <2>2. CASE token[p] = b.token
    <3>1. dropClaim(p) /\ session' = session /\ ready' = ready
      BY Zenon, <1>5, <2>2 DEF Ack, ackLeaseClaim
    <3>2. ~InState(session[p], Disconnecting)
      BY Zenon, <1>5, <2>2 DEF Ack, RInv, IInv, AckIsDue
    <3> QED
      BY Zenon, <1>1, <2>2, <3>1, <3>2, DropRefines
  <2> QED
    BY Zenon, <2>1, <2>2
<1> QED
  BY Zenon, <1>3, <1>4, <1>5

\* The other steps of a monitor are invisible: a heartbeat renews only entries
\* that are there.
LEMMA MonitorRefines ==
    ASSUME RInv, NEW m \in Monitors, Monitoring(m)
    PROVE  ProtocolStep
<1>1. CASE Heartbeat(m)
  <2>1. \A b \in monitor[m].batch : b.player \in Players /\ b.token # NoToken
    BY Zenon, BatchTypes, StoreAssumption DEF RInv, IInv, TypeOK
  <2>2. \A p \in Players : processing'[p] = "none" <=> processing[p] = "none"
    BY Zenon, <1>1, <2>1 DEF Heartbeat, renewLeaseClaims, RInv, IInv, ClaimHasToken
  <2> QED
    BY Zenon, <1>1, <2>2, InvisibleStep DEF Heartbeat, renewLeaseClaims
<1>2. ASSUME UNCHANGED storeVars PROVE ProtocolStep
  BY Zenon, <1>2, InvisibleStep DEF storeVars
<1>3. ASSUME NEW claim, NEW readFails, NEW afk, Examine(m, claim, readFails, afk)
      PROVE  ProtocolStep
  BY <1>2, <1>3, Zenon DEF Examine
<1>4. CASE EndRound(m) \/ AbandonClaim(m) \/ AbortRound(m)
           \/ \E published, left \in BOOLEAN : Notify(m, published, left)
  BY <1>2, <1>4, Zenon DEF EndRound, AbandonClaim, AbortRound, Notify
<1> QED
  BY Zenon, <1>1, <1>3, <1>4, ClaimRefines, HandleRefines DEF Monitoring, MonitorStep

\* Every step of the service is a step of the protocol, or invisible.
LEMMA StepRefines ==
    ASSUME RInv, [Next]_vars
    PROVE  ProtocolStep
<1>1. CASE Time
  BY Zenon, <1>1, InvisibleStep DEF Time, LeaseFallsDue, ClaimFallsDue, RInv, IInv, TypeOK, StoreTypeOK
<1>2. CASE UNCHANGED vars
  BY Zenon, <1>2, InvisibleStep DEF vars
<1> QED
  BY Zenon, <1>1, <1>2, RpcRefines, MonitorRefines DEF Next

\* player_locator implements the session protocol: handlers, monitors and their
\* crashes interleave as they may, every transition they make visible is one
\* atomic transition of SessionProtocol (session_cas.go:17-38).
THEOREM LocatorImplementsProtocol == Spec => ImplementsProtocol
<1>1. Init => Protocol!Init /\ DisconnectCoherent
  BY Zenon, InitRefines
<1>2. IInv /\ DisconnectCoherent /\ [Next]_vars => DisconnectCoherent'
  BY Zenon, DisconnectsCoherent
<1>3. IInv /\ DisconnectCoherent /\ [Next]_vars => [Protocol!Next]_(Protocol!protocolVars)
  BY Zenon, StepRefines DEF RInv, ProtocolStep
<1> QED
  BY <1>1, <1>2, <1>3, Invariance, PTL DEF Spec, ImplementsProtocol, Protocol!Spec
=============================================================================
