------------------------- MODULE LocatorServiceProofs -------------------------
(***************************************************************************)
(* TLAPS proofs about LocatorService: for any number of players, gates,    *)
(* concurrent handlers and lease monitors.                                 *)
(***************************************************************************)
EXTENDS LocatorService, TLAPS

-----------------------------------------------------------------------------
(* Handlers *)

\* SetSession leaves in flight a well-typed call that its checks allow.
LEMMA SetSessionOK ==
    ASSUME TypeOK, CallCoherent, NEW c \in Calls, NEW p \in Players,
           NEW s \in PlayerSession, s.state = Online, SetSession(c, p, s)
    PROVE  call' \in [Calls -> Call] /\ CallCoherent'
BY Zenon DEF TypeOK, StoreTypeOK, CallCoherent, SetSession, begin, Call, IdleCall, storeVars

\* Reconnect leaves in flight the next version of the record it read, ONLINE.
LEMMA ReconnectOK ==
    ASSUME TypeOK, CallCoherent, NEW c \in Calls, NEW p \in Players,
           NEW sid \in SessionIds, NEW gate \in Gates \cup {NoGate},
           NEW account \in Accounts, NEW gen \in 0..MaxGeneration,
           Reconnect(c, p, sid, gate, account, gen)
    PROVE  call' \in [Calls -> Call] /\ CallCoherent'
<1> DEFINE next == [session[p] EXCEPT !.sid = sid, !.gate = gate, !.gen = gen,
                                      !.ver = @ + 1, !.state = Online]
<1>1. session[p] \in PlayerSession /\ session[p].ver < MaxVersion
  BY Zenon DEF Reconnect, reconnectAccepts, InState, TypeOK, StoreTypeOK
<1>a. session[p].ver + 1 \in 1..MaxVersion
  BY <1>1, StoreAssumption DEF PlayerSession
<1>2. /\ next \in PlayerSession /\ next.ver = session[p].ver + 1
      /\ next.gen = gen /\ next.state = Online
  BY Zenon, <1>1, <1>a DEF PlayerSession
<1>3. setSessionAccepts(session[p], next)
  BY Zenon, <1>2 DEF Reconnect, reconnectAccepts, setSessionAccepts
<1>4. begin(c, "replace", p, next)
  BY Zenon DEF Reconnect
<1> HIDE DEF next
<1> QED
  BY Zenon, <1>1, <1>2, <1>3, <1>4 DEF TypeOK, StoreTypeOK, CallCoherent, begin, Call, IdleCall, storeVars

\* SetDisconnecting leaves in flight the next version, generation kept.
LEMMA SetDisconnectingOK ==
    ASSUME TypeOK, CallCoherent, NEW c \in Calls, NEW p \in Players,
           NEW sid \in SessionIds, NEW gate \in Gates \cup {NoGate},
           SetDisconnecting(c, p, sid, gate)
    PROVE  call' \in [Calls -> Call] /\ CallCoherent'
<1> DEFINE next == [session[p] EXCEPT !.state = Disconnecting, !.ver = @ + 1]
<1>1. session[p] \in PlayerSession /\ session[p].ver < MaxVersion
  BY Zenon DEF SetDisconnecting, InState, TypeOK, StoreTypeOK
<1>a. session[p].ver + 1 \in 1..MaxVersion
  BY <1>1, StoreAssumption DEF PlayerSession
<1>2. /\ next \in PlayerSession /\ next.ver = session[p].ver + 1
      /\ next.gen = session[p].gen /\ next.state = Disconnecting
  BY Zenon, <1>1, <1>a DEF PlayerSession
<1>3. begin(c, "disconnect", p, next)
  BY Zenon DEF SetDisconnecting
<1> HIDE DEF next
<1> QED
  BY Zenon, <1>1, <1>2, <1>3 DEF TypeOK, StoreTypeOK, CallCoherent, begin, Call, IdleCall, storeVars

\* MarkOffline leaves in flight the record to delete and the cleanup snapshot.
LEMMA MarkOfflineOK ==
    ASSUME TypeOK, CallCoherent, NEW c \in Calls, NEW p \in Players,
           NEW sid \in SessionIds, NEW ver \in 1..MaxVersion, NEW gate \in Gates \cup {NoGate},
           MarkOffline(c, p, sid, ver, gate)
    PROVE  call' \in [Calls -> Call] /\ CallCoherent'
<1>1. session[p] \in PlayerSession
  BY Zenon DEF MarkOffline, TypeOK, StoreTypeOK
<1>2. retrySession(session[p]) \in PlayerSession
  BY Zenon, <1>1 DEF retrySession, PlayerSession
<1>3. begin(c, "delete", p, retrySession(session[p]))
  BY Zenon DEF MarkOffline
<1> QED
  BY Zenon, <1>1, <1>2, <1>3 DEF TypeOK, StoreTypeOK, CallCoherent, begin, Call, IdleCall, storeVars

-----------------------------------------------------------------------------
(* Scripts *)

StoreInv == StoreTypeOK /\ IndexExact /\ ClaimHasToken /\ DisconnectingIsLeased

\* Dropping a claim (ZREM, two HDELs) keeps types and takes the token with the
\* processing entry; other players are untouched.
LEMMA DropClaimOK ==
    ASSUME StoreTypeOK, ClaimHasToken, NEW p \in Players, dropClaim(p)
    PROVE  /\ processing' \in [Players -> Deadline]
           /\ token' \in [Players -> Tokens \cup {NoToken}]
           /\ payload' \in [Players -> PlayerSession \cup {None}]
           /\ ClaimHasToken'
           /\ token'[p] = NoToken
           /\ \A q \in Players \ {p} : token'[q] = token[q] /\ processing'[q] = processing[q]
BY Zenon DEF StoreTypeOK, ClaimHasToken, dropClaim, Deadline

\* Moving a player from the index of the stored record to that of the next one
\* keeps the index exact: the heart of the argument for I1 and I2.
LEMMA MoveIndexOK ==
    ASSUME StoreTypeOK, IndexExact, NEW p \in Players,
           NEW next \in PlayerSession \cup {None},
           session' = [session EXCEPT ![p] = next],
           moveIndex(p, indexedGate(session[p]), indexedGate(next))
    PROVE  index' \in [Gates -> SUBSET Players] /\ registry' \subseteq Gates /\ IndexExact'
BY StoreAssumption DEF StoreTypeOK, IndexExact, moveIndex

\* replaceSessionAndCancelLease keeps the store invariant, and cancels the claim
\* of every session it changes.
LEMMA ReplaceOK ==
    ASSUME StoreInv, NEW p \in Players, NEW expected \in PlayerSession \cup {None},
           NEW next \in PlayerSession, next.state = Online,
           replaceSessionAndCancelLease(p, expected, next)
    PROVE  /\ StoreInv'
           /\ \A q \in Players :
                 \/ session'[q] = session[q] /\ token'[q] = token[q]
                 \/ token'[q] = NoToken
<1>1. CASE replaceSessionResult(p, expected) # "applied"
  BY Zenon, <1>1 DEF replaceSessionAndCancelLease, storeVars, StoreInv, StoreTypeOK, IndexExact,
              ClaimHasToken, DisconnectingIsLeased
<1>2. CASE replaceSessionResult(p, expected) = "applied"
  <2>1. /\ session[p] = expected
        /\ session' = [session EXCEPT ![p] = next]
        /\ ready' = [ready EXCEPT ![p] = "none"]
        /\ dropClaim(p)
        /\ moveIndex(p, indexedGate(session[p]), indexedGate(next))
    BY Zenon, <1>2 DEF replaceSessionAndCancelLease, replaceSessionResult
  <2>2. StoreTypeOK' /\ IndexExact' /\ ClaimHasToken'
    BY Zenon, <2>1, DropClaimOK, MoveIndexOK DEF StoreInv, StoreTypeOK, Deadline
  <2>3. DisconnectingIsLeased'
    BY Zenon, <2>1, DropClaimOK DEF StoreInv, StoreTypeOK, DisconnectingIsLeased, InState, Online, Disconnecting
  <2> QED
    BY Zenon, <2>1, <2>2, <2>3, DropClaimOK DEF StoreInv, StoreTypeOK
<1> QED BY Zenon, <1>1, <1>2

\* transitionToDisconnecting keeps the store invariant: it queues the lease in
\* the step that makes the session DISCONNECTING.
LEMMA DisconnectOK ==
    ASSUME StoreInv, NEW p \in Players, NEW expected \in PlayerSession,
           NEW next \in PlayerSession, next.state = Disconnecting,
           transitionToDisconnecting(p, expected, next)
    PROVE  /\ StoreInv'
           /\ \A q \in Players :
                 \/ session'[q] = session[q] /\ token'[q] = token[q]
                 \/ token'[q] = NoToken
<1>1. CASE session[p] # expected
  BY Zenon, <1>1 DEF transitionToDisconnecting, storeVars, StoreInv, StoreTypeOK, IndexExact,
              ClaimHasToken, DisconnectingIsLeased
<1>2. CASE session[p] = expected
  <2>1. /\ session' = [session EXCEPT ![p] = next]
        /\ ready' = [ready EXCEPT ![p] = "pending"]
        /\ dropClaim(p)
        /\ moveIndex(p, indexedGate(session[p]), indexedGate(next))
    BY Zenon, <1>2 DEF transitionToDisconnecting, indexedGate, InState, Online, Disconnecting
  <2>2. StoreTypeOK' /\ IndexExact' /\ ClaimHasToken'
    BY Zenon, <2>1, DropClaimOK, MoveIndexOK DEF StoreInv, StoreTypeOK, Deadline
  <2>3. DisconnectingIsLeased'
    BY Zenon, <2>1, DropClaimOK DEF StoreInv, StoreTypeOK, DisconnectingIsLeased, InState
  <2> QED
    BY Zenon, <2>1, <2>2, <2>3, DropClaimOK DEF StoreInv, StoreTypeOK
<1> QED BY Zenon, <1>1, <1>2

\* deleteSessionIfUnchanged keeps the store invariant and cancels the claim.
LEMMA DeleteOK ==
    ASSUME StoreInv, NEW p \in Players, NEW expected \in PlayerSession,
           deleteSessionIfUnchanged(p, expected)
    PROVE  /\ StoreInv'
           /\ \A q \in Players :
                 \/ session'[q] = session[q] /\ token'[q] = token[q]
                 \/ token'[q] = NoToken
<1>1. CASE session[p] # expected
  BY Zenon, <1>1 DEF deleteSessionIfUnchanged, storeVars, StoreInv, StoreTypeOK, IndexExact,
              ClaimHasToken, DisconnectingIsLeased
<1>2. CASE session[p] = expected
  <2>1. /\ session' = [session EXCEPT ![p] = None]
        /\ ready' = [ready EXCEPT ![p] = "none"]
        /\ dropClaim(p)
        /\ moveIndex(p, indexedGate(session[p]), indexedGate(None))
    BY Zenon, <1>2 DEF deleteSessionIfUnchanged, indexedGate, InState
  <2>2. StoreTypeOK' /\ IndexExact' /\ ClaimHasToken'
    BY Zenon, <2>1, DropClaimOK, MoveIndexOK DEF StoreInv, StoreTypeOK, Deadline
  <2>3. DisconnectingIsLeased'
    BY Zenon, <2>1, DropClaimOK DEF StoreInv, StoreTypeOK, DisconnectingIsLeased, InState
  <2> QED
    BY Zenon, <2>1, <2>2, <2>3, DropClaimOK DEF StoreInv, StoreTypeOK
<1> QED BY Zenon, <1>1, <1>2

\* enqueueOfflineCleanup keeps the store invariant; it touches neither session
\* nor token.
LEMMA EnqueueOK ==
    ASSUME StoreInv, NEW p \in Players, NEW snapshot \in PlayerSession,
           enqueueOfflineCleanup(p, snapshot)
    PROVE  StoreInv' /\ session' = session /\ token' = token
BY DEF enqueueOfflineCleanup, storeVars, StoreInv, StoreTypeOK, IndexExact,
       ClaimHasToken, DisconnectingIsLeased, Deadline

-----------------------------------------------------------------------------
(* A handler's step *)

ClaimInv == OwnedClaimIsCurrent /\ NotifyOnlyWithoutSession /\ AckIsDue

\* A script that changes a session takes the token away, so no claim in a
\* monitor's hands is about the changed session.
LEMMA ClaimInvUnderScripts ==
    ASSUME TypeOK, MonitorCoherent, ClaimInv, UNCHANGED monitor,
           \A q \in Players :
              \/ session'[q] = session[q] /\ token'[q] = token[q]
              \/ token'[q] = NoToken
    PROVE  MonitorCoherent' /\ ClaimInv'
<1>1. \A m \in Monitors : \A b \in monitor[m].batch : b.player \in Players /\ b.token \in Tokens
  BY DEF TypeOK, Monitor, Claim
<1>2. OwnedClaimIsCurrent'
  BY <1>1, StoreAssumption DEF ClaimInv, OwnedClaimIsCurrent
<1>3. NotifyOnlyWithoutSession' /\ AckIsDue'
  BY <1>1, StoreAssumption DEF ClaimInv, NotifyOnlyWithoutSession, AckIsDue, MonitorCoherent
<1>4. MonitorCoherent'
  BY Zenon DEF MonitorCoherent
<1> QED BY Zenon, <1>2, <1>3, <1>4 DEF ClaimInv

\* A handler that ends leaves nothing in flight.
LEMMA FinishOK ==
    ASSUME TypeOK, CallCoherent, NEW c \in Calls, finish(c)
    PROVE  call' \in [Calls -> Call] /\ CallCoherent'
BY Zenon DEF TypeOK, CallCoherent, finish, IdleCall, Call

\* Every step of a handler preserves the inductive invariant.
LEMMA RpcPreserves ==
    ASSUME IInv, NEW c \in Calls, Rpc(c)
    PROVE  IInv'
<1> USE DEF StoreInv
<1>i. StoreInv /\ ClaimInv
  BY Zenon DEF IInv, TypeOK, ClaimInv
<1>f. finish(c) => call' \in [Calls -> Call] /\ CallCoherent'
  BY Zenon, FinishOK DEF IInv
<1>u. UNCHANGED storeVars => /\ StoreInv'
                             /\ session' = session /\ token' = token
  BY Zenon, <1>i DEF storeVars, StoreTypeOK, IndexExact, ClaimHasToken, DisconnectingIsLeased
<1>s. SUFFICES /\ StoreInv'
               /\ \A q \in Players :
                     \/ session'[q] = session[q] /\ token'[q] = token[q]
                     \/ token'[q] = NoToken
               /\ call' \in [Calls -> Call] /\ CallCoherent'
  BY Zenon, <1>i, ClaimInvUnderScripts DEF IInv, TypeOK, ClaimInv, Rpc
<1>1. ASSUME NEW p \in Players, BeginRpc(c, p)
      PROVE  /\ UNCHANGED storeVars
             /\ call' \in [Calls -> Call] /\ CallCoherent'
  <2>1. ASSUME NEW s \in PlayerSession, s.state = Online, SetSession(c, p, s)
        PROVE  UNCHANGED storeVars /\ call' \in [Calls -> Call] /\ CallCoherent'
    BY Zenon, <2>1, SetSessionOK DEF IInv, SetSession, begin
  <2>2. ASSUME NEW sid \in SessionIds, NEW gate \in Gates \cup {NoGate},
               NEW account \in Accounts, NEW gen \in 0..MaxGeneration,
               Reconnect(c, p, sid, gate, account, gen)
        PROVE  UNCHANGED storeVars /\ call' \in [Calls -> Call] /\ CallCoherent'
    BY Zenon, <2>2, ReconnectOK DEF IInv, Reconnect, begin
  <2>3. ASSUME NEW sid \in SessionIds, NEW gate \in Gates \cup {NoGate},
               SetDisconnecting(c, p, sid, gate)
        PROVE  UNCHANGED storeVars /\ call' \in [Calls -> Call] /\ CallCoherent'
    BY Zenon, <2>3, SetDisconnectingOK DEF IInv, SetDisconnecting, begin
  <2>4. ASSUME NEW sid \in SessionIds, NEW ver \in 1..MaxVersion,
               NEW gate \in Gates \cup {NoGate}, MarkOffline(c, p, sid, ver, gate)
        PROVE  UNCHANGED storeVars /\ call' \in [Calls -> Call] /\ CallCoherent'
    BY Zenon, <2>4, MarkOfflineOK DEF IInv, MarkOffline, begin
  <2> QED BY Zenon, <1>1, <2>1, <2>2, <2>3, <2>4 DEF BeginRpc
<1>2. CASE CommitReplace(c)
  <2>1. /\ call[c].player \in Players
        /\ call[c].expected \in PlayerSession \cup {None}
        /\ call[c].next \in PlayerSession /\ call[c].next.state = Online
    BY Zenon, <1>2 DEF CommitReplace, IInv, TypeOK, CallCoherent, Call
  <2> QED BY Zenon, <1>2, <1>i, <1>f, <2>1, ReplaceOK DEF CommitReplace
<1>3. CASE CommitDisconnecting(c)
  <2>1. /\ call[c].player \in Players
        /\ call[c].expected \in PlayerSession
        /\ call[c].next \in PlayerSession /\ call[c].next.state = Disconnecting
    BY Zenon, <1>3 DEF CommitDisconnecting, IInv, CallCoherent
  <2> QED BY Zenon, <1>3, <1>i, <1>f, <2>1, DisconnectOK DEF CommitDisconnecting
<1>4. CASE CommitMarkOffline(c)
  <2>1. call[c].player \in Players /\ call[c].expected \in PlayerSession
    BY Zenon, <1>4 DEF CommitMarkOffline, IInv, CallCoherent
  <2>2. call' = [call EXCEPT ![c].op = "leave"] => call' \in [Calls -> Call] /\ CallCoherent'
    BY <1>4 DEF CommitMarkOffline, IInv, TypeOK, CallCoherent, Call
  <2> QED BY Zenon, <1>4, <1>i, <1>f, <2>1, <2>2, DeleteOK DEF CommitMarkOffline
<1>5. ASSUME NEW left \in BOOLEAN, LeaveSceneOrEnqueue(c, left)
      PROVE  UNCHANGED storeVars /\ call' \in [Calls -> Call] /\ CallCoherent'
  <2>1. call' = [call EXCEPT ![c].op = "enqueue"] => call' \in [Calls -> Call] /\ CallCoherent'
    BY <1>5 DEF LeaveSceneOrEnqueue, IInv, TypeOK, CallCoherent, Call
  <2> QED BY Zenon, <1>5, <1>f, <2>1 DEF LeaveSceneOrEnqueue
<1>6. CASE EnqueueCleanup(c)
  <2>1. call[c].player \in Players /\ call[c].next \in PlayerSession
    BY Zenon, <1>6 DEF EnqueueCleanup, IInv, CallCoherent
  <2> QED BY Zenon, <1>6, <1>i, <1>f, <2>1, EnqueueOK DEF EnqueueCleanup
<1>7. CASE AbortCall(c)
  BY Zenon, <1>7, <1>u, <1>f DEF AbortCall
<1> QED
  BY Zenon, <1>1, <1>2, <1>3, <1>4, <1>5, <1>6, <1>7, <1>u DEF Rpc, RpcStep

-----------------------------------------------------------------------------
(* A monitor's step *)

\* claimExpiredLeases keeps the store invariant: what leaves one of the two lease
\* queues is in the other.
LEMMA ClaimExpiredOK ==
    ASSUME StoreInv, NEW recovered \in SUBSET Players, NEW claimed \in SUBSET Players,
           NEW t \in Tokens, claimExpiredLeases(recovered, claimed, t)
    PROVE  StoreInv'
<1>1. \A p \in Players : claimedPayload(p) \in PlayerSession \cup {None}
  BY Zenon DEF StoreInv, StoreTypeOK, claimedPayload
<1>2. StoreTypeOK'
  BY Zenon, <1>1 DEF StoreInv, StoreTypeOK, claimExpiredLeases, Deadline
<1>3. ClaimHasToken' /\ DisconnectingIsLeased' /\ IndexExact'
  BY Zenon, StoreAssumption DEF StoreInv, StoreTypeOK, ClaimHasToken, DisconnectingIsLeased,
                         IndexExact, claimExpiredLeases
<1> QED BY Zenon, <1>2, <1>3 DEF StoreInv

\* Claims in a batch name a player and carry a token (leaseClaim,
\* session_cas.go:212-216).
LEMMA BatchTypes ==
    ASSUME monitor \in [Monitors -> Monitor]
    PROVE  \A n \in Monitors : \A b \in monitor[n].batch :
               b.player \in Players /\ b.token \in Tokens
<1> SUFFICES ASSUME NEW n \in Monitors, NEW b \in monitor[n].batch
             PROVE  b.player \in Players /\ b.token \in Tokens
  BY Zenon
<1>1. monitor[n].batch \in SUBSET Claim
  BY Zenon DEF Monitor
<1>2. b \in Claim
  BY Zenon, <1>1
<1> QED BY Zenon, <1>2 DEF Claim

\* Claiming a batch preserves the inductive invariant: its token is new, so no
\* older claim in a monitor's hands is revived by it.
LEMMA ClaimBatchPreserves ==
    ASSUME IInv, NEW m \in Monitors, ClaimBatch(m), UNCHANGED call
    PROVE  IInv'
<1>1. PICK recovered \in SUBSET Players, claimed \in SUBSET Players, t \in FreshTokens :
        /\ claimExpiredLeases(recovered, claimed, t)
        /\ LET batch == {[player |-> p, token |-> t, payload |-> claimedPayload(p)] :
                            p \in claimed}
           IN  monitor' = [monitor EXCEPT ![m] = [pc |-> "next", batch |-> batch,
                                                  todo |-> batch, claim |-> None]]
  BY Zenon DEF ClaimBatch
<1> DEFINE batch == {[player |-> p, token |-> t, payload |-> claimedPayload(p)] : p \in claimed}
<1>2. t \in Tokens /\ \A n \in Monitors : \A b \in monitor[n].batch : b.token # t
  BY Zenon DEF FreshTokens
<1>3. StoreInv'
  BY Zenon, <1>1, <1>2, ClaimExpiredOK DEF IInv, TypeOK, StoreInv
<1>4. batch \subseteq Claim
  <2>1. \A p \in Players : claimedPayload(p) \in PlayerSession \cup {None}
    BY Zenon DEF IInv, TypeOK, StoreTypeOK, claimedPayload
  <2> QED BY <1>2, <2>1 DEF Claim
<1>5. monitor' = [monitor EXCEPT ![m] = [pc |-> "next", batch |-> batch,
                                         todo |-> batch, claim |-> None]]
  BY Zenon, <1>1
<1>6. \A b \in batch : session[b.player] \in {None, b.payload}
  <2>1. \A p \in claimed : session[p] \in {None, claimedPayload(p)}
    BY Zenon DEF claimedPayload
  <2>2. ASSUME NEW b \in batch
        PROVE  session[b.player] \in {None, b.payload}
    <3>1. PICK p \in claimed : b = [player |-> p, token |-> t, payload |-> claimedPayload(p)]
      BY Zenon
    <3>2. b.player = p /\ b.payload = claimedPayload(p)
      BY Zenon, <3>1
    <3> QED BY Zenon, <2>1, <3>2
  <2> QED BY Zenon, <2>2
<1>7. session' = session /\ \A p \in Players : token'[p] \in {token[p], NoToken, t}
  BY Zenon, <1>1 DEF claimExpiredLeases
<1>a. monitor \in [Monitors -> Monitor]
  BY Zenon DEF IInv, TypeOK
<1>8. \A n \in Monitors : \A b \in monitor[n].batch : b.player \in Players /\ b.token \in Tokens
  BY Zenon, <1>a, BatchTypes
<1> HIDE DEF batch
<1>9. TypeOK' /\ CallCoherent'
  BY Zenon, <1>3, <1>4, <1>5 DEF IInv, TypeOK, StoreInv, Monitor, CallCoherent
<1>10. MonitorCoherent'
  BY Zenon, <1>5 DEF IInv, TypeOK, MonitorCoherent
<1>11. OwnedClaimIsCurrent'
  <2> SUFFICES ASSUME NEW n \in Monitors, NEW b \in monitor'[n].batch, token'[b.player] = b.token
               PROVE  session'[b.player] \in {None, b.payload}
    BY Zenon DEF OwnedClaimIsCurrent
  <2>1. CASE n = m
    BY Zenon, <2>1, <1>5, <1>6, <1>7 DEF IInv, TypeOK
  <2>2. CASE n # m
    <3>1. b \in monitor[n].batch
      BY Zenon, <2>2, <1>5, <1>a
    <3>2. b.player \in Players /\ b.token \in Tokens /\ b.token # t
      BY Zenon, <3>1, <1>2, <1>8
    <3>3. token[b.player] = b.token
      BY Zenon, <3>2, <1>7, StoreAssumption
    <3> QED BY Zenon, <3>1, <3>3, <1>7 DEF IInv, OwnedClaimIsCurrent
  <2> QED BY Zenon, <2>1, <2>2
<1>12. NotifyOnlyWithoutSession' /\ AckIsDue'
  <2> SUFFICES ASSUME NEW n \in Monitors, monitor'[n].pc \in {"notify", "ack"},
                      token'[monitor'[n].claim.player] = monitor'[n].claim.token
               PROVE  /\ monitor'[n] = monitor[n]
                      /\ token[monitor[n].claim.player] = monitor[n].claim.token
    BY Zenon, <1>7 DEF IInv, NotifyOnlyWithoutSession, AckIsDue
  <2>1. monitor'[n] = monitor[n]
    BY Zenon, <1>5 DEF IInv, TypeOK
  <2>2. monitor[n].claim \in monitor[n].batch
    BY Zenon, <2>1 DEF IInv, MonitorCoherent
  <2> QED BY Zenon, <2>1, <2>2, <1>2, <1>7, <1>8, StoreAssumption
<1> QED BY Zenon, <1>3, <1>9, <1>10, <1>11, <1>12 DEF IInv, StoreInv

\* A step in which the monitor changes its pc and claim, and the store at most
\* gives up tokens of, or ends, sessions.
LEMMA MonitorMoves ==
    ASSUME IInv, NEW m \in Monitors, UNCHANGED call, StoreInv',
           monitor' \in [Monitors -> Monitor],
           \A n \in Monitors \ {m} : monitor'[n] = monitor[n],
           monitor'[m].batch \subseteq monitor[m].batch,
           \A p \in Players : /\ session'[p] \in {session[p], None}
                              /\ token'[p] \in {token[p], NoToken},
           monitor'[m].todo \subseteq monitor'[m].batch,
           monitor'[m].pc \in {"rearm", "commit", "notify", "ack"} =>
               monitor'[m].claim \in monitor'[m].batch,
           monitor'[m].pc = "commit" => ~InState(monitor'[m].claim.payload, Online),
           monitor'[m].pc = "notify" /\ token'[monitor'[m].claim.player] = monitor'[m].claim.token
               => session'[monitor'[m].claim.player] = None,
           monitor'[m].pc = "ack" /\ token'[monitor'[m].claim.player] = monitor'[m].claim.token
               => ~InState(session'[monitor'[m].claim.player], Disconnecting)
    PROVE  IInv'
<1>a. monitor \in [Monitors -> Monitor]
  BY Zenon DEF IInv, TypeOK
<1>1. \A n \in Monitors : \A b \in monitor[n].batch : b.player \in Players /\ b.token \in Tokens
  BY Zenon, <1>a, BatchTypes
<1>2. TypeOK' /\ CallCoherent'
  BY Zenon DEF IInv, TypeOK, StoreInv, CallCoherent
<1>3. MonitorCoherent'
  <2> SUFFICES ASSUME NEW n \in Monitors
               PROVE  /\ monitor'[n].todo \subseteq monitor'[n].batch
                      /\ monitor'[n].pc \in {"rearm", "commit", "notify", "ack"} =>
                            monitor'[n].claim \in monitor'[n].batch
                      /\ monitor'[n].pc = "commit" => ~InState(monitor'[n].claim.payload, Online)
    BY Zenon DEF MonitorCoherent
  <2> QED BY Zenon DEF IInv, MonitorCoherent
<1>4. OwnedClaimIsCurrent'
  <2> SUFFICES ASSUME NEW n \in Monitors, NEW b \in monitor'[n].batch, token'[b.player] = b.token
               PROVE  session'[b.player] \in {None, b.payload}
    BY Zenon DEF OwnedClaimIsCurrent
  <2>1. b \in monitor[n].batch
    BY Zenon
  <2>2. b.player \in Players /\ b.token \in Tokens
    BY Zenon, <2>1, <1>1
  <2>3. token[b.player] = b.token
    BY Zenon, <2>2, StoreAssumption
  <2>4. session[b.player] \in {None, b.payload}
    BY Zenon, <2>1, <2>3 DEF IInv, OwnedClaimIsCurrent
  <2> QED BY Zenon, <2>2, <2>4
<1>b. ASSUME NEW n \in Monitors \ {m}, monitor[n].pc \in {"notify", "ack"},
             token'[monitor[n].claim.player] = monitor[n].claim.token
      PROVE  /\ token[monitor[n].claim.player] = monitor[n].claim.token
             /\ session'[monitor[n].claim.player] \in {session[monitor[n].claim.player], None}
  <2>1. monitor[n].claim \in monitor[n].batch
    BY Zenon, <1>b DEF IInv, MonitorCoherent
  <2>2. monitor[n].claim.player \in Players /\ monitor[n].claim.token \in Tokens
    BY Zenon, <2>1, <1>1
  <2>3. token'[monitor[n].claim.player] \in {token[monitor[n].claim.player], NoToken}
    BY Zenon, <2>2
  <2>4. session'[monitor[n].claim.player] \in {session[monitor[n].claim.player], None}
    BY Zenon, <2>2
  <2> QED BY Zenon, <1>b, <2>2, <2>3, <2>4, StoreAssumption
<1>5. NotifyOnlyWithoutSession'
  <2> SUFFICES ASSUME NEW n \in Monitors, monitor'[n].pc = "notify",
                      token'[monitor'[n].claim.player] = monitor'[n].claim.token
               PROVE  session'[monitor'[n].claim.player] = None
    BY Zenon DEF NotifyOnlyWithoutSession
  <2>1. CASE n = m
    BY Zenon, <2>1
  <2>2. CASE n # m
    <3>1. monitor'[n] = monitor[n]
      BY Zenon, <2>2
    <3>2. /\ token[monitor[n].claim.player] = monitor[n].claim.token
          /\ session'[monitor[n].claim.player] \in {session[monitor[n].claim.player], None}
      BY Zenon, <2>2, <3>1, <1>b
    <3>3. session[monitor[n].claim.player] = None
      BY Zenon, <3>1, <3>2 DEF IInv, NotifyOnlyWithoutSession
    <3> QED BY Zenon, <3>1, <3>2, <3>3
  <2> QED BY Zenon, <2>1, <2>2
<1>6. AckIsDue'
  <2> SUFFICES ASSUME NEW n \in Monitors, monitor'[n].pc = "ack",
                      token'[monitor'[n].claim.player] = monitor'[n].claim.token
               PROVE  ~InState(session'[monitor'[n].claim.player], Disconnecting)
    BY Zenon DEF AckIsDue
  <2>1. CASE n = m
    BY Zenon, <2>1
  <2>2. CASE n # m
    <3>1. monitor'[n] = monitor[n]
      BY Zenon, <2>2
    <3>2. /\ token[monitor[n].claim.player] = monitor[n].claim.token
          /\ session'[monitor[n].claim.player] \in {session[monitor[n].claim.player], None}
      BY Zenon, <2>2, <3>1, <1>b
    <3>3. ~InState(session[monitor[n].claim.player], Disconnecting)
      BY Zenon, <3>1, <3>2 DEF IInv, AckIsDue
    <3> QED BY Zenon, <3>1, <3>2, <3>3 DEF InState
  <2> QED BY Zenon, <2>1, <2>2
<1> QED BY Zenon, <1>2, <1>3, <1>4, <1>5, <1>6 DEF IInv, StoreInv

\* commitLeaseExpiry under a claim that is current deletes at most that session,
\* and a committed expiry leaves none.
LEMMA CommitExpiryOK ==
    ASSUME StoreInv, NEW p \in Players, NEW t \in Tokens,
           NEW snapshot \in PlayerSession \cup {None}, ~InState(snapshot, Online),
           token[p] = t => session[p] \in {None, snapshot},
           commitLeaseExpiry(p, t, snapshot)
    PROVE  /\ StoreInv'
           /\ \A q \in Players : session'[q] \in {session[q], None} /\ token'[q] = token[q]
           /\ token[p] = t => session'[p] = None
<1> DEFINE result == commitLeaseExpiryResult(p, t, snapshot)
<1>1. result # "superseded"
  BY Zenon DEF commitLeaseExpiryResult
<1>2. UNCHANGED <<ready, processing, token, payload, index, registry>>
  BY Zenon, <1>1 DEF commitLeaseExpiry
<1>3. CASE result = "committed"
  <2>1. session' = [session EXCEPT ![p] = None] /\ indexedGate(session[p]) = NoGate
    BY Zenon, <1>3 DEF commitLeaseExpiry, commitLeaseExpiryResult, indexedGate, InState
  <2>2. IndexExact'
    <3>1. \A q \in Players : indexedGate(session'[q]) = indexedGate(session[q])
      <4>1. indexedGate(None) = NoGate
        BY Zenon DEF indexedGate, InState
      <4> QED BY Zenon, <2>1, <4>1 DEF StoreInv, StoreTypeOK
    <3> QED BY Zenon, <1>2, <3>1 DEF StoreInv, IndexExact
  <2>3. StoreTypeOK' /\ ClaimHasToken' /\ DisconnectingIsLeased'
    BY Zenon, <1>2, <2>1 DEF StoreInv, StoreTypeOK, ClaimHasToken, DisconnectingIsLeased, InState
  <2> QED BY Zenon, <1>2, <2>1, <2>2, <2>3 DEF StoreInv, StoreTypeOK
<1>4. CASE result = "notOwned"
  BY Zenon, <1>2, <1>4 DEF commitLeaseExpiry, commitLeaseExpiryResult, StoreInv, StoreTypeOK,
                    IndexExact, ClaimHasToken, DisconnectingIsLeased
<1> QED BY Zenon, <1>1, <1>3, <1>4 DEF commitLeaseExpiryResult

\* ackLeaseClaim keeps the store invariant if the claim it ends is not the only
\* lease of a DISCONNECTING session.
LEMMA AckOK ==
    ASSUME StoreInv, NEW p \in Players, NEW t \in Tokens,
           token[p] = t => ~InState(session[p], Disconnecting),
           ackLeaseClaim(p, t)
    PROVE  /\ StoreInv' /\ session' = session
           /\ \A q \in Players : token'[q] \in {token[q], NoToken}
<1>1. CASE token[p] = t
  <2>1. dropClaim(p) /\ UNCHANGED <<session, ready, index, registry>>
    BY Zenon, <1>1 DEF ackLeaseClaim
  <2>2. StoreTypeOK' /\ ClaimHasToken' /\ IndexExact'
    BY Zenon, <2>1, DropClaimOK DEF StoreInv, StoreTypeOK, IndexExact
  <2>3. DisconnectingIsLeased'
    BY Zenon, <2>1, <1>1, DropClaimOK DEF StoreInv, DisconnectingIsLeased
  <2> QED BY Zenon, <2>1, <2>2, <2>3, DropClaimOK DEF StoreInv
<1>2. CASE token[p] # t
  BY Zenon, <1>2 DEF ackLeaseClaim, storeVars, StoreInv, StoreTypeOK, IndexExact,
              ClaimHasToken, DisconnectingIsLeased
<1> QED BY Zenon, <1>1, <1>2

\* rearmLeaseClaim puts the lease back in the step that drops the claim.
LEMMA RearmOK ==
    ASSUME StoreInv, NEW p \in Players, NEW t \in Tokens,
           NEW snapshot \in PlayerSession \cup {None},
           token[p] = t => session[p] \in {None, snapshot},
           rearmLeaseClaim(p, t, snapshot)
    PROVE  /\ StoreInv' /\ session' = session
           /\ \A q \in Players : token'[q] \in {token[q], NoToken}
<1>1. CASE token[p] = t
  <2>1. /\ dropClaim(p) /\ UNCHANGED <<session, index, registry>>
        /\ ready' = [ready EXCEPT ![p] = IF session[p] # None /\ session[p] = snapshot
                                         THEN "pending" ELSE @]
    BY Zenon, <1>1 DEF rearmLeaseClaim
  <2>2. StoreTypeOK' /\ ClaimHasToken' /\ IndexExact'
    BY Zenon, <2>1, DropClaimOK DEF StoreInv, StoreTypeOK, IndexExact, Deadline
  <2>3. DisconnectingIsLeased'
    BY Zenon, <2>1, <1>1, DropClaimOK DEF StoreInv, StoreTypeOK, DisconnectingIsLeased, InState
  <2> QED BY Zenon, <2>1, <2>2, <2>3, DropClaimOK DEF StoreInv
<1>2. CASE token[p] # t
  BY Zenon, <1>2 DEF rearmLeaseClaim, storeVars, StoreInv, StoreTypeOK, IndexExact,
              ClaimHasToken, DisconnectingIsLeased
<1> QED BY Zenon, <1>1, <1>2

\* renewLeaseClaims creates no processing entry without a token.
LEMMA RenewOK ==
    ASSUME StoreInv, NEW claims \in SUBSET Claim, renewLeaseClaims(claims)
    PROVE  StoreInv' /\ session' = session /\ token' = token
<1>1. \A c \in claims : c.token # NoToken
  BY Zenon, StoreAssumption DEF Claim
<1> QED BY Zenon, <1>1 DEF renewLeaseClaims, StoreInv, StoreTypeOK, IndexExact,
                    ClaimHasToken, DisconnectingIsLeased, Deadline

\* Every step of a lease monitor preserves the inductive invariant.
LEMMA MonitoringPreserves ==
    ASSUME IInv, NEW m \in Monitors, Monitoring(m)
    PROVE  IInv'
<1> DEFINE claim == monitor[m].claim
<1>i. /\ StoreInv /\ UNCHANGED call
      /\ monitor \in [Monitors -> Monitor]
  BY Zenon DEF IInv, TypeOK, StoreInv, Monitoring
<1>u. UNCHANGED storeVars => StoreInv' /\ session' = session /\ token' = token
  BY Zenon, <1>i DEF StoreInv, storeVars, StoreTypeOK, IndexExact, ClaimHasToken, DisconnectingIsLeased
<1>c. monitor[m].pc \in {"rearm", "commit", "notify", "ack"} =>
        /\ claim \in monitor[m].batch
        /\ claim \in Claim
        /\ claim.player \in Players /\ claim.token \in Tokens
        /\ claim.payload \in PlayerSession \cup {None}
        /\ token[claim.player] = claim.token => session[claim.player] \in {None, claim.payload}
  <2> SUFFICES ASSUME monitor[m].pc \in {"rearm", "commit", "notify", "ack"}
               PROVE  /\ claim \in monitor[m].batch
                      /\ claim \in Claim
                      /\ claim.player \in Players /\ claim.token \in Tokens
                      /\ claim.payload \in PlayerSession \cup {None}
                      /\ token[claim.player] = claim.token =>
                            session[claim.player] \in {None, claim.payload}
    BY Zenon
  <2>1. claim \in monitor[m].batch
    BY Zenon DEF IInv, MonitorCoherent
  <2>2. monitor[m].batch \in SUBSET Claim
    BY Zenon, <1>i DEF Monitor
  <2>3. claim \in Claim
    BY Zenon, <2>1, <2>2
  <2>4. /\ claim.player \in Players /\ claim.token \in Tokens
        /\ claim.payload \in PlayerSession \cup {None}
    BY Zenon, <2>3 DEF Claim
  <2>5. token[claim.player] = claim.token => session[claim.player] \in {None, claim.payload}
    BY Zenon, <2>1 DEF IInv, OwnedClaimIsCurrent
  <2> QED BY Zenon, <2>1, <2>3, <2>4, <2>5
<1>n. nextClaim(m) =>
        /\ monitor' \in [Monitors -> Monitor]
        /\ \A n \in Monitors \ {m} : monitor'[n] = monitor[n]
        /\ monitor'[m].pc = "next" /\ monitor'[m].todo = monitor[m].todo
        /\ monitor'[m].batch = monitor[m].batch
  <2> SUFFICES ASSUME nextClaim(m)
               PROVE  /\ monitor' \in [Monitors -> Monitor]
                      /\ \A n \in Monitors \ {m} : monitor'[n] = monitor[n]
                      /\ monitor'[m].pc = "next" /\ monitor'[m].todo = monitor[m].todo
                      /\ monitor'[m].batch = monitor[m].batch
    BY Zenon
  <2> DEFINE r == [monitor[m] EXCEPT !.pc = "next", !.claim = None]
  <2>1. r \in Monitor /\ r.pc = "next" /\ r.todo = monitor[m].todo /\ r.batch = monitor[m].batch
    BY Zenon, <1>i DEF Monitor
  <2>2. monitor' = [monitor EXCEPT ![m] = r]
    BY Zenon DEF nextClaim
  <2> HIDE DEF r
  <2> QED BY Zenon, <1>i, <2>1, <2>2
<1>g. \A pc \in {"notify", "ack"} : goto(m, pc) =>
        /\ monitor' \in [Monitors -> Monitor]
        /\ \A n \in Monitors \ {m} : monitor'[n] = monitor[n]
        /\ monitor'[m].pc = pc /\ monitor'[m].todo = monitor[m].todo
        /\ monitor'[m].batch = monitor[m].batch /\ monitor'[m].claim = claim
  BY <1>i DEF goto, Monitor
<1>t. monitor[m].todo \subseteq monitor[m].batch
  BY Zenon DEF IInv, MonitorCoherent
<1>e. monitor' = [monitor EXCEPT ![m] = IdleMonitor] =>
        /\ monitor' \in [Monitors -> Monitor]
        /\ \A n \in Monitors \ {m} : monitor'[n] = monitor[n]
        /\ monitor'[m].pc = "idle" /\ monitor'[m].todo = {} /\ monitor'[m].batch = {}
  <2>1. /\ IdleMonitor \in Monitor /\ IdleMonitor.pc = "idle"
        /\ IdleMonitor.todo = {} /\ IdleMonitor.batch = {}
    BY Zenon DEF IdleMonitor, Monitor
  <2> QED BY Zenon, <1>i, <2>1
<1>1. CASE ClaimBatch(m)
  BY Zenon, <1>1, <1>i, ClaimBatchPreserves
<1>2. CASE Heartbeat(m)
  <2>1. monitor[m].batch \in SUBSET Claim /\ monitor' = monitor /\ renewLeaseClaims(monitor[m].batch)
    BY Zenon, <1>2, <1>i DEF Heartbeat, Monitor
  <2>2. StoreInv' /\ session' = session /\ token' = token
    BY Zenon, <2>1, <1>i, RenewOK
  <2> QED BY Zenon, <1>i, <2>1, <2>2 DEF IInv, StoreInv, TypeOK, CallCoherent, MonitorCoherent,
                  OwnedClaimIsCurrent, NotifyOnlyWithoutSession, AckIsDue
<1>3. CASE EndRound(m) \/ AbortRound(m)
  BY Zenon, <1>3, <1>i, <1>u, <1>e, MonitorMoves DEF EndRound, AbortRound
<1>4. ASSUME NEW b \in monitor[m].todo, NEW readFails \in BOOLEAN,
             NEW afk \in {"inactive", "active", "unknown"}, Examine(m, b, readFails, afk)
      PROVE  IInv'
  <2> DEFINE pc == triage(b.payload, session[b.player] # None \/ readFails, afk)
  <2>1. /\ b \in Claim /\ b \in monitor[m].batch
        /\ b.payload \in PlayerSession \cup {None}
        /\ token[b.player] = b.token => session[b.player] \in {None, b.payload}
    <3>1. b \in monitor[m].batch /\ monitor[m].batch \subseteq Claim
      BY Zenon, <1>i, <1>t DEF Monitor
    <3>2. token[b.player] = b.token => session[b.player] \in {None, b.payload}
      BY Zenon, <3>1 DEF IInv, OwnedClaimIsCurrent
    <3> QED BY Zenon, <3>1, <3>2 DEF Claim
  <2>p. b.payload # None => b.payload.state \in {Online, Disconnecting}
    BY Zenon, <2>1 DEF PlayerSession
  <2>2. /\ pc \in {"rearm", "commit", "ack"}
        /\ pc = "commit" => ~InState(b.payload, Online)
        /\ pc = "ack" => b.payload # None /\ b.payload.state # Disconnecting
    BY Zenon, <2>p DEF triage, InState, Online, Disconnecting
  <2> HIDE DEF pc
  <2>3. /\ monitor' \in [Monitors -> Monitor]
        /\ \A n \in Monitors \ {m} : monitor'[n] = monitor[n]
        /\ monitor'[m].pc = pc /\ monitor'[m].todo = monitor[m].todo \ {b}
        /\ monitor'[m].batch = monitor[m].batch /\ monitor'[m].claim = b
    BY <1>4, <1>i, <2>1, <2>2 DEF Examine, Monitor, pc
  <2>4. pc = "ack" /\ token[b.player] = b.token => ~InState(session[b.player], Disconnecting)
    BY Zenon, <2>1, <2>2 DEF InState
  <2>5. UNCHANGED storeVars
    BY Zenon, <1>4 DEF Examine
  <2> QED BY Zenon, <1>i, <1>u, <1>t, <2>1, <2>2, <2>3, <2>4, <2>5, MonitorMoves
<1>5. CASE Rearm(m)
  <2>1. rearmLeaseClaim(claim.player, claim.token, claim.payload) /\ nextClaim(m)
        /\ monitor[m].pc = "rearm"
    BY Zenon, <1>5 DEF Rearm
  <2>2. StoreInv' /\ session' = session /\ \A q \in Players : token'[q] \in {token[q], NoToken}
    BY Zenon, <2>1, <1>i, <1>c, RearmOK
  <2> QED BY Zenon, <1>i, <1>n, <1>t, <2>1, <2>2, MonitorMoves
<1>6. CASE CommitExpiry(m)
  <2>1. /\ monitor[m].pc = "commit"
        /\ commitLeaseExpiry(claim.player, claim.token, claim.payload)
    BY Zenon, <1>6 DEF CommitExpiry
  <2>2. ~InState(claim.payload, Online)
    BY Zenon, <2>1 DEF IInv, MonitorCoherent
  <2>3. /\ StoreInv'
        /\ \A q \in Players : session'[q] \in {session[q], None} /\ token'[q] = token[q]
        /\ token[claim.player] = claim.token => session'[claim.player] = None
    BY Zenon, <2>1, <2>2, <1>i, <1>c, CommitExpiryOK
  <2>4. goto(m, "ack") \/ goto(m, "notify") \/ nextClaim(m)
    BY Zenon, <1>6 DEF CommitExpiry
  <2>5. CASE nextClaim(m)
    BY Zenon, <2>5, <2>3, <1>i, <1>n, <1>t, MonitorMoves
  <2>6. CASE goto(m, "ack")
    <3>1. /\ monitor' \in [Monitors -> Monitor]
          /\ \A n \in Monitors \ {m} : monitor'[n] = monitor[n]
          /\ monitor'[m].pc = "ack" /\ monitor'[m].todo = monitor[m].todo
          /\ monitor'[m].batch = monitor[m].batch /\ monitor'[m].claim = claim
      BY Zenon, <2>6, <1>g
    <3>2. claim \in monitor[m].batch /\ claim.player \in Players
      BY Zenon, <2>1, <1>c
    <3>3. token'[claim.player] = claim.token => ~InState(session'[claim.player], Disconnecting)
      BY Zenon, <2>3, <3>2 DEF InState
    <3> QED BY Zenon, <3>1, <3>2, <3>3, <2>3, <1>i, <1>t, MonitorMoves
  <2>7. CASE goto(m, "notify")
    <3>1. /\ monitor' \in [Monitors -> Monitor]
          /\ \A n \in Monitors \ {m} : monitor'[n] = monitor[n]
          /\ monitor'[m].pc = "notify" /\ monitor'[m].todo = monitor[m].todo
          /\ monitor'[m].batch = monitor[m].batch /\ monitor'[m].claim = claim
      BY Zenon, <2>7, <1>g
    <3>2. claim \in monitor[m].batch /\ claim.player \in Players
      BY Zenon, <2>1, <1>c
    <3>3. token'[claim.player] = claim.token => session'[claim.player] = None
      BY Zenon, <2>3, <3>2
    <3> QED BY Zenon, <3>1, <3>2, <3>3, <2>3, <1>i, <1>t, MonitorMoves
  <2> QED BY Zenon, <2>4, <2>5, <2>6, <2>7
<1>7. ASSUME NEW published \in BOOLEAN, NEW left \in BOOLEAN, Notify(m, published, left)
      PROVE  IInv'
  <2>1. monitor[m].pc = "notify" /\ UNCHANGED storeVars /\ (goto(m, "ack") \/ nextClaim(m))
    BY Zenon, <1>7 DEF Notify
  <2>2. token[claim.player] = claim.token => session[claim.player] = None
    BY Zenon, <2>1 DEF IInv, NotifyOnlyWithoutSession
  <2>3. CASE goto(m, "ack")
    <3>1. /\ monitor' \in [Monitors -> Monitor]
          /\ \A n \in Monitors \ {m} : monitor'[n] = monitor[n]
          /\ monitor'[m].pc = "ack" /\ monitor'[m].todo = monitor[m].todo
          /\ monitor'[m].batch = monitor[m].batch /\ monitor'[m].claim = claim
      BY Zenon, <2>3, <1>g
    <3>2. claim \in monitor[m].batch /\ claim.player \in Players
      BY Zenon, <2>1, <1>c
    <3>3. StoreInv' /\ session' = session /\ token' = token
      BY Zenon, <2>1, <1>u
    <3>4. token'[claim.player] = claim.token => ~InState(session'[claim.player], Disconnecting)
      BY Zenon, <2>2, <3>3 DEF InState
    <3> QED BY Zenon, <3>1, <3>2, <3>3, <3>4, <1>i, <1>t, MonitorMoves
  <2>4. CASE nextClaim(m)
    BY Zenon, <2>1, <2>4, <1>i, <1>u, <1>n, <1>t, MonitorMoves
  <2> QED BY Zenon, <2>1, <2>3, <2>4
<1>8. CASE Ack(m)
  <2>1. monitor[m].pc = "ack" /\ ackLeaseClaim(claim.player, claim.token) /\ nextClaim(m)
    BY Zenon, <1>8 DEF Ack
  <2>2. token[claim.player] = claim.token => ~InState(session[claim.player], Disconnecting)
    BY Zenon, <2>1 DEF IInv, AckIsDue
  <2>3. StoreInv' /\ session' = session /\ \A q \in Players : token'[q] \in {token[q], NoToken}
    BY Zenon, <2>1, <2>2, <1>i, <1>c, AckOK
  <2> QED BY Zenon, <1>i, <1>n, <1>t, <2>1, <2>3, MonitorMoves
<1>9. CASE AbandonClaim(m)
  BY Zenon, <1>9, <1>i, <1>u, <1>n, <1>t, MonitorMoves DEF AbandonClaim
<1> QED
  BY Zenon, <1>1, <1>2, <1>3, <1>4, <1>5, <1>6, <1>7, <1>8, <1>9 DEF Monitoring, MonitorStep

-----------------------------------------------------------------------------
(* Time, the initial states and the theorems *)

\* Deadlines that pass preserve the inductive invariant.
LEMMA TimePreserves == ASSUME IInv, Time PROVE IInv'
<1>1. PICK p \in Players : LeaseFallsDue(p) \/ ClaimFallsDue(p)
  BY Zenon DEF Time
<1>2. UNCHANGED <<session, token, payload, index, registry, call, monitor>>
  BY Zenon, <1>1 DEF LeaseFallsDue, ClaimFallsDue, Time
<1>3. StoreTypeOK' /\ ClaimHasToken' /\ DisconnectingIsLeased'
  BY Zenon, <1>1, <1>2 DEF LeaseFallsDue, ClaimFallsDue, IInv, TypeOK, StoreTypeOK, Deadline,
                    ClaimHasToken, DisconnectingIsLeased
<1> QED
  BY Zenon, <1>2, <1>3 DEF IInv, TypeOK, CallCoherent, MonitorCoherent, IndexExact,
                    OwnedClaimIsCurrent, NotifyOnlyWithoutSession, AckIsDue

\* The inductive invariant holds when the service starts over the data of
\* earlier processes.
LEMMA InitEstablishes == ASSUME Init PROVE IInv
<1>1. session \in [Players -> PlayerSession \cup {None}]
      /\ \A p \in Players : ~InState(session[p], Disconnecting)
  BY StoreAssumption DEF Init, PlayerSession, InState, Online, Disconnecting
<1>2. StoreTypeOK /\ IndexExact /\ ClaimHasToken /\ DisconnectingIsLeased
  BY Zenon, <1>1 DEF Init, StoreTypeOK, IndexExact, ClaimHasToken, DisconnectingIsLeased, Deadline
<1>3. call \in [Calls -> Call] /\ CallCoherent
  BY Zenon DEF Init, IdleCall, Call, CallCoherent
<1>4. monitor \in [Monitors -> Monitor] /\ MonitorCoherent
  BY Zenon DEF Init, IdleMonitor, Monitor, MonitorCoherent
<1>5. OwnedClaimIsCurrent /\ NotifyOnlyWithoutSession /\ AckIsDue
  BY Zenon DEF Init, IdleMonitor, OwnedClaimIsCurrent, NotifyOnlyWithoutSession, AckIsDue
<1> QED BY Zenon, <1>2, <1>3, <1>4, <1>5 DEF IInv, TypeOK

\* Every step of the service preserves the inductive invariant.
LEMMA NextPreserves == ASSUME IInv, [Next]_vars PROVE IInv'
<1>1. CASE Next
  BY Zenon, <1>1, RpcPreserves, MonitoringPreserves, TimePreserves DEF Next
<1>2. CASE UNCHANGED vars
  BY Zenon, <1>2 DEF vars, IInv, TypeOK, StoreTypeOK, CallCoherent, MonitorCoherent, IndexExact,
              ClaimHasToken, OwnedClaimIsCurrent, DisconnectingIsLeased,
              NotifyOnlyWithoutSession, AckIsDue
<1> QED BY Zenon, <1>1, <1>2

\* IInv is an inductive invariant of the service.
THEOREM Invariance == Spec => []IInv
BY InitEstablishes, NextPreserves, PTL DEF Spec

\* The Redis keys, the handlers in flight and the monitors keep their types.
THEOREM TypeCorrect == Spec => []TypeOK
<1>1. IInv => TypeOK
  BY Zenon DEF IInv
<1> QED BY <1>1, Invariance, PTL

\* The gate index (player:gate_index:*) is exact at every moment, for any
\* number of players, gates, handlers in flight and monitors.
THEOREM GateIndexIsExact == Spec => []IndexExact
<1>1. IInv => IndexExact
  BY Zenon DEF IInv
<1> QED BY <1>1, Invariance, PTL

\* Every DISCONNECTING session has a lease, ready or claimed, that will end it.
THEOREM EveryDisconnectIsLeased == Spec => []DisconnectingIsLeased
<1>1. IInv => DisconnectingIsLeased
  BY Zenon DEF IInv
<1> QED BY <1>1, Invariance, PTL

\* Expiry notifications under a standing claim are sent with no session alive.
THEOREM NotificationsAreForEndedSessions == Spec => []NotifyOnlyWithoutSession
<1>1. IInv => NotifyOnlyWithoutSession
  BY Zenon DEF IInv
<1> QED BY <1>1, Invariance, PTL

\* A processing entry and its token come and go together.
THEOREM ClaimsHaveTokens == Spec => []ClaimHasToken
<1>1. IInv => ClaimHasToken
  BY Zenon DEF IInv
<1> QED BY <1>1, Invariance, PTL

\* Of a monitor's steps only commitLeaseExpiry deletes a session, and the claim
\* it compares with was DISCONNECTING.
LEMMA MonitorsSpare == ASSUME IInv, [Next]_vars PROVE MonitorSparesOnlineStep
<1> SUFFICES ASSUME NEW m \in Monitors, Monitoring(m)
             PROVE  \A p \in Players : InState(session[p], Online) => session'[p] = session[p]
  BY Zenon DEF Next, Rpc, Time, vars, MonitorSparesOnlineStep
<1>1. CASE CommitExpiry(m)
  <2> DEFINE claim == monitor[m].claim
  <2>1. ~InState(claim.payload, Online)
    BY Zenon, <1>1 DEF CommitExpiry, IInv, MonitorCoherent
  <2>2. session' = session \/ /\ session' = [session EXCEPT ![claim.player] = None]
                              /\ session[claim.player] \in {None, claim.payload}
    BY Zenon, <1>1 DEF CommitExpiry, commitLeaseExpiry, commitLeaseExpiryResult
  <2> QED BY Zenon, <2>1, <2>2 DEF IInv, TypeOK, StoreTypeOK, InState
<1>2. CASE ~CommitExpiry(m)
  BY Zenon, <1>2 DEF Monitoring, MonitorStep, ClaimBatch, claimExpiredLeases, Heartbeat,
              renewLeaseClaims, EndRound, Examine, Rearm, rearmLeaseClaim, Notify, Ack,
              ackLeaseClaim, AbandonClaim, AbortRound, storeVars
<1> QED BY Zenon, <1>1, <1>2

\* No lease monitor ever deletes or changes an ONLINE session.
THEOREM OnlineSessionsAreSpared == Spec => MonitorSparesOnline
BY Invariance, MonitorsSpare, PTL DEF Spec, MonitorSparesOnline

\* The scripts of the handlers cancel a claim only over a session, or where none
\* stands; under a notification there is a claim and no session.
LEMMA ClaimsAreKept == ASSUME IInv, [Next]_vars PROVE NotifierKeepsClaimStep
<1> SUFFICES ASSUME monitor' = monitor, NEW m \in Monitors, monitor[m].pc = "notify",
                    token[monitor[m].claim.player] = monitor[m].claim.token
             PROVE  token'[monitor[m].claim.player] = monitor[m].claim.token
  BY Zenon DEF NotifierKeepsClaimStep
<1> DEFINE p == monitor[m].claim.player
<1>1. monitor[m].claim \in monitor[m].batch
  BY Zenon DEF IInv, MonitorCoherent
<1>2. p \in Players /\ token[p] \in Tokens
  BY Zenon, <1>1, BatchTypes DEF IInv, TypeOK
<1>3. session[p] = None /\ token[p] # NoToken
  BY Zenon, <1>2, StoreAssumption DEF IInv, NotifyOnlyWithoutSession
<1>s. token \in [Players -> Tokens \cup {NoToken}]
  BY Zenon DEF IInv, TypeOK, StoreTypeOK
<1> SUFFICES token'[p] = token[p]
  BY Zenon
<1> HIDE DEF p
<1>r. ASSUME NEW c \in Calls, CommitReplace(c) PROVE token'[p] = token[p]
  <2>1. CASE call[c].player = p
    BY Zenon, <1>r, <1>3, <2>1 DEF CommitReplace, replaceSessionAndCancelLease, replaceSessionResult,
                            CleanupPending, storeVars
  <2>2. CASE call[c].player # p
    BY Zenon, <1>r, <1>2, <1>s, <2>2 DEF CommitReplace, replaceSessionAndCancelLease, dropClaim, storeVars
  <2> QED BY Zenon, <2>1, <2>2
<1>d. ASSUME NEW c \in Calls, CommitDisconnecting(c) PROVE token'[p] = token[p]
  <2>1. call[c].expected # None
    BY Zenon, <1>d, NoneAssumption DEF CommitDisconnecting, IInv, CallCoherent
  <2> QED BY Zenon, <1>d, <1>2, <1>3, <1>s, <2>1 DEF CommitDisconnecting, transitionToDisconnecting,
                                              dropClaim, storeVars
<1>o. ASSUME NEW c \in Calls, CommitMarkOffline(c) PROVE token'[p] = token[p]
  <2>1. call[c].expected # None
    BY Zenon, <1>o, NoneAssumption DEF CommitMarkOffline, IInv, CallCoherent
  <2> QED BY Zenon, <1>o, <1>2, <1>3, <1>s, <2>1 DEF CommitMarkOffline, deleteSessionIfUnchanged,
                                              dropClaim, storeVars
<1>e. ASSUME NEW c \in Calls, Rpc(c), ~CommitReplace(c), ~CommitDisconnecting(c),
             ~CommitMarkOffline(c)
      PROVE  token' = token
  <2>1. ASSUME NEW q \in Players, BeginRpc(c, q) PROVE token' = token
    <3>1. \A op, r, next : begin(c, op, r, next) => token' = token
      BY Zenon DEF begin, storeVars
    <3>2. \A s : SetSession(c, q, s) => token' = token
      BY <3>1, Zenon DEF SetSession
    <3>3. \A sid, gate, account, gen : Reconnect(c, q, sid, gate, account, gen) => token' = token
      BY <3>1, Zenon DEF Reconnect
    <3>4. \A sid, gate : SetDisconnecting(c, q, sid, gate) => token' = token
      BY <3>1, Zenon DEF SetDisconnecting
    <3>5. \A sid, ver, gate : MarkOffline(c, q, sid, ver, gate) => token' = token
      BY <3>1, Zenon DEF MarkOffline
    <3> QED BY <2>1, <3>2, <3>3, <3>4, <3>5, Zenon DEF BeginRpc
  <2>2. CASE EnqueueCleanup(c)
    BY Zenon, <2>2 DEF EnqueueCleanup, enqueueOfflineCleanup, storeVars
  <2>3. CASE AbortCall(c) \/ \E left \in BOOLEAN : LeaveSceneOrEnqueue(c, left)
    BY Zenon, <2>3 DEF LeaveSceneOrEnqueue, AbortCall, storeVars
  <2> QED BY Zenon, <1>e, <2>1, <2>2, <2>3 DEF Rpc, RpcStep
<1>t. ASSUME Time PROVE token' = token
  BY Zenon, <1>t DEF Time, LeaseFallsDue, ClaimFallsDue
<1>m. ASSUME NEW n \in Monitors, Monitoring(n) PROVE token' = token
  <2>1. monitor[n] \in Monitor
    BY Zenon DEF IInv, TypeOK
  <2>2. ~ClaimBatch(n)
    <3> SUFFICES ASSUME ClaimBatch(n) PROVE FALSE
      BY Zenon
    <3>1. monitor[n].pc = "idle"
      BY Zenon DEF ClaimBatch
    <3>2. PICK batch : monitor' = [monitor EXCEPT ![n] = [pc |-> "next", batch |-> batch,
                                                          todo |-> batch, claim |-> None]]
      BY Zenon DEF ClaimBatch
    <3> DEFINE round == [pc |-> "next", batch |-> batch, todo |-> batch, claim |-> None]
    <3>3. round.pc = "next"
      BY Zenon
    <3>4. monitor' = [monitor EXCEPT ![n] = round]
      BY Zenon, <3>2
    <3> HIDE DEF round
    <3>5. monitor \in [Monitors -> Monitor]
      BY Zenon DEF IInv, TypeOK
    <3>6. monitor'[n] = round
      BY Zenon, <3>4, <3>5
    <3> QED BY Zenon, <3>1, <3>3, <3>6
  <2>3. ~(monitor[n].pc # "next" /\ nextClaim(n))
    <3> SUFFICES ASSUME monitor[n].pc # "next", nextClaim(n) PROVE FALSE
      BY Zenon
    <3>1. monitor'[n] = [monitor[n] EXCEPT !.pc = "next", !.claim = None]
      BY Zenon DEF nextClaim, IInv, TypeOK
    <3> QED BY Zenon, <2>1, <3>1 DEF Monitor
  <2>4. ~Rearm(n) /\ ~Ack(n)
    BY Zenon, <2>3 DEF Rearm, Ack
  <2>5. ~CommitExpiry(n)
    <3> SUFFICES ASSUME CommitExpiry(n) PROVE FALSE
      BY Zenon
    <3>1. monitor[n].pc = "commit"
      BY Zenon DEF CommitExpiry
    <3>2. goto(n, "ack") \/ goto(n, "notify")
      BY Zenon, <2>3, <3>1 DEF CommitExpiry
    <3>3. monitor'[n].pc \in {"ack", "notify"}
      BY <2>1, <3>2 DEF goto, IInv, TypeOK, Monitor
    <3> QED BY Zenon, <3>1, <3>3
  <2>6. CASE Heartbeat(n)
    BY Zenon, <2>6 DEF Heartbeat, renewLeaseClaims
  <2>7. ASSUME NEW claim, NEW readFails, NEW afk, Examine(n, claim, readFails, afk)
        PROVE  token' = token
    <3>1. UNCHANGED storeVars
      BY <2>7, Zenon DEF Examine
    <3> QED BY Zenon, <3>1 DEF storeVars
  <2>8. CASE EndRound(n) \/ AbandonClaim(n) \/ AbortRound(n)
             \/ \E published, left \in BOOLEAN : Notify(n, published, left)
    BY Zenon, <2>8 DEF EndRound, AbandonClaim, AbortRound, Notify, storeVars
  <2> QED BY Zenon, <1>m, <2>2, <2>4, <2>5, <2>6, <2>7, <2>8 DEF Monitoring, MonitorStep
<1> QED BY Zenon, <1>r, <1>d, <1>o, <1>e, <1>t, <1>m DEF Next, vars

\* No request takes the claim from a monitor that is notifying.
THEOREM NotifiersKeepTheirClaims == Spec => NotifierKeepsClaim
BY Invariance, ClaimsAreKept, PTL DEF Spec, NotifierKeepsClaim

\* Only the two scripts that write sessions change a live record, and they write
\* what a handler allowed over these very bytes.
LEMMA RecordsAdvance == ASSUME IInv, [Next]_vars PROVE RecordAdvancesStep
<1> DEFINE Kept(p) == session'[p] \in {session[p], None}
<1>m. ASSUME NEW m \in Monitors, Monitoring(m) PROVE \A p \in Players : Kept(p)
  BY Zenon, <1>m DEF Monitoring, MonitorStep, ClaimBatch, claimExpiredLeases, Heartbeat,
              renewLeaseClaims, EndRound, Examine, Rearm, rearmLeaseClaim, Notify, Ack,
              ackLeaseClaim, AbandonClaim, AbortRound, storeVars, CommitExpiry,
              commitLeaseExpiry, IInv, TypeOK, StoreTypeOK
<1>t. ASSUME Time PROVE \A p \in Players : Kept(p)
  BY Zenon, <1>t DEF Time, LeaseFallsDue, ClaimFallsDue
<1>r. ASSUME NEW c \in Calls, CommitReplace(c) PROVE RecordAdvancesStep
  <2>1. /\ call[c].next \in PlayerSession
        /\ setSessionAccepts(call[c].expected, call[c].next)
    BY Zenon, <1>r DEF CommitReplace, IInv, CallCoherent
  <2>2. session' = session \/ /\ session' = [session EXCEPT ![call[c].player] = call[c].next]
                              /\ session[call[c].player] = call[c].expected
    BY Zenon, <1>r DEF CommitReplace, replaceSessionAndCancelLease, replaceSessionResult, storeVars
  <2> QED
    BY Zenon, <2>1, <2>2 DEF RecordAdvancesStep, setSessionAccepts, IInv, TypeOK, StoreTypeOK
<1>d. ASSUME NEW c \in Calls, CommitDisconnecting(c) PROVE RecordAdvancesStep
  <2>1. /\ call[c].next \in PlayerSession
        /\ call[c].next.state = Disconnecting
        /\ call[c].next.ver = call[c].expected.ver + 1
        /\ call[c].next.gen = call[c].expected.gen
    BY Zenon, <1>d DEF CommitDisconnecting, IInv, CallCoherent
  <2>2. session' = session \/ /\ session' = [session EXCEPT ![call[c].player] = call[c].next]
                              /\ session[call[c].player] = call[c].expected
    BY Zenon, <1>d DEF CommitDisconnecting, transitionToDisconnecting, storeVars
  <2> QED
    BY Zenon, <2>1, <2>2, NoneAssumption DEF RecordAdvancesStep, InState, IInv, TypeOK, StoreTypeOK
<1>o. ASSUME NEW c \in Calls, Rpc(c), ~CommitReplace(c), ~CommitDisconnecting(c)
      PROVE  \A p \in Players : Kept(p)
  <2>1. CASE CommitMarkOffline(c)
    BY Zenon, <2>1 DEF CommitMarkOffline, deleteSessionIfUnchanged, storeVars, IInv, TypeOK, StoreTypeOK
  <2>2. CASE ~CommitMarkOffline(c)
    BY Zenon, <1>o, <2>2 DEF Rpc, RpcStep, BeginRpc, SetSession, Reconnect, SetDisconnecting, MarkOffline,
       begin, LeaveSceneOrEnqueue, EnqueueCleanup, enqueueOfflineCleanup, AbortCall, storeVars
  <2> QED BY Zenon, <2>1, <2>2
<1>k. (\A p \in Players : Kept(p)) => RecordAdvancesStep
  BY Zenon DEF RecordAdvancesStep
<1> QED BY Zenon, <1>m, <1>t, <1>r, <1>d, <1>o, <1>k DEF Next, vars

\* A live record only ever moves to its next version, and its login generation
\* never goes back, whatever handlers race for it.
THEOREM LiveRecordsAdvance == Spec => RecordAdvances
BY Invariance, RecordsAdvance, PTL DEF Spec, RecordAdvances
=============================================================================
