---------------------------- MODULE LocatorService ----------------------------
(***************************************************************************)
(* player_locator as deployed: session RPCs and lease monitors of several  *)
(* replicas, interleaved over one Redis.                                   *)
(***************************************************************************)
EXTENDS SessionRpc, LeaseMonitor

vars == <<session, ready, processing, token, payload, index, registry, call, monitor>>

\* Redis outlives the processes.  Besides an empty store the service may start
\* over ONLINE sessions, and over lease entries that a release before the
\* atomic scripts left behind (leasemonitor.go:150-158 still handles them).
Init ==
    /\ session \in [Players -> {None} \cup
          [sid : SessionIds, ver : {1}, gen : {0}, gate : Gates,
           account : Accounts, state : {Online}]]
    /\ ready \in [Players -> {"none", "due"}]
    /\ processing = [p \in Players |-> "none"]
    /\ token = [p \in Players |-> NoToken]
    /\ payload = [p \in Players |-> None]
    /\ index = [g \in Gates |-> {p \in Players : indexedGate(session[p]) = g}]
    /\ registry = {g \in Gates : index[g] # {}}
    /\ call = [c \in Calls |-> IdleCall]
    /\ monitor = [m \in Monitors |-> IdleMonitor]

Rpc(c) == RpcStep(c) /\ UNCHANGED monitor

Monitoring(m) == MonitorStep(m) /\ UNCHANGED call

Time ==
    /\ \E p \in Players : LeaseFallsDue(p) \/ ClaimFallsDue(p)
    /\ UNCHANGED <<call, monitor>>

Next ==
    \/ \E c \in Calls : Rpc(c)
    \/ \E m \in Monitors : Monitoring(m)
    \/ Time

Spec == Init /\ [][Next]_vars

-----------------------------------------------------------------------------

\* The store holds only records the protobuf can carry and registers only real
\* gates; handlers and monitors are at one of the code's Redis calls
\* (session_cas.go:62-76 never registers the empty gate id).
TypeOK ==
    /\ StoreTypeOK
    /\ call \in [Calls -> Call]
    /\ monitor \in [Monitors -> Monitor]

\* I1 and I2 of the gate index: a player is in a gate's index exactly while
\* its session is ONLINE on that gate, and a gate with members is registered.
\* The scripts keep this although the index keys are computed from a record
\* read before the script runs, and although the lease scripts never touch
\* the index (session_cas.go:30-38).
IndexExact ==
    /\ \A p \in Players, g \in Gates : p \in index[g] <=> indexedGate(session[p]) = g
    /\ \A g \in Gates : index[g] # {} => g \in registry

\* A DISCONNECTING session always has a lease entry, ready or claimed: nothing
\* else would ever end it, its key has no TTL (setdisconnectinglogic.go:125-131).
DisconnectingIsLeased ==
    \A p \in Players : InState(session[p], Disconnecting) =>
        ready[p] # "none" \/ processing[p] # "none"

\* A player is in the processing ZSET exactly while it has a claim token.  A
\* processing entry without one could be neither acknowledged nor renewed, and
\* would fail the player's next login until it is claimed again; the heartbeat
\* renews claims of its batch that were handled long ago (session_cas.go:177-188).
ClaimHasToken ==
    \A p \in Players : processing[p] # "none" <=> token[p] # NoToken

\* While a monitor whose claim still stands is telling gate and scene that the
\* session is over, no session exists: the commit has deleted it
\* (session_cas.go:149-165), and no script makes a new one under a claim.
NotifyOnlyWithoutSession ==
    \A m \in Monitors :
        monitor[m].pc = "notify" /\ token[monitor[m].claim.player] = monitor[m].claim.token
            => session[monitor[m].claim.player] = None

\* A claim that still owns its token is about the session as it is now, or the
\* session is gone: whoever replaces a session cancels the claim on it in the
\* same script, so a stale snapshot never comes with a valid token.
OwnedClaimIsCurrent ==
    \A m \in Monitors : \A b \in monitor[m].batch :
        token[b.player] = b.token => session[b.player] \in {None, b.payload}

MonitorSparesOnlineStep ==
    (\E m \in Monitors : monitor'[m] # monitor[m]) =>
        \A p \in Players : InState(session[p], Online) => session'[p] = session[p]

\* No step of a lease monitor, however stale its claim, touches an ONLINE
\* session (session_cas.go:149-151).
MonitorSparesOnline == [][MonitorSparesOnlineStep]_vars

NotifierKeepsClaimStep ==
    monitor' = monitor =>
        \A m \in Monitors :
            LET claim == monitor[m].claim IN
            monitor[m].pc = "notify" /\ token[claim.player] = claim.token
                => token'[claim.player] = claim.token

\* Nobody but a monitor takes away the claim under which a monitor is notifying:
\* a login, logout or disconnect that cancelled it would leave nobody to retry
\* the notifications, and the old scene would keep the player for ever
\* (session_cas.go:44-47).
NotifierKeepsClaim == [][NotifierKeepsClaimStep]_vars

RecordAdvancesStep ==
    \A p \in Players :
        session[p] # None /\ session'[p] # None /\ session'[p] # session[p] =>
            /\ session'[p].ver = session[p].ver + 1
            /\ \/ loginGenerationAdvances(session[p].gen, session'[p].gen)
               \/ /\ InState(session'[p], Disconnecting)
                  /\ session'[p].gen = session[p].gen

\* As long as a record lives, each write to it is the next version, and two
\* non-zero generations only ever increase (setsessionlogic.go:107-113); only
\* the disconnect keeps the generation.
RecordAdvances == [][RecordAdvancesStep]_vars

CleanupEndsWithAckStep ==
    \A p \in Players :
        session[p] = None /\ payload[p] # None /\ payload'[p] = None =>
            \E m \in Monitors : /\ monitor[m].pc = "ack"
                                /\ monitor[m].claim.player = p
                                /\ monitor'[m].pc = "next"

\* The queued cleanup of a session that is gone leaves the queue only through
\* the acknowledgement that follows successful notifications
\* (leasemonitor.go:162-166: re-arming it would lose it).
CleanupEndsWithAck == [][CleanupEndsWithAckStep]_vars

-----------------------------------------------------------------------------
(* What makes the invariants above inductive *)

\* A handler in flight submits what its checks allowed over what it read.
CallCoherent ==
    \A c \in Calls :
        /\ call[c].op # "idle" => call[c].player \in Players
        /\ call[c].op = "replace" =>
              /\ call[c].next \in PlayerSession
              /\ call[c].next.state = Online
              /\ setSessionAccepts(call[c].expected, call[c].next)
        /\ call[c].op = "disconnect" =>
              /\ call[c].expected \in PlayerSession
              /\ call[c].next \in PlayerSession
              /\ call[c].next.state = Disconnecting
              /\ call[c].next.ver = call[c].expected.ver + 1
              /\ call[c].next.gen = call[c].expected.gen
        /\ call[c].op \in {"delete", "leave", "enqueue"} =>
              /\ call[c].expected \in PlayerSession
              /\ call[c].next \in PlayerSession

\* A monitor works on a claim of its batch, and ends only DISCONNECTING sessions.
MonitorCoherent ==
    \A m \in Monitors :
        /\ monitor[m].todo \subseteq monitor[m].batch
        /\ monitor[m].pc \in {"rearm", "commit", "notify", "ack"} =>
              monitor[m].claim \in monitor[m].batch
        /\ monitor[m].pc = "commit" => ~InState(monitor[m].claim.payload, Online)

\* An acknowledged claim never belongs to a session that is still waiting.
AckIsDue ==
    \A m \in Monitors :
        monitor[m].pc = "ack" /\ token[monitor[m].claim.player] = monitor[m].claim.token
            => ~InState(session[monitor[m].claim.player], Disconnecting)

IInv ==
    /\ TypeOK /\ CallCoherent /\ MonitorCoherent
    /\ IndexExact /\ ClaimHasToken /\ OwnedClaimIsCurrent
    /\ DisconnectingIsLeased /\ NotifyOnlyWithoutSession /\ AckIsDue
=============================================================================
