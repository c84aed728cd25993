---------------------------- MODULE SessionCleanup ----------------------------
(***************************************************************************)
(* player_locator composed with the location kept by scene_manager: what   *)
(* the end of a session does to the place of its player.                   *)
(*                                                                         *)
(* Login is present through what it guarantees: one login of a player at a *)
(* time, generations that grow (mint), and an EnterScene for a session it  *)
(* has recorded.  That request, and those of the scene node holding the    *)
(* player, are on their way for as long as they like: nobody looks at the  *)
(* record again when they arrive.                                          *)
(***************************************************************************)
EXTENDS LocatorService

VARIABLES
    location, released,     \* see ScenePlacement
    entering,               \* identities of the EnterScene requests in flight
    overtaken,              \* LeaveScene callers whose location was written meanwhile
    minted,                 \* last login generation minted per player
    lost                    \* history: players whose location nobody has to delete

ASSUME CallersApart == Calls \cap Monitors = {}

INSTANCE ScenePlacement

placeVars == <<location, released>>
flightVars == <<entering, overtaken>>
cleanupVars == <<vars, placeVars, flightVars, minted, lost>>

identityOf(s) == [sid |-> s.sid, gen |-> s.gen]

\* The location of p, and those that requests on their way may still write.
placements(p) == entering[p] \cup ({location[p]} \ {None})

CleanupInit ==
    /\ Init /\ SceneInit
    /\ entering = [p \in Players |->
                     IF session[p] = None THEN {} ELSE {identityOf(session[p])}]
    /\ overtaken = {}
    /\ minted = [p \in Players |-> 0]
    /\ lost = [p \in Players |-> FALSE]

-----------------------------------------------------------------------------

\* Mutant: the generation may repeat or go back.
mint_anyGeneration(next) == UNCHANGED minted

\* A login carries a newly minted generation, or none; a replay carries its own.
mint(next) ==
    LET p == next.player
        gen == next.next.gen IN
    /\ next.op = "replace" /\ next.next # next.expected /\ gen # 0 => gen > minted[p]
    /\ minted' = [minted EXCEPT ![p] = IF next.op = "replace" /\ gen > @ THEN gen ELSE @]

\* Login holds the player lock over the chain that ends in SetSession or
\* Reconnect.
playerLockFree(p) == \A c \in Calls : ~(call[c].op = "replace" /\ call[c].player = p)

BeginCall(c, p) ==
    /\ BeginRpc(c, p)
    /\ call'[c].op = "replace" => playerLockFree(p)
    /\ mint(call'[c])
    /\ UNCHANGED <<monitor, placeVars, flightVars, lost>>

\* The record is written: the login goes on to EnterScene, and the end of this
\* session, if it has a generation, answers for whatever location there is.
CommitLogin(c) ==
    LET p == call[c].player
        next == call[c].next IN
    /\ CommitReplace(c)
    /\ IF session'[p] = next
       THEN /\ entering' = [entering EXCEPT ![p] = @ \cup {identityOf(next)}]
            /\ lost' = [lost EXCEPT ![p] = @ /\ next.gen = 0]
       ELSE UNCHANGED <<entering, lost>>
    /\ UNCHANGED <<monitor, placeVars, overtaken, minted>>

CommitCall(c) ==
    /\ \/ CommitDisconnecting(c)
       \/ CommitMarkOffline(c)
       \/ EnqueueCleanup(c)
    /\ UNCHANGED <<monitor, placeVars, flightVars, minted, lost>>

\* Nobody has to delete the location of a player without a session if why.
giveUp(p, why) == lost' = [lost EXCEPT ![p] = @ \/ (why /\ session[p] = None)]

\* MarkOffline calls LeaveScene for the record it has deleted.
LeaveCall(c, ok) ==
    LET id == identityOf(call[c].expected) IN
    /\ LeaveSceneOrEnqueue(c, ok)
    /\ LeaveScene(call[c].player, id, c \in overtaken, ok)
    /\ overtaken' = overtaken \ {c}
    /\ giveUp(call[c].player, ok /\ id.gen = 0)
    /\ UNCHANGED <<monitor, entering, minted>>

\* A handler that dies after deleting a session, or cannot enqueue, says
\* "scene cleanup LOST", or nothing.
DropCall(c) ==
    /\ AbortCall(c)
    /\ overtaken' = overtaken \ {c}
    /\ giveUp(call[c].player, call[c].op \in {"leave", "enqueue"})
    /\ UNCHANGED <<monitor, placeVars, entering, minted>>

-----------------------------------------------------------------------------

\* The monitor outside its notifications.  A re-armed cleanup without a session
\* is dropped by the script (CleanupEndsWithAck).
QuietMonitor(m) ==
    /\ \/ ClaimBatch(m) \/ Heartbeat(m) \/ EndRound(m)
       \/ \E claim \in monitor[m].todo, readFails \in BOOLEAN,
             afk \in {"inactive", "active", "unknown"} : Examine(m, claim, readFails, afk)
       \/ Rearm(m) \/ CommitExpiry(m) \/ Ack(m) \/ AbandonClaim(m) \/ AbortRound(m)
    /\ lost' = [p \in Players |-> \/ lost[p]
                                  \/ /\ monitor[m].pc = "rearm" /\ session[p] = None
                                     /\ payload[p] # None /\ payload'[p] = None]
    /\ overtaken' = overtaken \ {n \in Monitors : monitor'[n].pc # "notify"}
    /\ UNCHANGED <<call, placeVars, entering, minted>>

NotifyScene(m, published, ok) ==
    LET c == monitor[m].claim
        id == identityOf(c.payload) IN
    /\ Notify(m, published, ok)
    /\ LeaveScene(c.player, id, m \in overtaken, ok)
    /\ overtaken' = overtaken \ {m}
    /\ giveUp(c.player, ok /\ id.gen = 0)
    /\ UNCHANGED <<call, entering, minted>>

-----------------------------------------------------------------------------
(* scene_manager and the scene node *)

\* Whoever is between the look-up of the scene id and the delete.
LeaveCallers(p) ==
    {c \in Calls : call[c].op = "leave" /\ call[c].player = p} \cup
    {m \in Monitors : monitor[m].pc = "notify" /\ monitor[m].claim.player = p}

\* An EnterScene arrives.  The login has checked its connection's fence before
\* it sent the request; scene_manager does not know of sessions, and without
\* one nobody is left to delete what it writes.
Enter(p, id) ==
    /\ id \in entering[p]
    /\ EnterScene(p, id)
    /\ entering' = [entering EXCEPT ![p] = @ \ {id}]
    /\ overtaken' = overtaken \cup LeaveCallers(p)
    /\ giveUp(p, TRUE)
    /\ UNCHANGED <<vars, minted>>

\* The scene node holding the player asks for another scene, in the name of the
\* session that placed the player and whatever has become of it.
ChangeScene(p) ==
    /\ location[p] # None /\ ~released[p]
    /\ entering' = [entering EXCEPT ![p] = @ \cup {location[p]}]
    /\ UNCHANGED <<vars, placeVars, overtaken, minted, lost>>

Holder(p) == HolderReleases(p) /\ UNCHANGED <<vars, flightVars, minted, lost>>

CleanupNext ==
    \/ \E c \in Calls :
          \/ \E p \in Players : BeginCall(c, p)
          \/ CommitLogin(c)
          \/ CommitCall(c)
          \/ \E ok \in BOOLEAN : LeaveCall(c, ok)
          \/ DropCall(c)
    \/ \E m \in Monitors :
          \/ QuietMonitor(m)
          \/ \E published, ok \in BOOLEAN : NotifyScene(m, published, ok)
    \/ \E p \in Players :
          \/ \E id \in entering[p] : Enter(p, id)
          \/ ChangeScene(p)
          \/ Holder(p)
    \/ Time /\ UNCHANGED <<placeVars, flightVars, minted, lost>>

CleanupSpec == CleanupInit /\ [][CleanupNext]_cleanupVars

-----------------------------------------------------------------------------

\* As TypeOK, with placements and generations in range and no empty gate id in
\* the registry, whatever the interleaving with scene_manager.
CleanupTypeOK ==
    /\ TypeOK /\ SceneTypeOK
    /\ entering \in [Players -> SUBSET placementIdentity]
    /\ overtaken \subseteq Calls \cup Monitors
    /\ minted \in [Players -> 0..MaxGeneration]
    /\ lost \in [Players -> BOOLEAN]

\* While a session with a generation is recorded, its end would delete the
\* player's location, and any location that an EnterScene still on its way may
\* write: the record never has an older generation than a placement it has to
\* clean up (placement_identity.go:211-212, the premise under which keep_newer
\* leaks nothing).
RecordCoversPlacement ==
    /\ CleanupTypeOK
    /\ \A p \in Players :
        session[p] # None /\ session[p].gen # 0 =>
            \A id \in placements(p) : deletes(id, identityOf(session[p]))

\* LeaveScene, once it succeeds, deletes the location or, for want of a
\* generation, gives it up.
settles(loc, id) == id.gen = 0 \/ deletes(loc, id)

\* Somebody is still going to call LeaveScene with an identity that counts.
CleanupUnderway(p) ==
    \/ payload[p] # None /\ settles(location[p], identityOf(payload[p]))
    \/ \E c \in Calls \ overtaken :
          /\ call[c].op \in {"leave", "enqueue"} /\ call[c].player = p
          /\ settles(location[p], identityOf(call[c].expected))

\* No location outlives its session unattended: a cleanup that will delete it
\* is queued, claimed or in a handler (markofflinelogic.go:110-118).  Excepted
\* are a cleanup the code gave up saying so, the end of a session without a
\* generation, and an EnterScene that came after the end of the session.
NoGhostLocation ==
    \A p \in Players :
        location[p] # None /\ session[p] = None /\ ~lost[p] => CleanupUnderway(p)

OnlineKeepsLocationStep ==
    \A p \in Players :
        /\ InState(session[p], Online) /\ location[p] # None
        /\ session[p].gen # 0 /\ location[p].gen = session[p].gen
        => location'[p] # None

\* An ONLINE player who has entered never loses the location to the late
\* cleanup of an earlier session, synchronous or through the lease queue, with
\* or without a generation (leavescenelogic.go:181-188, 227-230).
OnlineKeepsLocation == [][OnlineKeepsLocationStep]_cleanupVars
=============================================================================
