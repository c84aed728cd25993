------------------------------ MODULE SceneEntry ------------------------------
(***************************************************************************)
(* How the gate forwards the entry of one session to a scene node.  Login  *)
(* binds the session to a player with a login type (BindSession); the      *)
(* scene manager routes it to a scene on a node with an owner epoch        *)
(* (RoutePlayer).  Both are commands in the gate's partition.  An entry    *)
(* that cannot be handed over at once stays as a debt, tried again until   *)
(* its budget is over.  The client may leave the game and enter it again   *)
(* on the same connection while commands of the login it left are still    *)
(* under way; nodes come, go and come back under a new entity number.      *)
(*                                                                         *)
(* The gate has one event loop: a handler is one step and a function on    *)
(* the state of the session, a record.                                     *)
(***************************************************************************)
EXTENDS Naturals, Sequences

CONSTANTS
    Players,
    Nodes,                  \* scene node ids
    Scenes,
    None,                   \* no player, no scene, no entity, no debt
    GenBase,                \* the generations of different players do not compare
    kSceneEntryMaxAttempts,
    MaxEnters,              \* bound on the EnterGame requests of the client
    MaxMoves,               \* bound on the scene changes of a player in the game
    MaxEntities,            \* bound on the entity numbers of one node
    MaxEpoch                \* bound on the owner epochs

ASSUME SceneEntryAssumption ==
    /\ None \notin Players \cup Nodes \cup Scenes
    /\ GenBase \in [Players -> Nat]
    /\ kSceneEntryMaxAttempts \in Nat \ {0}
    /\ MaxEnters \in Nat
    /\ MaxEntities \in Nat \ {0}
    /\ MaxEpoch \in Nat

VARIABLES
    gate,      \* the session, its connection and what it last told a scene
    nodes,     \* the scene nodes the gate knows: entity number and link
    log,       \* the commands in the gate's partition, not yet consumed
    chains,    \* the logins of this connection, one per EnterGame
    left,      \* history: the logins the client has left
    loginLeft, \* the logins that login knows the client has left
    placed,    \* the location and owner epoch of a player at the scene manager
    moves,     \* scene changes asked for and not yet routed
    asked,     \* scene changes asked for so far
    seen       \* history: the newest login the gate could have learnt of

vars == <<gate, nodes, log, chains, left, loginLeft, placed, moves, asked, seen>>

upstream == <<chains, left, loginLeft, placed, moves, asked>>

Entities == Nodes \X (1..MaxEntities)
Generation(p, k) == GenBase[p] + k

\* A route as the gate keeps it.  epoch and login are history: the epoch the
\* event carried and the login it stems from.
Targets == [player : Players, node : Nodes, scene : Scenes,
            epoch : 1..MaxEpoch, login : 1..MaxEnters]

\* age is 0 within the discovery budget of 3 s, 1 within the retry budget of
\* 20 s, 2 after it; due tells that nextAttemptAt has come.
Debts == [target : Targets, attempts : 0..(kSceneEntryMaxAttempts - 1), age : 0..2, due : BOOLEAN]

\* What the gate last told a scene of the player it holds.
Tellings == [entity : Entities, player : Players, route : Targets,
             epoch : 1..MaxEpoch, generation : Nat]

ASSUME NoneAssumption ==
    None \notin Entities \cup (Nodes \X Scenes) \cup Targets \cup Debts \cup Tellings

NewSession ==
    [conn |-> "open", player |-> None, pendingEnterGsType |-> 0, scene |-> None,
     node |-> None, ownerEpoch |-> 0, forwardedOwnerEpoch |-> 0, loginGeneration |-> 0,
     lastSceneRoute |-> None, debt |-> None, resetPending |-> FALSE, enterAfterLeave |-> FALSE,
     playerAtReset |-> None, generationAtReset |-> 0, told |-> None, exit |-> None]

Init ==
    /\ gate = NewSession
    /\ nodes = [n \in Nodes |-> [entity |-> 1, link |-> "ready"]]
    /\ log = <<>>
    /\ chains = <<>>
    /\ left = 0
    /\ loginLeft = 0
    /\ placed = [p \in Players |-> [at |-> None, epoch |-> 0]]
    /\ moves = {}
    /\ asked = 0
    /\ seen = 0

-----------------------------------------------------------------------------
(* One attempt at the debt of the session. *)

max(a, b) == IF a >= b THEN a ELSE b

known(n) == nodes[n].link # "absent"
entityOf(n) == <<n, nodes[n].entity>>
alive(e) == known(e[1]) /\ entityOf(e[1]) = e

\* The debt fails once more: the session gives up and its connection is shut
\* down, or it tries again after the backoff.
Failed(g, notFound) ==
    LET attempts == g.debt.attempts + 1
        over == \/ g.debt.age = 2
                \/ notFound /\ g.debt.age = 1
                \/ attempts >= kSceneEntryMaxAttempts
    IN IF over THEN [g EXCEPT !.debt = None, !.conn = "closing"]
       ELSE [g EXCEPT !.debt = [g.debt EXCEPT !.attempts = attempts, !.due = FALSE]]

\* Whether the scene must be told.
\* Mutant: a route to the same scene on the same node is always a duplicate.
mustForward_noEpoch(g, target) ==
    \/ g.pendingEnterGsType # 0
    \/ /\ g.scene # None
       /\ \/ g.scene # target.scene
          \/ g.node # entityOf(target.node)

mustForward(g, target) ==
    \/ g.pendingEnterGsType # 0
    \/ /\ g.scene # None
       /\ \/ g.scene # target.scene
          \/ g.node # entityOf(target.node)
          \/ g.forwardedOwnerEpoch # 0 /\ g.ownerEpoch > g.forwardedOwnerEpoch

\* PlayerEnterGameNode is sent with what the session holds.
Forwarded(g, target) ==
    [g EXCEPT !.pendingEnterGsType = 0,
              !.forwardedOwnerEpoch = g.ownerEpoch,
              !.resetPending = FALSE,
              !.told = [entity |-> entityOf(target.node), player |-> g.player, route |-> target,
                        epoch |-> g.ownerEpoch, generation |-> g.loginGeneration]]

\* The scene and the node of the session are those of the route from now on.
Committed(g, target) ==
    [g EXCEPT !.scene = target.scene, !.node = entityOf(target.node), !.debt = None]

\* Mutant: the pointer is moved to the new node before the entry is forwarded.
AttemptPendingSceneEntry_rebindFirst(g) ==
    LET target == g.debt.target
        forward == mustForward(g, target)
    IN IF g.player \notin {None, target.player} THEN [g EXCEPT !.debt = None]
       ELSE IF ~known(target.node) THEN Failed(g, TRUE)
       ELSE IF forward /\ nodes[target.node].link # "ready"
            THEN Failed([g EXCEPT !.node = entityOf(target.node)], FALSE)
       ELSE Committed(IF forward THEN Forwarded(g, target) ELSE g, target)

\* Mutant: the debt is tried whoever the session is bound to.
AttemptPendingSceneEntry_anyPlayer(g) ==
    LET target == g.debt.target
        forward == mustForward(g, target)
    IN IF ~known(target.node) THEN Failed(g, TRUE)
       ELSE IF forward /\ nodes[target.node].link # "ready" THEN Failed(g, FALSE)
       ELSE Committed(IF forward THEN Forwarded(g, target) ELSE g, target)

AttemptPendingSceneEntry(g) ==
    LET target == g.debt.target
        forward == mustForward(g, target)
    IN IF g.player \notin {None, target.player} THEN [g EXCEPT !.debt = None]
       ELSE IF ~known(target.node) THEN Failed(g, TRUE)
       ELSE IF forward /\ nodes[target.node].link # "ready" THEN Failed(g, FALSE)
       ELSE Committed(IF forward THEN Forwarded(g, target) ELSE g, target)

AttemptAndSettle(g) ==
    IF g.debt = None THEN g
    ELSE IF g.conn # "open" THEN [g EXCEPT !.debt = None]
    ELSE AttemptPendingSceneEntry(g)

BeginPendingSceneEntry(target) ==
    [target |-> target, attempts |-> 0, age |-> 0, due |-> TRUE]

-----------------------------------------------------------------------------
(* The commands of login and the scene manager. *)

\* The generation belongs to the login that was left, or to an older one of the
\* player of the session.
supersededSinceLeave(g, c) ==
    \/ c.player = g.playerAtReset /\ c.generation <= g.generationAtReset
    \/ c.player = g.player /\ c.generation < g.loginGeneration

\* Mutant: only the generation is looked at, not whether EnterGame was sent.
IsFromBeforeLeaveGame_byGeneration(g, c) ==
    /\ g.resetPending
    /\ c.generation = 0 \/ supersededSinceLeave(g, c)

IsFromBeforeLeaveGame(g, c) ==
    /\ g.resetPending
    /\ \/ ~g.enterAfterLeave
       \/ c.generation = 0 \* only a route can be without
       \/ supersededSinceLeave(g, c)

\* A dropped command tells the generation of the login that was left.
NoteDropped(g, c) ==
    IF c.generation = 0 \/ g.playerAtReset \notin {None, c.player} THEN g
    ELSE [g EXCEPT !.playerAtReset = c.player,
                   !.generationAtReset = max(@, c.generation)]

OnRouteDecision(g, target) ==
    AttemptAndSettle([g EXCEPT !.lastSceneRoute = target,
                               !.debt = BeginPendingSceneEntry(target)])

\* The identity a route brings is the session's before the first attempt.
ApplyRouteIdentity(g, c) ==
    [g EXCEPT !.player = IF @ = None THEN c.player ELSE @,
              !.ownerEpoch = c.target.epoch,
              !.loginGeneration = IF g.player \in {None, c.player} THEN max(@, c.generation) ELSE @]

RoutePlayer(g, c) ==
    IF IsFromBeforeLeaveGame(g, c) THEN NoteDropped(g, c)
    ELSE OnRouteDecision(ApplyRouteIdentity(g, c), c.target)

ApplyLoginBinding(g, c) ==
    LET same == g.player \in {None, c.player}
    IN [g EXCEPT !.resetPending = @ /\ same,
                 !.player = c.player,
                 !.loginGeneration = IF same THEN max(@, c.generation) ELSE c.generation,
                 !.pendingEnterGsType = c.login]

\* The login type comes after the route: the debt is tried at once, or made of
\* the last route of the player.
\* Mutant: without a debt the login type waits for the next route.
OnLoginTypeBound_noLateEntry(g) == AttemptAndSettle(g)

OnLoginTypeBound(g) ==
    IF /\ g.debt = None
       /\ g.lastSceneRoute # None
       /\ g.lastSceneRoute.player = g.player
    THEN AttemptAndSettle([g EXCEPT !.debt = BeginPendingSceneEntry(g.lastSceneRoute)])
    ELSE AttemptAndSettle(g)

BindSession(g, c) ==
    IF IsFromBeforeLeaveGame(g, c) THEN NoteDropped(g, c)
    ELSE OnLoginTypeBound(ApplyLoginBinding(g, c))

\* The gate takes the next command.
\* seen follows what the session could know: an event of a login the client is
\* in, or one that came before it asked to enter again.
Deliver ==
    /\ log # <<>>
    /\ log' = Tail(log)
    /\ LET c == Head(log)
       IN /\ gate' = IF c.kind = "bind" THEN BindSession(gate, c) ELSE RoutePlayer(gate, c)
          /\ seen' = IF c.login > left \/ ~gate.enterAfterLeave THEN max(seen, c.login) ELSE seen
    /\ UNCHANGED <<nodes, upstream>>

-----------------------------------------------------------------------------
(* The client. *)

\* ExitGame goes to the node of the session, if the gate has a link to it.
NotifySceneExitGame(g) ==
    [g EXCEPT !.told = None,
              !.exit = IF g.node # None /\ alive(g.node) /\ nodes[g.node[1]].link # "down"
                       THEN g.node ELSE None]

ResetSceneRoute(g) ==
    LET again == g.resetPending /\ g.player \in {None, g.playerAtReset}
    IN [g EXCEPT !.node = None, !.scene = None, !.pendingEnterGsType = 0, !.debt = None,
                 !.lastSceneRoute = None, !.ownerEpoch = 0, !.forwardedOwnerEpoch = 0,
                 !.playerAtReset = IF again THEN @ ELSE g.player,
                 !.generationAtReset = max(IF again THEN @ ELSE 0, g.loginGeneration),
                 !.resetPending = TRUE, !.enterAfterLeave = FALSE]

OnClientLeaveGame(g) == ResetSceneRoute(NotifySceneExitGame(g))

\* The gate sees LeaveGame and hands it on to login.
ClientLeaveGame ==
    /\ gate' = OnClientLeaveGame(gate)
    /\ left' = Len(chains)
    /\ UNCHANGED <<nodes, log, chains, loginLeft, placed, moves, asked, seen>>

\* The gate sees EnterGame and hands it on.  Login refuses another player as
\* long as the connection is bound to one.
ClientEnterGame(p) ==
    /\ Len(chains) < MaxEnters
    /\ left < Len(chains) => chains[Len(chains)].player = p
    /\ gate' = [gate EXCEPT !.enterAfterLeave = TRUE]
    /\ chains' = Append(chains, [player |-> p, stage |-> "asked", after |-> left])
    /\ UNCHANGED <<nodes, log, left, loginLeft, placed, moves, asked, seen>>

\* The connection is shut down: another login of the player, or the client.
Shutdown ==
    /\ gate.conn = "open"
    /\ gate' = [gate EXCEPT !.conn = "closing"]
    /\ UNCHANGED <<nodes, log, upstream, seen>>

\* The connection is down and the session erased.
ConnectionDown ==
    /\ gate' = [NotifySceneExitGame(gate) EXCEPT !.conn = "gone", !.debt = None]
    /\ UNCHANGED <<nodes, log, upstream, seen>>

-----------------------------------------------------------------------------
(* The debt: its clock and the sweep. *)

Tick ==
    /\ gate.debt # None
    /\ gate.debt.age < 2
    /\ gate' = [gate EXCEPT !.debt.age = @ + 1]
    /\ UNCHANGED <<nodes, log, upstream, seen>>

BackoffOver ==
    /\ gate.debt # None
    /\ ~gate.debt.due
    /\ gate' = [gate EXCEPT !.debt.due = TRUE]
    /\ UNCHANGED <<nodes, log, upstream, seen>>

RetryDueSceneEntries ==
    /\ gate.debt # None
    /\ gate.debt.due
    /\ gate' = AttemptAndSettle(gate)
    /\ UNCHANGED <<nodes, log, upstream, seen>>

-----------------------------------------------------------------------------
(* The scene nodes, as the gate sees them. *)

setLink(n, link) == nodes' = [nodes EXCEPT ![n].link = link]

\* A node is taken out, and the sessions on it point nowhere.
NodeRemoved(n) ==
    /\ known(n)
    /\ setLink(n, "absent")
    /\ gate' = IF gate.node = entityOf(n) THEN [gate EXCEPT !.node = None] ELSE gate
    /\ UNCHANGED <<log, upstream, seen>>

\* A node is found, or registers anew in place of the one that is known; the
\* sessions of the latter are not told.
NodeRegistered(n) ==
    /\ nodes[n].entity < MaxEntities
    /\ nodes' = [nodes EXCEPT ![n] = [entity |-> @.entity + 1, link |-> "down"]]
    /\ UNCHANGED <<gate, log, upstream, seen>>

LinkUp(n) ==
    /\ nodes[n].link = "down"
    /\ setLink(n, "up")
    /\ UNCHANGED <<gate, log, upstream, seen>>

LinkDown(n) ==
    /\ nodes[n].link \in {"up", "ready"}
    /\ setLink(n, "down")
    /\ UNCHANGED <<gate, log, upstream, seen>>

\* The node answers the handshake on the link: debts for it are due.
OnSceneLinkHandshaken(n) ==
    /\ nodes[n].link = "up"
    /\ setLink(n, "ready")
    /\ gate' = IF gate.debt # None /\ gate.debt.target.node = n
               THEN [gate EXCEPT !.debt.due = TRUE] ELSE gate
    /\ UNCHANGED <<log, upstream, seen>>

-----------------------------------------------------------------------------
(* Login and the scene manager. *)

stage(k, s) == chains' = [chains EXCEPT ![k].stage = s]
busy(p) == \E k \in DOMAIN chains :
               chains[k].player = p /\ chains[k].stage \in {"fenced", "bound", "cleared"}

\* Login handles LeaveGame: the fence of the connection refuses the logins left.
LoginLeaveGame ==
    /\ loginLeft < left
    /\ loginLeft' = left
    /\ UNCHANGED <<gate, nodes, log, chains, left, placed, moves, asked, seen>>

\* Under the player's lock the login is bound in the fence.  The requests of a
\* connection are handled in order.
BindPlayer(k) ==
    /\ chains[k].stage = "asked"
    /\ k > loginLeft /\ loginLeft >= chains[k].after
    /\ \A j \in 1..(k - 1) : chains[j].stage # "asked"
    /\ ~busy(chains[k].player)
    /\ stage(k, "fenced")
    /\ UNCHANGED <<gate, nodes, log, left, loginLeft, placed, moves, asked, seen>>

SendBindSessionToGate(k) ==
    /\ chains[k].stage = "fenced"
    /\ stage(k, "bound")
    /\ log' = Append(log, [kind |-> "bind", player |-> chains[k].player, login |-> k,
                           generation |-> Generation(chains[k].player, k)])
    /\ UNCHANGED <<gate, nodes, left, loginLeft, placed, moves, asked, seen>>

Recheck(k) ==
    /\ chains[k].stage = "bound"
    /\ stage(k, IF k > loginLeft THEN "cleared" ELSE "done")
    /\ UNCHANGED <<gate, nodes, log, left, loginLeft, placed, moves, asked, seen>>

Abandon(k) ==
    /\ chains[k].stage # "done"
    /\ stage(k, "done")
    /\ UNCHANGED <<gate, nodes, log, left, loginLeft, placed, moves, asked, seen>>

\* The scene manager places the player and routes it.  The owner epoch stays while
\* the player stays on its node: a new one is minted for another node only.  When
\* the push of the route fails, the placement is rolled back or, if that fails
\* too, stands; Kafka may have taken the route all the same.  The location goes
\* back to what it was, an epoch that was minted goes up once more.
onNode(p, n) == placed[p].at # None /\ placed[p].at[1] = n

routePlayerToGate(p, k, generation) ==
    \E n \in Nodes, s \in Scenes :
        LET e == IF onNode(p, n) THEN placed[p].epoch ELSE placed[p].epoch + 1
            after == {[at |-> <<n, s>>, epoch |-> e],
                      [at |-> placed[p].at, epoch |-> IF onNode(p, n) THEN e ELSE e + 1]}
        IN /\ \E a \in after : a.epoch <= MaxEpoch /\ placed' = [placed EXCEPT ![p] = a]
           /\ log' \in {log, Append(log, [kind |-> "route", player |-> p, login |-> k,
                                         generation |-> generation,
                                         target |-> [player |-> p, node |-> n, scene |-> s,
                                                     epoch |-> e, login |-> k]])}

EnterScene(k) ==
    /\ chains[k].stage = "cleared"
    /\ stage(k, "done")
    /\ routePlayerToGate(chains[k].player, k, Generation(chains[k].player, k))
    /\ UNCHANGED <<gate, nodes, left, loginLeft, moves, asked, seen>>

\* The location of a player is released.
LocationReleased(p) ==
    /\ placed[p].at # None
    /\ placed' = [placed EXCEPT ![p].at = None]
    /\ UNCHANGED <<gate, nodes, log, chains, left, loginLeft, moves, asked, seen>>

\* The scene asks for another scene, with the generation of the player's entity
\* or, an older scene, without.
AskMove(generation) ==
    /\ asked < MaxMoves
    /\ asked' = asked + 1
    /\ moves' = moves \cup {[player |-> gate.told.player, login |-> gate.told.route.login,
                             generation |-> generation]}
    /\ UNCHANGED <<gate, nodes, log, chains, left, loginLeft, placed, seen>>

Move(m) ==
    /\ moves' = moves \ {m}
    /\ routePlayerToGate(m.player, m.login, m.generation)
    /\ UNCHANGED <<gate, nodes, chains, left, loginLeft, asked, seen>>

-----------------------------------------------------------------------------

Session ==
    \/ Deliver
    \/ ClientLeaveGame
    \/ \E p \in Players : ClientEnterGame(p)
    \/ Shutdown
    \/ ConnectionDown
    \/ Tick
    \/ BackoffOver
    \/ RetryDueSceneEntries

NodeStep(n) ==
    \/ NodeRemoved(n)
    \/ NodeRegistered(n)
    \/ LinkUp(n)
    \/ LinkDown(n)
    \/ OnSceneLinkHandshaken(n)

Backend ==
    \/ LoginLeaveGame
    \/ \E k \in DOMAIN chains :
           \/ BindPlayer(k)
           \/ SendBindSessionToGate(k)
           \/ Recheck(k)
           \/ Abandon(k)
           \/ EnterScene(k)
    \/ \E p \in Players : LocationReleased(p)
    \/ gate.told # None /\ \E generation \in {0, gate.told.generation} : AskMove(generation)
    \/ \E m \in moves : Move(m)

\* A session that is gone stays so: every command for it is ignored.
Next ==
    /\ gate.conn # "gone"
    /\ \/ Session
       \/ \E n \in Nodes : NodeStep(n)
       \/ Backend

Spec == Init /\ [][Next]_vars

-----------------------------------------------------------------------------
(* Properties. *)

Commands ==
    [kind : {"bind"}, player : Players, login : 1..MaxEnters, generation : Nat]
        \cup [kind : {"route"}, player : Players, login : 1..MaxEnters, generation : Nat,
              target : Targets]

Sessions ==
    [conn : {"open", "closing", "gone"}, player : Players \cup {None},
     pendingEnterGsType : 0..MaxEnters, scene : Scenes \cup {None},
     node : Entities \cup {None}, ownerEpoch : 0..MaxEpoch,
     forwardedOwnerEpoch : 0..MaxEpoch, loginGeneration : Nat,
     lastSceneRoute : Targets \cup {None}, debt : Debts \cup {None},
     resetPending : BOOLEAN, enterAfterLeave : BOOLEAN,
     playerAtReset : Players \cup {None}, generationAtReset : Nat,
     told : Tellings \cup {None}, exit : Entities \cup {None}]

\* Every session, node and command has the fields the handlers read, and a debt
\* exists only on a session that is not gone.
SceneEntryTypeOK ==
    /\ gate \in Sessions
    /\ gate.conn = "gone" => gate.debt = None
    /\ nodes \in [Nodes -> [entity : 1..MaxEntities, link : {"absent", "down", "up", "ready"}]]
    /\ \A i \in DOMAIN log : log[i] \in Commands

\* The route by which the session would enter: the last one, if of its player.
entryRoute(g) ==
    IF g.lastSceneRoute # None /\ g.lastSceneRoute.player = g.player THEN g.lastSceneRoute ELSE None

onePlayer == \A j, k \in DOMAIN chains : chains[j].player = chains[k].player

\* After LeaveGame the session takes only a route of a login asked for since, and
\* enters by the route it took, although Bind and route of a login that was left
\* may still be delivered: IsRouteFromBeforeLeaveGame and
\* IsBindFromBeforeLeaveGame drop them.  Left out is the residual the code names:
\* of that login nothing was delivered before the client asked again, and nothing
\* yet of the new one.  It holds as long as the connection logs one player in:
\* the session remembers one player it left.
EntersByOwnLoginStep ==
    LET r == entryRoute(gate')
    IN gate.told = None =>
           /\ onePlayer /\ r \notin {None, entryRoute(gate)} => r.login > left \/ r.login > seen
           /\ gate'.told # None => gate'.told.route = r
EntersByOwnLogin == [][EntersByOwnLoginStep]_vars

\* A scene that holds the player of the session has been told the newest epoch
\* the player was routed with, once no entry is owed: else its next save would
\* be refused and the entity destroyed (rule 4 of ApplyRoute).  The epoch of
\* the session is that of its last route; those of two players do not compare.
ScenesKnowEpoch ==
    /\ gate.told # None
    /\ gate.debt = None
    /\ gate.conn = "open"
    /\ gate.told.player = gate.player
    /\ gate.lastSceneRoute.player = gate.player
    => gate.told.epoch >= gate.ownerEpoch

\* What is forwarded is one route event, whole: the player and the epoch the
\* session adds to it are those the event came with, also when the entry is
\* retried, is made for a late login type, or another player's route came
\* between.
RouteIsWhole ==
    /\ SceneEntryTypeOK
    /\ gate.told # None => /\ gate.told.player = gate.told.route.player
                           /\ gate.told.epoch = gate.told.route.epoch

\* When the session forgets the scene that holds its player, by LeaveGame or with
\* its connection, that very node gets ExitGame if there is a link to it: the
\* pointer moves only once an entry is forwarded.
HolderGetsExitStep ==
    LET e == gate.told.entity
    IN /\ gate.told # None
       /\ gate'.told = None
       /\ alive(e)
       /\ nodes[e[1]].link # "down"
       => gate'.exit = e
HolderGetsExit == [][HolderGetsExitStep]_vars

typePends(k) ==
    /\ gate.conn = "open"
    /\ gate.pendingEnterGsType = k
    /\ gate.lastSceneRoute # None
    /\ gate.lastSceneRoute.player = gate.player

\* A login type for which there is a route of the player does not hang: the entry
\* is forwarded, replaced or left, or the client is disconnected to log in again.
LoginTypeSettles == \A k \in 1..MaxEnters : typePends(k) ~> ~typePends(k)
=============================================================================
