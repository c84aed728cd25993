-------------------------- MODULE SceneEntryProofs --------------------------
(***************************************************************************)
(* TLAPS proofs about SceneEntry, for any number of players, scene nodes,  *)
(* logins and epochs.                                                      *)
(***************************************************************************)
EXTENDS SceneEntry, TLAPS

-----------------------------------------------------------------------------
(* The inductive invariant *)

Moved == [player : Players, login : 1..MaxEnters, generation : Nat]

NodesOK == nodes \in [Nodes -> [entity : 1..MaxEntities, link : {"absent", "down", "up", "ready"}]]

Stages == {"asked", "fenced", "bound", "cleared", "done"}

Chain == [player : Players, stage : Stages, after : Nat]

\* The types of what login and the scene manager keep.
UpstreamOK ==
    /\ chains \in Seq(Chain)
    /\ Len(chains) <= MaxEnters
    /\ left \in Nat
    /\ placed \in [Players -> [at : (Nodes \X Scenes) \cup {None}, epoch : Nat]]
    /\ \A p \in Players : placed[p].at # None => placed[p].epoch >= 1
    /\ moves \subseteq Moved
    /\ log \in Seq(Commands)

\* What the session keeps of its last route: a debt is for that route, the
\* epoch of the session is the route's, and what a scene was told is whole.
Kept(g) ==
    /\ g \in Sessions
    /\ g.conn = "gone" => g.debt = None
    /\ g.debt # None => g.lastSceneRoute # None /\ g.debt.target = g.lastSceneRoute
    /\ g.lastSceneRoute # None => g.player # None /\ g.ownerEpoch = g.lastSceneRoute.epoch
    /\ g.told # None =>
          /\ g.lastSceneRoute # None /\ g.scene # None
          /\ g.told.player = g.told.route.player
          /\ g.told.epoch = g.told.route.epoch
          /\ g.forwardedOwnerEpoch = g.told.epoch

\* ScenesKnowEpoch of a session.
Informed(g) ==
    /\ g.told # None /\ g.debt = None /\ g.conn = "open"
    /\ g.told.player = g.player /\ g.lastSceneRoute.player = g.player
    => g.told.epoch >= g.ownerEpoch

\* The scene that was told is the node of the session as long as it lives; an
\* entity number does not come back.
Pointed(g) ==
    g.told # None =>
        /\ g.told.entity[2] <= nodes[g.told.entity[1]].entity
        /\ alive(g.told.entity) => g.node = g.told.entity

\* The connection has logged in no other player than p.
Sole(p) == \A k \in DOMAIN chains : chains[k].player = p

\* A scene change asked for by the entity of a login of p: the session has
\* learnt of that login, and remembers it once it is left.
Former(g, p, c) ==
    /\ g.player = p
    /\ c.generation <= g.loginGeneration
    /\ Generation(p, c.login) <= g.loginGeneration
    /\ g.told = None => /\ g.resetPending /\ g.playerAtReset = p
                        /\ c.generation <= g.generationAtReset
                        /\ Generation(p, c.login) <= g.generationAtReset
                        /\ c.login <= left

\* Logins that are under way are p's and known by number; the rest is learnt.
Sent(g, p) ==
    /\ \A i \in DOMAIN log :
           /\ log[i].player = p /\ log[i].login <= Len(chains)
           /\ log[i].kind = "route" => log[i].target.player = p /\ log[i].target.login = log[i].login
           /\ log[i].generation = Generation(p, log[i].login) \/ Former(g, p, log[i])
           /\ log[i].kind = "bind" => log[i].generation = Generation(p, log[i].login)
    /\ \A m \in moves : m.player = p /\ m.login <= Len(chains) /\ Former(g, p, m)

\* The session has learnt of the login by which it is to enter, or did.
Learnt(g, p) ==
    /\ g.player \in {None, p} /\ g.playerAtReset \in {None, p}
    /\ g.lastSceneRoute # None =>
          /\ g.lastSceneRoute.player = p /\ g.lastSceneRoute.login <= Len(chains)
          /\ g.player = p /\ Generation(p, g.lastSceneRoute.login) <= g.loginGeneration
    /\ g.told # None =>
          /\ ~g.resetPending /\ g.player = p
          /\ g.told.player = p /\ g.told.route.login <= Len(chains)
          /\ g.told.generation <= g.loginGeneration
          /\ Generation(p, g.told.route.login) <= g.loginGeneration

\* What the session has seen (up to login s) it knows by generation, and once it
\* is left as one that was left or as one older than its own.  A route that is
\* taken is newer than what was left.
Noted(g, p, s) ==
    /\ g.told = None /\ ~g.resetPending => left = 0
    /\ left <= Len(chains)
    /\ g.resetPending /\ left < Len(chains) => g.enterAfterLeave
    /\ g.resetPending /\ g.lastSceneRoute # None =>
          g.enterAfterLeave /\ g.generationAtReset <= g.loginGeneration
    /\ g.playerAtReset = None => g.generationAtReset <= g.loginGeneration
    /\ s >= 1 =>
          \/ g.player = p /\ Generation(p, s) <= g.loginGeneration
          \/ g.resetPending /\ g.playerAtReset = p /\ Generation(p, s) <= g.generationAtReset
    /\ g.resetPending =>
          \A k \in 1..left : k <= s =>
              \/ g.playerAtReset = p /\ Generation(p, k) <= g.generationAtReset
              \/ g.player = p /\ Generation(p, k) < g.loginGeneration

EInv ==
    /\ seen \in Nat
    /\ gate.conn # "gone" =>
          \A p \in Players : Sole(p) => Sent(gate, p) /\ Learnt(gate, p) /\ Noted(gate, p, seen)

SInv == NodesOK /\ UpstreamOK /\ Kept(gate) /\ Informed(gate) /\ Pointed(gate)

-----------------------------------------------------------------------------
(* One attempt at the debt *)

\* All of a session but its connection and its debt.
SameSession(h, g) ==
    /\ h.player = g.player /\ h.pendingEnterGsType = g.pendingEnterGsType
    /\ h.scene = g.scene /\ h.node = g.node
    /\ h.ownerEpoch = g.ownerEpoch /\ h.forwardedOwnerEpoch = g.forwardedOwnerEpoch
    /\ h.loginGeneration = g.loginGeneration /\ h.lastSceneRoute = g.lastSceneRoute
    /\ h.resetPending = g.resetPending /\ h.enterAfterLeave = g.enterAfterLeave
    /\ h.playerAtReset = g.playerAtReset /\ h.generationAtReset = g.generationAtReset
    /\ h.told = g.told /\ h.exit = g.exit

\* The debt and the connection of a session are set apart from the rest.
LEMMA DebtSet ==
    ASSUME NEW g \in Sessions, NEW d \in Debts \cup {None}
    PROVE  /\ [g EXCEPT !.debt = d] \in Sessions
           /\ [g EXCEPT !.debt = d].debt = d
           /\ [g EXCEPT !.debt = d].conn = g.conn
           /\ SameSession([g EXCEPT !.debt = d], g)
<1>1. [g EXCEPT !.debt = d] \in Sessions
  BY DEF Sessions
<1>2. [g EXCEPT !.debt = d].debt = d /\ [g EXCEPT !.debt = d].conn = g.conn
  BY DEF Sessions
<1>3. SameSession([g EXCEPT !.debt = d], g)
  BY DEF Sessions, SameSession
<1> QED BY Zenon, <1>1, <1>2, <1>3

\* A debt given up, and the connection that closes or has closed: no scene is touched.
LEMMA GivenUp ==
    ASSUME NEW g \in Sessions, NEW s \in {"closing", "gone"}
    PROVE  LET h == [g EXCEPT !.debt = None, !.conn = s]
           IN  h \in Sessions /\ h.debt = None /\ h.conn = s /\ SameSession(h, g)
<1> DEFINE h == [g EXCEPT !.debt = None, !.conn = s]
<1>1. h \in Sessions
  BY ZenonT(30) DEF Sessions
<1>2. h.debt = None /\ h.conn = s
  BY DEF Sessions
<1>3. SameSession(h, g)
  BY DEF Sessions, SameSession
<1> QED BY Zenon, <1>1, <1>2, <1>3

\* The backoff or the end of a debt touches nothing else.
LEMMA FailedEffect ==
    ASSUME NEW g \in Sessions, g.debt # None, NEW b \in BOOLEAN
    PROVE  LET h == Failed(g, b)
           IN  /\ h \in Sessions /\ SameSession(h, g)
               /\ \/ h.debt = None /\ h.conn = "closing"
                  \/ h.debt \in Debts /\ h.debt.target = g.debt.target /\ h.conn = g.conn
<1>1. g.debt \in Debts
  BY DEF Sessions
<1> DEFINE n == g.debt.attempts + 1
           d == [g.debt EXCEPT !.attempts = n, !.due = FALSE]
<1>2. CASE Failed(g, b) = [g EXCEPT !.debt = None, !.conn = "closing"]
  BY ZenonT(30), <1>2, GivenUp
<1>3. CASE n < kSceneEntryMaxAttempts /\ Failed(g, b) = [g EXCEPT !.debt = d]
  <2>1. n \in 0..(kSceneEntryMaxAttempts - 1)
    BY <1>1, <1>3, SceneEntryAssumption DEF Debts
  <2> HIDE DEF n
  <2>2. d \in Debts /\ d.target = g.debt.target
    BY ZenonT(30), <1>1, <2>1 DEF Debts
  <2> HIDE DEF d
  <2> QED BY <1>3, <2>2, DebtSet
<1>4. n \in Nat /\ kSceneEntryMaxAttempts \in Nat
  BY <1>1, SceneEntryAssumption DEF Debts
<1>5. n >= kSceneEntryMaxAttempts \/ n < kSceneEntryMaxAttempts
  BY <1>4
<1> QED BY Zenon, <1>2, <1>3, <1>5 DEF Failed

\* A node the gate knows has an entity.
LEMMA EntityOfNode == ASSUME NodesOK, NEW n \in Nodes PROVE entityOf(n) \in Entities
BY DEF NodesOK, Entities, entityOf

\* The entry is forwarded: what the scene is told is the session's.
LEMMA ForwardEffect ==
    ASSUME NodesOK, NEW g \in Sessions, NEW target \in Targets,
           g.player \in Players, g.ownerEpoch \in 1..MaxEpoch
    PROVE  LET h == Forwarded(g, target)
           IN  /\ h \in Sessions
               /\ h.pendingEnterGsType = 0 /\ h.resetPending = FALSE
               /\ h.forwardedOwnerEpoch = g.ownerEpoch
               /\ h.told \in Tellings
               /\ h.told = [entity |-> entityOf(target.node), player |-> g.player, route |-> target,
                            epoch |-> g.ownerEpoch, generation |-> g.loginGeneration]
               /\ h.conn = g.conn /\ h.player = g.player
               /\ h.ownerEpoch = g.ownerEpoch /\ h.loginGeneration = g.loginGeneration
               /\ h.lastSceneRoute = g.lastSceneRoute /\ h.enterAfterLeave = g.enterAfterLeave
               /\ h.playerAtReset = g.playerAtReset /\ h.generationAtReset = g.generationAtReset
<1> DEFINE t == [entity |-> entityOf(target.node), player |-> g.player, route |-> target,
                 epoch |-> g.ownerEpoch, generation |-> g.loginGeneration]
           h == [g EXCEPT !.pendingEnterGsType = 0, !.forwardedOwnerEpoch = g.ownerEpoch,
                          !.resetPending = FALSE, !.told = t]
<1>1. t \in Tellings
  <2>1. target.node \in Nodes
    BY DEF Targets
  <2>2. entityOf(target.node) \in Entities
    BY Zenon, <2>1, EntityOfNode
  <2>3. g.loginGeneration \in Nat
    BY DEF Sessions
  <2> QED BY <2>2, <2>3 DEF Tellings
<1>2. Forwarded(g, target) = h
  BY Zenon DEF Forwarded
<1> HIDE DEF t
<1>3. h \in Sessions
  <2>1. 0 \in 0..MaxEnters
    BY SceneEntryAssumption
  <2>2. g.ownerEpoch \in 0..MaxEpoch
    BY DEF Sessions
  <2> QED BY ZenonT(30), <1>1, <2>1, <2>2 DEF Sessions
<1>4. /\ h.pendingEnterGsType = 0 /\ h.resetPending = FALSE
      /\ h.forwardedOwnerEpoch = g.ownerEpoch /\ h.told = t
  BY DEF Sessions
<1>5. /\ h.conn = g.conn /\ h.player = g.player
      /\ h.ownerEpoch = g.ownerEpoch /\ h.loginGeneration = g.loginGeneration
      /\ h.lastSceneRoute = g.lastSceneRoute /\ h.enterAfterLeave = g.enterAfterLeave
      /\ h.playerAtReset = g.playerAtReset /\ h.generationAtReset = g.generationAtReset
  BY DEF Sessions
<1> HIDE DEF h
<1> QED BY Zenon, <1>1, <1>2, <1>3, <1>4, <1>5 DEF t

\* The route is the session's from now on.
LEMMA CommitEffect ==
    ASSUME NodesOK, NEW g \in Sessions, NEW target \in Targets
    PROVE  LET h == Committed(g, target)
           IN  /\ h \in Sessions
               /\ h.scene = target.scene /\ h.node = entityOf(target.node) /\ h.debt = None
               /\ h.conn = g.conn /\ h.player = g.player
               /\ h.pendingEnterGsType = g.pendingEnterGsType
               /\ h.ownerEpoch = g.ownerEpoch /\ h.forwardedOwnerEpoch = g.forwardedOwnerEpoch
               /\ h.loginGeneration = g.loginGeneration /\ h.lastSceneRoute = g.lastSceneRoute
               /\ h.resetPending = g.resetPending /\ h.enterAfterLeave = g.enterAfterLeave
               /\ h.playerAtReset = g.playerAtReset /\ h.generationAtReset = g.generationAtReset
               /\ h.told = g.told
<1> DEFINE e == entityOf(target.node)
           h == [g EXCEPT !.scene = target.scene, !.node = e, !.debt = None]
<1>0. target.node \in Nodes /\ target.scene \in Scenes
  BY DEF Targets
<1>1. e \in Entities
  BY Zenon, <1>0, EntityOfNode
<1>2. Committed(g, target) = h
  BY Zenon DEF Committed
<1> HIDE DEF e
<1>3. h \in Sessions
  BY ZenonT(30), <1>0, <1>1 DEF Sessions
<1>4. h.scene = target.scene /\ h.node = e /\ h.debt = None /\ h.told = g.told
  BY DEF Sessions
<1>5. /\ h.conn = g.conn /\ h.player = g.player
      /\ h.pendingEnterGsType = g.pendingEnterGsType
      /\ h.ownerEpoch = g.ownerEpoch /\ h.forwardedOwnerEpoch = g.forwardedOwnerEpoch
      /\ h.loginGeneration = g.loginGeneration /\ h.lastSceneRoute = g.lastSceneRoute
  BY DEF Sessions
<1>6. /\ h.resetPending = g.resetPending /\ h.enterAfterLeave = g.enterAfterLeave
      /\ h.playerAtReset = g.playerAtReset /\ h.generationAtReset = g.generationAtReset
  BY DEF Sessions
<1> HIDE DEF h
<1> QED BY Zenon, <1>2, <1>3, <1>4, <1>5, <1>6 DEF e

\* The session has player, generation and last route q, m and r; a scene that is
\* told learns of these and ends the wait for an entry after a leave, b before.
Taken(h, g, q, m, r, b) ==
    /\ h.player = q /\ h.loginGeneration = m /\ h.lastSceneRoute = r
    /\ h.enterAfterLeave = g.enterAfterLeave
    /\ h.playerAtReset = g.playerAtReset /\ h.generationAtReset = g.generationAtReset
    /\ \/ h.told = g.told /\ h.resetPending = b
       \/ /\ h.told \in Tellings /\ h.resetPending = FALSE
          /\ h.told.route = r /\ h.told.player = q /\ h.told.player = r.player
          /\ h.told.generation = m

\* What an attempt at the debt leaves of the session's identity.
Entered(h, g) ==
    Taken(h, g, g.player, g.loginGeneration, g.lastSceneRoute, g.resetPending)

Settled(h, g) == Kept(h) /\ Informed(h) /\ Pointed(h) /\ Entered(h, g)

\* Dropping or backing off a debt.
LEMMA SameSettled ==
    ASSUME NEW g, NEW h \in Sessions, Kept(g), Pointed(g), SameSession(h, g),
           \/ h.debt = None
           \/ h.debt # None /\ g.debt # None /\ h.debt.target = g.debt.target /\ h.conn # "gone",
           h.debt = None => h.conn # "open" \/ g.lastSceneRoute.player # g.player
    PROVE  Settled(h, g)
<1>1. Kept(h)
  BY DEF Kept, SameSession
<1>2. Informed(h)
  BY Zenon DEF Informed, SameSession
<1>3. Pointed(h)
  BY Zenon DEF Pointed, SameSession
<1>4. Entered(h, g)
  BY Zenon DEF Entered, Taken, SameSession
<1> QED BY Zenon, <1>1, <1>2, <1>3, <1>4 DEF Settled

\* An entry that need not be forwarded: the scene was told of the place and of
\* an epoch that is not older.
LEMMA CommitSettled ==
    ASSUME NodesOK, NEW g, Kept(g), Pointed(g), g.debt # None, ~mustForward(g, g.debt.target)
    PROVE  Settled(Committed(g, g.debt.target), g)
<1> DEFINE target == g.debt.target
           h == Committed(g, target)
<1>0. g \in Sessions /\ g.debt \in Debts /\ target \in Targets /\ target = g.lastSceneRoute
  BY DEF Kept, Sessions, Debts
<1>1. /\ h \in Sessions
      /\ h.scene = target.scene /\ h.node = entityOf(target.node) /\ h.debt = None
      /\ h.conn = g.conn /\ h.player = g.player
      /\ h.ownerEpoch = g.ownerEpoch /\ h.forwardedOwnerEpoch = g.forwardedOwnerEpoch
      /\ h.loginGeneration = g.loginGeneration /\ h.lastSceneRoute = g.lastSceneRoute
      /\ h.resetPending = g.resetPending /\ h.enterAfterLeave = g.enterAfterLeave
      /\ h.playerAtReset = g.playerAtReset /\ h.generationAtReset = g.generationAtReset
      /\ h.told = g.told
  BY Zenon, <1>0, CommitEffect
<1>2. target.scene # None
  BY <1>0, SceneEntryAssumption DEF Targets
<1>3. g.told # None => /\ g.node = entityOf(target.node)
                       /\ ~(g.forwardedOwnerEpoch # 0 /\ g.ownerEpoch > g.forwardedOwnerEpoch)
  BY Zenon DEF mustForward, Kept
<1>4. g.told # None => g.told.epoch >= g.ownerEpoch
  <2> SUFFICES ASSUME g.told # None PROVE g.told.epoch >= g.ownerEpoch
    OBVIOUS
  <2>1. g.told.epoch \in 1..MaxEpoch /\ g.ownerEpoch \in 0..MaxEpoch
    BY <1>0 DEF Sessions, Tellings
  <2>2. g.forwardedOwnerEpoch = g.told.epoch
    BY Zenon DEF Kept
  <2> QED BY <1>3, <2>1, <2>2
<1> HIDE DEF h, target
<1>5. Kept(h)
  BY <1>0, <1>1, <1>2 DEF Kept
<1>6. Informed(h)
  BY Zenon, <1>1, <1>4 DEF Informed
<1>7. Pointed(h)
  BY Zenon, <1>1, <1>3 DEF Pointed
<1>8. Entered(h, g)
  BY Zenon, <1>1 DEF Entered, Taken
<1> QED BY Zenon, <1>5, <1>6, <1>7, <1>8 DEF Settled, h, target

\* An entry that is forwarded: the scene is told of the route, whole.
LEMMA ForwardSettled ==
    ASSUME NodesOK, NEW g, Kept(g), g.debt # None, g.player = g.debt.target.player
    PROVE  Settled(Committed(Forwarded(g, g.debt.target), g.debt.target), g)
<1> DEFINE target == g.debt.target
           f == Forwarded(g, target)
           h == Committed(f, target)
<1>0. /\ g \in Sessions /\ g.debt \in Debts /\ target \in Targets /\ target = g.lastSceneRoute
      /\ g.ownerEpoch = target.epoch
  BY DEF Kept, Sessions, Debts
<1>p. g.player \in Players /\ g.ownerEpoch \in 1..MaxEpoch /\ target.node \in Nodes
  BY <1>0 DEF Targets
<1>1. /\ f \in Sessions
      /\ f.forwardedOwnerEpoch = g.ownerEpoch /\ f.told \in Tellings /\ f.resetPending = FALSE
      /\ f.told = [entity |-> entityOf(target.node), player |-> g.player, route |-> target,
                   epoch |-> g.ownerEpoch, generation |-> g.loginGeneration]
      /\ f.conn = g.conn /\ f.player = g.player
      /\ f.ownerEpoch = g.ownerEpoch /\ f.loginGeneration = g.loginGeneration
      /\ f.lastSceneRoute = g.lastSceneRoute /\ f.enterAfterLeave = g.enterAfterLeave
      /\ f.playerAtReset = g.playerAtReset /\ f.generationAtReset = g.generationAtReset
  BY Zenon, <1>0, <1>p, ForwardEffect
<1>t. /\ f.told.entity = entityOf(target.node) /\ f.told.player = g.player
      /\ f.told.route = target /\ f.told.epoch = g.ownerEpoch
      /\ f.told.generation = g.loginGeneration
  BY <1>1
<1> HIDE DEF f
<1>2. /\ h \in Sessions
      /\ h.scene = target.scene /\ h.node = entityOf(target.node) /\ h.debt = None
      /\ h.conn = f.conn /\ h.player = f.player
      /\ h.ownerEpoch = f.ownerEpoch /\ h.forwardedOwnerEpoch = f.forwardedOwnerEpoch
      /\ h.loginGeneration = f.loginGeneration /\ h.lastSceneRoute = f.lastSceneRoute
      /\ h.resetPending = f.resetPending /\ h.enterAfterLeave = f.enterAfterLeave
      /\ h.playerAtReset = f.playerAtReset /\ h.generationAtReset = f.generationAtReset
      /\ h.told = f.told
  BY Zenon, <1>0, <1>1, CommitEffect
<1>3. target.scene # None
  BY <1>0, SceneEntryAssumption DEF Targets
<1> HIDE DEF h, target
<1>5. Kept(h)
  BY <1>0, <1>1, <1>2, <1>3, <1>t DEF Kept
<1>6. Informed(h)
  <2>1. g.ownerEpoch >= g.ownerEpoch
    BY <1>p
  <2> QED BY Zenon, <1>1, <1>2, <1>t, <2>1 DEF Informed
<1>7. Pointed(h)
  <2>1. /\ entityOf(target.node)[2] = nodes[target.node].entity
        /\ entityOf(target.node)[1] = target.node
    BY DEF entityOf
  <2>2. nodes[target.node].entity <= nodes[target.node].entity
    BY <1>p DEF NodesOK
  <2> QED BY Zenon, <1>1, <1>2, <1>t, <2>1, <2>2 DEF Pointed
<1>8. Entered(h, g)
  BY Zenon, <1>0, <1>1, <1>2, <1>t DEF Entered, Taken, target
<1> QED BY Zenon, <1>5, <1>6, <1>7, <1>8 DEF Settled, h, f, target

\* One attempt at a debt (AttemptPendingSceneEntry).
LEMMA AttemptSettled ==
    ASSUME NodesOK, NEW g, Kept(g), Pointed(g), g.debt # None
    PROVE  Settled(AttemptPendingSceneEntry(g), g)
<1> DEFINE target == g.debt.target
<1>0. /\ g \in Sessions /\ g.debt \in Debts /\ target = g.lastSceneRoute
      /\ g.player # None /\ g.conn # "gone"
  BY DEF Kept, Sessions
<1>1. CASE g.player # target.player
  <2>1. AttemptPendingSceneEntry(g) = [g EXCEPT !.debt = None]
    BY Zenon, <1>0, <1>1 DEF AttemptPendingSceneEntry
  <2>2. /\ [g EXCEPT !.debt = None] \in Sessions /\ [g EXCEPT !.debt = None].debt = None
        /\ SameSession([g EXCEPT !.debt = None], g)
    BY Zenon, <1>0, DebtSet
  <2> QED BY Zenon, <1>0, <1>1, <2>1, <2>2, SameSettled
<1>2. ASSUME NEW b \in BOOLEAN PROVE Settled(Failed(g, b), g)
  <2> DEFINE h == Failed(g, b)
  <2>1. /\ h \in Sessions /\ SameSession(h, g)
        /\ \/ h.debt = None /\ h.conn = "closing"
           \/ h.debt \in Debts /\ h.debt.target = g.debt.target /\ h.conn = g.conn
    BY Zenon, <1>0, FailedEffect
  <2> HIDE DEF h
  <2>2. "closing" # "open"
    OBVIOUS
  <2>3. Settled(h, g)
    BY Zenon, <1>0, <2>1, <2>2, NoneAssumption, SameSettled
  <2> QED BY Zenon, <2>3 DEF h
<1>3. CASE mustForward(g, target) /\ g.player = target.player
  BY Zenon, <1>0, <1>2, <1>3, ForwardSettled DEF AttemptPendingSceneEntry
<1>4. CASE ~mustForward(g, target) /\ g.player = target.player
  BY Zenon, <1>0, <1>2, <1>4, CommitSettled DEF AttemptPendingSceneEntry
<1> QED BY Zenon, <1>1, <1>3, <1>4

\* A debt that is settled, on a connection that is open or not.
LEMMA SettleSettled ==
    ASSUME NodesOK, NEW g, Kept(g), Pointed(g), g.debt = None => Informed(g)
    PROVE  Settled(AttemptAndSettle(g), g)
<1>1. CASE g.debt = None
  BY Zenon, <1>1 DEF AttemptAndSettle, Settled, Entered, Taken
<1>2. CASE g.debt # None /\ g.conn # "open"
  <2>1. AttemptAndSettle(g) = [g EXCEPT !.debt = None]
    BY Zenon, <1>2 DEF AttemptAndSettle
  <2>2. /\ [g EXCEPT !.debt = None] \in Sessions /\ [g EXCEPT !.debt = None].debt = None
        /\ [g EXCEPT !.debt = None].conn = g.conn
        /\ SameSession([g EXCEPT !.debt = None], g)
    BY Zenon, DebtSet DEF Kept
  <2> QED BY Zenon, <1>2, <2>1, <2>2, SameSettled
<1>3. CASE g.debt # None /\ g.conn = "open"
  BY Zenon, <1>3, AttemptSettled DEF AttemptAndSettle
<1> QED BY Zenon, <1>1, <1>2, <1>3

-----------------------------------------------------------------------------
(* The commands *)

\* What a session is apart from what it remembers of the login it left.
LEMMA NotedKept ==
    ASSUME NEW g, NEW c \in Commands, Kept(g), Informed(g), Pointed(g)
    PROVE  LET h == NoteDropped(g, c)
           IN  /\ Kept(h) /\ Informed(h) /\ Pointed(h)
               /\ h.told = g.told
<1>0. g \in Sessions /\ c.player \in Players /\ c.generation \in Nat /\ g.generationAtReset \in Nat
  BY DEF Kept, Sessions, Commands
<1> DEFINE m == max(g.generationAtReset, c.generation)
           h == [g EXCEPT !.playerAtReset = c.player, !.generationAtReset = m]
<1>1. NoteDropped(g, c) = g \/ NoteDropped(g, c) = h
  BY Zenon DEF NoteDropped
<1>2. m \in Nat
  BY <1>0 DEF max
<1> HIDE DEF m
<1>3. h \in Sessions
  BY ZenonT(30), <1>0, <1>2 DEF Sessions
<1>4. /\ h.conn = g.conn /\ h.player = g.player /\ h.scene = g.scene /\ h.node = g.node
      /\ h.ownerEpoch = g.ownerEpoch /\ h.forwardedOwnerEpoch = g.forwardedOwnerEpoch
      /\ h.lastSceneRoute = g.lastSceneRoute /\ h.debt = g.debt /\ h.told = g.told
  BY <1>0 DEF Sessions
<1> HIDE DEF h
<1>5. Kept(h) /\ Informed(h) /\ Pointed(h)
  BY Zenon, <1>3, <1>4 DEF Kept, Informed, Pointed
<1> QED BY Zenon, <1>1, <1>4, <1>5

\* The target of a route is a debt that has not been tried.
LEMMA NewDebt ==
    ASSUME NEW target \in Targets
    PROVE  /\ BeginPendingSceneEntry(target) \in Debts
           /\ BeginPendingSceneEntry(target).target = target
<1>1. 0 \in 0..(kSceneEntryMaxAttempts - 1)
  BY SceneEntryAssumption
<1> QED BY <1>1 DEF BeginPendingSceneEntry, Debts

\* The generation of the session after an event of the player c.player.
merged(g, c) == max(g.loginGeneration, c.generation)

\* RoutePlayer, of a route that is not dropped.
LEMMA RouteTaken ==
    ASSUME NodesOK, NEW g, NEW c \in Commands, c.kind = "route", Kept(g), Pointed(g),
           g.conn # "gone", ~IsFromBeforeLeaveGame(g, c)
    PROVE  LET h == RoutePlayer(g, c)
               q == IF g.player = None THEN c.player ELSE g.player
               m == IF g.player \in {None, c.player} THEN merged(g, c) ELSE g.loginGeneration
           IN  Kept(h) /\ Informed(h) /\ Pointed(h) /\ Taken(h, g, q, m, c.target, g.resetPending)
<1> DEFINE q == IF g.player = None THEN c.player ELSE g.player
           m == IF g.player \in {None, c.player} THEN merged(g, c) ELSE g.loginGeneration
           i == [g EXCEPT !.player = q, !.ownerEpoch = c.target.epoch, !.loginGeneration = m]
           d == BeginPendingSceneEntry(c.target)
           h == [i EXCEPT !.lastSceneRoute = c.target, !.debt = d]
<1>0. /\ g \in Sessions /\ c.player \in Players /\ c.generation \in Nat
      /\ c.target \in Targets /\ c.target.epoch \in 0..MaxEpoch /\ g.loginGeneration \in Nat
  BY DEF Kept, Sessions, Commands, Targets
<1>1. q \in Players /\ m \in Nat
  BY <1>0 DEF merged, max, Sessions
<1>2. d \in Debts /\ d.target = c.target
  BY Zenon, <1>0, NewDebt
<1>3. ApplyRouteIdentity(g, c) = i
  BY Zenon DEF ApplyRouteIdentity, merged
<1>4. RoutePlayer(g, c) = AttemptAndSettle(h)
  BY Zenon, <1>3 DEF RoutePlayer, OnRouteDecision
<1> HIDE DEF q, m, d
<1>5. i \in Sessions
  BY ZenonT(30), <1>0, <1>1 DEF Sessions
<1>6. /\ i.player = q /\ i.ownerEpoch = c.target.epoch /\ i.loginGeneration = m
      /\ i.conn = g.conn /\ i.scene = g.scene /\ i.node = g.node
      /\ i.forwardedOwnerEpoch = g.forwardedOwnerEpoch /\ i.told = g.told
  BY <1>0 DEF Sessions
<1>a. /\ i.resetPending = g.resetPending /\ i.enterAfterLeave = g.enterAfterLeave
      /\ i.playerAtReset = g.playerAtReset /\ i.generationAtReset = g.generationAtReset
  BY <1>0 DEF Sessions
<1> HIDE DEF i
<1>7. h \in Sessions
  BY ZenonT(30), <1>0, <1>2, <1>5 DEF Sessions
<1>8. /\ h.player = i.player /\ h.ownerEpoch = i.ownerEpoch
      /\ h.conn = i.conn /\ h.scene = i.scene /\ h.node = i.node
      /\ h.forwardedOwnerEpoch = i.forwardedOwnerEpoch /\ h.told = i.told
      /\ h.lastSceneRoute = c.target /\ h.debt = d
  BY <1>5 DEF Sessions
<1>b. /\ h.resetPending = i.resetPending /\ h.enterAfterLeave = i.enterAfterLeave
      /\ h.playerAtReset = i.playerAtReset /\ h.generationAtReset = i.generationAtReset
      /\ h.loginGeneration = i.loginGeneration
  BY <1>5 DEF Sessions
<1> HIDE DEF h
<1>9. q # None /\ d # None /\ c.target # None
  BY Zenon, <1>0, <1>1, <1>2, SceneEntryAssumption, NoneAssumption
<1>10. Kept(h)
  BY <1>0, <1>2, <1>6, <1>7, <1>8, <1>9 DEF Kept
<1>11. Pointed(h)
  BY Zenon, <1>6, <1>8 DEF Pointed
<1>12. h.debt # None
  BY Zenon, <1>8, <1>9
<1>13. Settled(AttemptAndSettle(h), h)
  BY Zenon, <1>10, <1>11, <1>12, SettleSettled
<1>14. Taken(AttemptAndSettle(h), g, q, m, c.target, g.resetPending)
  BY Zenon, <1>6, <1>8, <1>13, <1>a, <1>b DEF Settled, Entered, Taken
<1> QED BY Zenon, <1>4, <1>13, <1>14 DEF Settled, q, m

\* BindSession, not dropped: without a debt, the last route of the player becomes
\* one.
LEMMA BindTaken ==
    ASSUME NodesOK, NEW g, NEW c \in Commands, Kept(g), Pointed(g),
           g.conn # "gone", ~IsFromBeforeLeaveGame(g, c)
    PROVE  LET h == BindSession(g, c)
               same == g.player \in {None, c.player}
               m == IF same THEN merged(g, c) ELSE c.generation
           IN  /\ Kept(h) /\ Informed(h) /\ Pointed(h)
               /\ Taken(h, g, c.player, m, g.lastSceneRoute, g.resetPending /\ same)
<1> DEFINE same == g.player \in {None, c.player}
           r == g.resetPending /\ same
           m == IF same THEN merged(g, c) ELSE c.generation
           i == [g EXCEPT !.resetPending = r, !.player = c.player, !.loginGeneration = m,
                          !.pendingEnterGsType = c.login]
           d == BeginPendingSceneEntry(i.lastSceneRoute)
           h == [i EXCEPT !.debt = d]
<1>0. /\ g \in Sessions /\ c.player \in Players /\ c.generation \in Nat
      /\ c.login \in 0..MaxEnters /\ g.loginGeneration \in Nat
  BY DEF Kept, Sessions, Commands
<1>1. r \in BOOLEAN /\ m \in Nat
  BY <1>0 DEF merged, max
<1>2. ApplyLoginBinding(g, c) = i
  BY Zenon DEF ApplyLoginBinding, merged
<1>3. BindSession(g, c) = OnLoginTypeBound(i)
  BY Zenon, <1>2 DEF BindSession
<1> HIDE DEF r, m
<1>5. i \in Sessions
  BY ZenonT(30), <1>0, <1>1 DEF Sessions
<1>6. /\ i.player = c.player /\ i.ownerEpoch = g.ownerEpoch
      /\ i.conn = g.conn /\ i.scene = g.scene /\ i.node = g.node
      /\ i.forwardedOwnerEpoch = g.forwardedOwnerEpoch /\ i.told = g.told
      /\ i.lastSceneRoute = g.lastSceneRoute /\ i.debt = g.debt
  BY <1>0 DEF Sessions
<1>a. /\ i.resetPending = r /\ i.enterAfterLeave = g.enterAfterLeave /\ i.loginGeneration = m
      /\ i.playerAtReset = g.playerAtReset /\ i.generationAtReset = g.generationAtReset
  BY <1>0 DEF Sessions
<1> HIDE DEF i
<1>7. c.player # None
  BY Zenon, <1>0, SceneEntryAssumption
<1>8. Kept(i) /\ Pointed(i)
  BY Zenon, <1>5, <1>6, <1>7 DEF Kept, Pointed
<1>9. ASSUME NEW f, Settled(f, i), BindSession(g, c) = f
      PROVE  /\ Kept(f) /\ Informed(f) /\ Pointed(f)
             /\ Taken(f, g, c.player, m, g.lastSceneRoute, r)
  BY Zenon, <1>6, <1>9, <1>a DEF Settled, Entered, Taken
<1>10. CASE i.debt = None /\ i.lastSceneRoute # None /\ i.lastSceneRoute.player = i.player
  <2>0. i.lastSceneRoute \in Targets
    BY <1>5, <1>10 DEF Sessions
  <2>1. d \in Debts /\ d.target = i.lastSceneRoute
    BY Zenon, <2>0, NewDebt
  <2> HIDE DEF d
  <2>2. h \in Sessions /\ h.debt = d /\ h.conn = i.conn /\ SameSession(h, i)
    BY Zenon, <1>5, <2>1, DebtSet
  <2> HIDE DEF h
  <2>3. Kept(h) /\ Pointed(h)
    BY Zenon, <1>0, <1>6, <1>8, <1>10, <2>1, <2>2 DEF Kept, Pointed, SameSession
  <2>4. h.debt # None
    BY Zenon, <2>1, <2>2, NoneAssumption
  <2>5. Settled(AttemptAndSettle(h), h)
    BY Zenon, <2>3, <2>4, SettleSettled
  <2>6. Settled(AttemptAndSettle(h), i)
    BY Zenon, <2>2, <2>5 DEF Settled, Entered, Taken, SameSession
  <2>7. OnLoginTypeBound(i) = AttemptAndSettle(h)
    BY Zenon, <1>10 DEF OnLoginTypeBound, h, d
  <2> QED BY Zenon, <1>3, <1>9, <2>6, <2>7 DEF m, r
<1>11. CASE ~(i.debt = None /\ i.lastSceneRoute # None /\ i.lastSceneRoute.player = i.player)
  <2>1. i.debt = None => Informed(i)
    BY Zenon, <1>8, <1>11 DEF Informed, Kept
  <2>2. Settled(AttemptAndSettle(i), i)
    BY Zenon, <1>8, <2>1, SettleSettled
  <2>3. OnLoginTypeBound(i) = AttemptAndSettle(i)
    BY Zenon, <1>11 DEF OnLoginTypeBound
  <2> QED BY Zenon, <1>3, <1>9, <2>2, <2>3 DEF m, r
<1> QED BY Zenon, <1>10, <1>11

\* The commands that are dropped leave the session as it is but for what it knows
\* of the login it left.
LEMMA DroppedKept ==
    ASSUME NEW g, NEW c \in Commands, IsFromBeforeLeaveGame(g, c)
    PROVE  BindSession(g, c) = NoteDropped(g, c) /\ RoutePlayer(g, c) = NoteDropped(g, c)
BY Zenon DEF BindSession, RoutePlayer

\* Whatever the gate takes from its partition.
Handled(g, c) == IF c.kind = "bind" THEN BindSession(g, c) ELSE RoutePlayer(g, c)

\* A Bind or route that is delivered, accepted or dropped.
LEMMA HandledKept ==
    ASSUME NodesOK, NEW g, NEW c \in Commands, Kept(g), Informed(g), Pointed(g), g.conn # "gone"
    PROVE  LET h == Handled(g, c)
           IN  Kept(h) /\ Informed(h) /\ Pointed(h) /\ (g.told # None => h.told # None)
<1>1. CASE IsFromBeforeLeaveGame(g, c)
  BY Zenon, <1>1, DroppedKept, NotedKept DEF Handled
<1>2. CASE ~IsFromBeforeLeaveGame(g, c) /\ c.kind = "bind"
  <2> DEFINE h == BindSession(g, c)
  <2>1. Kept(h) /\ Informed(h) /\ Pointed(h) /\ (h.told = g.told \/ h.told \in Tellings)
    BY Zenon, <1>2, BindTaken DEF Taken
  <2>2. Handled(g, c) = h
    BY Zenon, <1>2 DEF Handled
  <2> HIDE DEF h
  <2> QED BY Zenon, <2>1, <2>2, NoneAssumption
<1>3. CASE ~IsFromBeforeLeaveGame(g, c) /\ c.kind # "bind"
  <2>1. c.kind = "route"
    BY <1>3 DEF Commands
  <2> DEFINE h == RoutePlayer(g, c)
  <2>2. Kept(h) /\ Informed(h) /\ Pointed(h) /\ (h.told = g.told \/ h.told \in Tellings)
    BY Zenon, <1>3, <2>1, RouteTaken DEF Taken
  <2>3. Handled(g, c) = h
    BY Zenon, <1>3 DEF Handled
  <2> HIDE DEF h
  <2> QED BY Zenon, <2>2, <2>3, NoneAssumption
<1> QED BY Zenon, <1>1, <1>2, <1>3

\* Deliver: the commands left in the partition are commands.
LEMMA DeliverKept ==
    ASSUME SInv, gate.conn # "gone", Deliver
    PROVE  SInv' /\ (gate.told # None => gate'.told # None)
<1> DEFINE c == Head(log)
<1>1. c \in Commands /\ log' \in Seq(Commands)
  BY DEF SInv, UpstreamOK, Deliver
<1>2. gate' = Handled(gate, c)
  BY Zenon DEF Deliver, Handled
<1>3. nodes' = nodes /\ chains' = chains /\ placed' = placed /\ moves' = moves /\ left' = left
  BY Zenon DEF Deliver, upstream
<1> HIDE DEF c
<1>4. /\ Kept(gate') /\ Informed(gate') /\ (gate.told # None => gate'.told # None)
      /\ Pointed(Handled(gate, c))
  BY Zenon, <1>1, <1>2, HandledKept DEF SInv
<1>5. Pointed(gate)'
  BY Zenon, <1>2, <1>3, <1>4 DEF Pointed, alive, known, entityOf
<1>6. UpstreamOK' /\ NodesOK'
  BY Zenon, <1>1, <1>3 DEF SInv, UpstreamOK, NodesOK
<1> QED BY Zenon, <1>4, <1>5, <1>6 DEF SInv, Kept, Informed

-----------------------------------------------------------------------------
(* The client *)

\* ExitGame goes to the node of the session; no scene is told any more.
LEMMA NotifyEffect ==
    ASSUME NEW g \in Sessions
    PROVE  LET h == NotifySceneExitGame(g)
           IN  /\ h \in Sessions /\ h.told = None
               /\ (g.node # None /\ alive(g.node) /\ nodes[g.node[1]].link # "down" => h.exit = g.node)
               /\ h.player = g.player /\ h.loginGeneration = g.loginGeneration
               /\ h.lastSceneRoute = g.lastSceneRoute /\ h.debt = g.debt
               /\ h.ownerEpoch = g.ownerEpoch
               /\ h.resetPending = g.resetPending /\ h.enterAfterLeave = g.enterAfterLeave
               /\ h.playerAtReset = g.playerAtReset /\ h.generationAtReset = g.generationAtReset
<1> DEFINE x == IF g.node # None /\ alive(g.node) /\ nodes[g.node[1]].link # "down"
                THEN g.node ELSE None
           h == [g EXCEPT !.told = None, !.exit = x]
<1>1. x \in Entities \cup {None}
  BY DEF Sessions
<1>2. NotifySceneExitGame(g) = h
  BY Zenon DEF NotifySceneExitGame
<1> HIDE DEF x
<1>3. h \in Sessions
  BY ZenonT(30), <1>1 DEF Sessions
<1>4. /\ h.told = None /\ h.exit = x /\ h.player = g.player /\ h.loginGeneration = g.loginGeneration
      /\ h.lastSceneRoute = g.lastSceneRoute /\ h.debt = g.debt /\ h.ownerEpoch = g.ownerEpoch
  BY DEF Sessions
<1>5. /\ h.resetPending = g.resetPending /\ h.enterAfterLeave = g.enterAfterLeave
      /\ h.playerAtReset = g.playerAtReset /\ h.generationAtReset = g.generationAtReset
  BY DEF Sessions
<1> HIDE DEF h
<1> QED BY Zenon, <1>2, <1>3, <1>4, <1>5 DEF x

\* What LeaveGame clears of a session.
LEMMA PlaceCleared ==
    ASSUME NEW g \in Sessions
    PROVE  [g EXCEPT !.node = None, !.scene = None] \in Sessions
BY ZenonT(30) DEF Sessions

\* LeaveGame clears the pending entry ...
LEMMA EntryCleared ==
    ASSUME NEW g \in Sessions
    PROVE  [g EXCEPT !.pendingEnterGsType = 0, !.debt = None, !.lastSceneRoute = None] \in Sessions
<1>1. 0 \in 0..MaxEnters
  BY SceneEntryAssumption
<1> QED BY ZenonT(30), <1>1 DEF Sessions

\* ... and the epochs, within the types.
LEMMA EpochsCleared ==
    ASSUME NEW g \in Sessions
    PROVE  [g EXCEPT !.ownerEpoch = 0, !.forwardedOwnerEpoch = 0] \in Sessions
<1>1. 0 \in 0..MaxEpoch
  BY SceneEntryAssumption
<1> QED BY ZenonT(30), <1>1 DEF Sessions

\* LeaveGame: the session forgets its scene and its route, and remembers player and
\* generation of the login that is left.
LEMMA LeaveEffect ==
    ASSUME NEW g \in Sessions
    PROVE  LET h == OnClientLeaveGame(g)
               again == g.resetPending /\ g.player \in {None, g.playerAtReset}
           IN  /\ h \in Sessions /\ h.told = None /\ h.lastSceneRoute = None /\ h.debt = None
               /\ (g.node # None /\ alive(g.node) /\ nodes[g.node[1]].link # "down" => h.exit = g.node)
               /\ h.player = g.player /\ h.loginGeneration = g.loginGeneration
               /\ h.resetPending = TRUE /\ h.enterAfterLeave = FALSE
               /\ h.playerAtReset = IF again THEN g.playerAtReset ELSE g.player
               /\ h.generationAtReset = max(IF again THEN g.generationAtReset ELSE 0, g.loginGeneration)
<1> DEFINE i == NotifySceneExitGame(g)
           again == i.resetPending /\ i.player \in {None, i.playerAtReset}
           q == IF again THEN i.playerAtReset ELSE i.player
           m == max(IF again THEN i.generationAtReset ELSE 0, i.loginGeneration)
           h == [i EXCEPT !.node = None, !.scene = None, !.pendingEnterGsType = 0, !.debt = None,
                          !.lastSceneRoute = None, !.ownerEpoch = 0, !.forwardedOwnerEpoch = 0,
                          !.playerAtReset = q, !.generationAtReset = m,
                          !.resetPending = TRUE, !.enterAfterLeave = FALSE]
<1>1. /\ i \in Sessions /\ i.told = None
      /\ (g.node # None /\ alive(g.node) /\ nodes[g.node[1]].link # "down" => i.exit = g.node)
      /\ i.player = g.player /\ i.loginGeneration = g.loginGeneration
      /\ i.resetPending = g.resetPending
      /\ i.playerAtReset = g.playerAtReset /\ i.generationAtReset = g.generationAtReset
  BY Zenon, NotifyEffect
<1>2. OnClientLeaveGame(g) = h
  BY Zenon DEF OnClientLeaveGame, ResetSceneRoute
<1> HIDE DEF i
<1>3. q \in Players \cup {None}
  BY <1>1 DEF Sessions
<1>4. m \in Nat
  <2>1. i.generationAtReset \in Nat /\ i.loginGeneration \in Nat
    BY <1>1 DEF Sessions
  <2> QED BY <2>1 DEF max
<1> HIDE DEF q, m
<1>6. h \in Sessions
  <2> DEFINE a == [i EXCEPT !.node = None, !.scene = None]
             b == [a EXCEPT !.pendingEnterGsType = 0, !.debt = None, !.lastSceneRoute = None]
             d == [b EXCEPT !.ownerEpoch = 0, !.forwardedOwnerEpoch = 0]
  <2>1. a \in Sessions
    BY Zenon, <1>1, PlaceCleared
  <2>2. h = [d EXCEPT !.playerAtReset = q, !.generationAtReset = m,
                      !.resetPending = TRUE, !.enterAfterLeave = FALSE]
    OBVIOUS
  <2> HIDE DEF a
  <2>3. b \in Sessions
    BY Zenon, <2>1, EntryCleared
  <2> HIDE DEF b
  <2>4. d \in Sessions
    BY Zenon, <2>3, EpochsCleared
  <2> HIDE DEF d, h
  <2> QED BY ZenonT(30), <1>3, <1>4, <2>2, <2>4 DEF Sessions
<1>7. /\ h.debt = None /\ h.lastSceneRoute = None /\ h.told = i.told /\ h.exit = i.exit
      /\ h.playerAtReset = q /\ h.generationAtReset = m
      /\ h.resetPending = TRUE /\ h.enterAfterLeave = FALSE
      /\ h.player = i.player /\ h.loginGeneration = i.loginGeneration
  BY <1>1 DEF Sessions
<1> HIDE DEF h
<1> QED BY Zenon, <1>1, <1>2, <1>6, <1>7 DEF q, m

-----------------------------------------------------------------------------
(* The steps *)

\* A step of the session leaves nodes, login and scene manager alone.
LEMMA RestKept ==
    ASSUME NodesOK, UpstreamOK, UNCHANGED <<nodes, log, upstream>>
    PROVE  NodesOK' /\ UpstreamOK'
BY Zenon DEF NodesOK, UpstreamOK, upstream

\* A scene that lives and was told is the node of the session.
LEMMA Holder ==
    ASSUME SInv, gate.told # None, alive(gate.told.entity)
    PROVE  gate.node = gate.told.entity /\ gate.node # None
<1>1. gate.told.entity \in Entities
  BY DEF SInv, Kept, Sessions, Tellings
<1>2. gate.node = gate.told.entity
  BY Zenon DEF SInv, Pointed
<1> QED BY Zenon, <1>1, <1>2, NoneAssumption

\* LeaveGame.
LEMMA LeaveKept ==
    ASSUME SInv, gate.conn # "gone", ClientLeaveGame
    PROVE  SInv' /\ HolderGetsExitStep
<1>1. /\ gate' \in Sessions /\ gate'.told = None /\ gate'.lastSceneRoute = None /\ gate'.debt = None
      /\ (gate.node # None /\ alive(gate.node) /\ nodes[gate.node[1]].link # "down"
              => gate'.exit = gate.node)
  BY Zenon, LeaveEffect DEF ClientLeaveGame, SInv, Kept
<1>2. NodesOK' /\ UpstreamOK'
  <2>1. Len(chains) \in Nat
    BY DEF SInv, UpstreamOK
  <2> QED BY Zenon, <2>1 DEF SInv, NodesOK, UpstreamOK, ClientLeaveGame
<1>3. Kept(gate)' /\ Informed(gate)' /\ Pointed(gate)'
  BY Zenon, <1>1 DEF Kept, Informed, Pointed
<1>4. HolderGetsExitStep
  BY Zenon, <1>1, Holder DEF HolderGetsExitStep
<1> QED BY Zenon, <1>2, <1>3, <1>4 DEF SInv

\* The connection is down.
LEMMA DownKept ==
    ASSUME SInv, gate.conn # "gone", ConnectionDown
    PROVE  SInv' /\ HolderGetsExitStep
<1> DEFINE i == NotifySceneExitGame(gate)
<1>1. /\ i \in Sessions /\ i.told = None /\ i.player = gate.player
      /\ i.lastSceneRoute = gate.lastSceneRoute /\ i.ownerEpoch = gate.ownerEpoch
      /\ (gate.node # None /\ alive(gate.node) /\ nodes[gate.node[1]].link # "down"
              => i.exit = gate.node)
  BY Zenon, NotifyEffect DEF SInv, Kept
<1>2. gate' = [i EXCEPT !.debt = None, !.conn = "gone"]
  BY ZenonT(30) DEF ConnectionDown
<1> HIDE DEF i
<1>3. gate' \in Sessions /\ gate'.debt = None /\ gate'.conn = "gone" /\ SameSession(gate', i)
  BY Zenon, <1>1, <1>2, GivenUp
<1>4. /\ gate'.told = i.told /\ gate'.exit = i.exit
      /\ gate'.player = i.player /\ gate'.lastSceneRoute = i.lastSceneRoute
      /\ gate'.ownerEpoch = i.ownerEpoch
  BY Zenon, <1>3 DEF SameSession
<1>5. NodesOK' /\ UpstreamOK'
  BY Zenon, RestKept DEF SInv, ConnectionDown
<1>6. Kept(gate)' /\ Informed(gate)' /\ Pointed(gate)'
  BY Zenon, <1>1, <1>3, <1>4 DEF SInv, Kept, Informed, Pointed
<1>7. HolderGetsExitStep
  BY Zenon, <1>1, <1>4, Holder DEF HolderGetsExitStep
<1> QED BY Zenon, <1>5, <1>6, <1>7 DEF SInv

\* A step that attempts, moves or drops the debt, and tells a scene or not.
LEMMA SettledKept ==
    ASSUME SInv, Settled(gate', gate), UNCHANGED <<nodes, log, upstream>>
    PROVE  SInv' /\ HolderGetsExitStep
<1>1. NodesOK' /\ UpstreamOK'
  BY Zenon, RestKept DEF SInv
<1>2. Kept(gate)' /\ Informed(gate)'
  BY Zenon DEF Settled, Kept, Informed
<1>3. Pointed(gate)'
  BY Zenon DEF Settled, Pointed, alive, known, entityOf
<1>4. gate.told # None => gate'.told # None
  BY Zenon, NoneAssumption DEF Settled, Entered, Taken
<1> QED BY Zenon, <1>1, <1>2, <1>3, <1>4 DEF SInv, HolderGetsExitStep

\* A debt that is counted or becomes due keeps its target.
LEMMA DebtAges ==
    ASSUME NEW g \in Sessions, g.debt # None, NEW d \in Debts, d.target = g.debt.target,
           Kept(g), Pointed(g)
    PROVE  Settled([g EXCEPT !.debt = d], g)
<1> DEFINE h == [g EXCEPT !.debt = d]
<1>1. h \in Sessions /\ h.debt = d /\ h.conn = g.conn /\ SameSession(h, g)
  BY Zenon, DebtSet
<1>2. d # None /\ g.conn # "gone"
  BY Zenon, NoneAssumption DEF Kept
<1> HIDE DEF h
<1>3. Settled(h, g)
  BY Zenon, <1>1, <1>2, SameSettled
<1> QED BY Zenon, <1>3 DEF h

\* Shutdown.
LEMMA ShutdownSettled ==
    ASSUME SInv, Shutdown
    PROVE  Settled(gate', gate)
<1>0. gate \in Sessions
  BY Zenon DEF SInv, Kept
<1>1. gate' \in Sessions
  BY <1>0 DEF Shutdown, Sessions
<1>2. gate'.conn = "closing" /\ gate'.debt = gate.debt
  BY <1>0 DEF Shutdown, Sessions
<1>3. SameSession(gate', gate)
  BY <1>0 DEF Shutdown, Sessions, SameSession
<1>4. "closing" # "open" /\ "closing" # "gone"
  OBVIOUS
<1> QED BY Zenon, <1>1, <1>2, <1>3, <1>4, SameSettled DEF SInv

\* Time passes for the debt.
LEMMA TickSettled ==
    ASSUME SInv, Tick
    PROVE  Settled(gate', gate)
<1>0. gate \in Sessions /\ gate.debt \in Debts /\ gate.debt # None
  BY DEF SInv, Kept, Sessions, Tick
<1> DEFINE a == gate.debt.age + 1
           d == [gate.debt EXCEPT !.age = a]
<1>1. gate' = [gate EXCEPT !.debt = d]
  BY <1>0 DEF Tick, Sessions, Debts
<1>2. a \in 0..2
  BY <1>0 DEF Tick, Debts
<1> HIDE DEF a
<1>3. d \in Debts /\ d.target = gate.debt.target
  BY <1>0, <1>2 DEF Debts
<1> HIDE DEF d
<1> QED BY Zenon, <1>0, <1>1, <1>3, DebtAges DEF SInv

\* A debt that is due.
LEMMA DueDebt ==
    ASSUME Kept(gate), Pointed(gate), gate.debt # None
    PROVE  Settled([gate EXCEPT !.debt.due = TRUE], gate)
<1>0. gate \in Sessions /\ gate.debt \in Debts
  BY DEF Kept, Sessions
<1> DEFINE d == [gate.debt EXCEPT !.due = TRUE]
<1>1. [gate EXCEPT !.debt.due = TRUE] = [gate EXCEPT !.debt = d]
  BY <1>0 DEF Sessions, Debts
<1>3. d \in Debts /\ d.target = gate.debt.target
  BY ZenonT(30), <1>0 DEF Debts
<1> HIDE DEF d
<1> QED BY Zenon, <1>0, <1>1, <1>3, DebtAges

\* The backoff of a debt ends.
LEMMA BackoffSettled ==
    ASSUME SInv, BackoffOver
    PROVE  Settled(gate', gate)
BY Zenon, DueDebt DEF BackoffOver, SInv

\* The sweep.
LEMMA RetrySettled ==
    ASSUME SInv, RetryDueSceneEntries
    PROVE  Settled(gate', gate)
BY Zenon, SettleSettled DEF RetryDueSceneEntries, SInv

\* The steps that touch the debt or the connection only.
DebtStep == Shutdown \/ Tick \/ BackoffOver \/ RetryDueSceneEntries

\* The steps of the retry loop and of shutdown enter a scene or settle the debt.
LEMMA DebtStepSettled ==
    ASSUME SInv, DebtStep
    PROVE  Settled(gate', gate) /\ UNCHANGED <<nodes, log, upstream, seen>>
<1>1. Settled(gate', gate)
  BY Zenon, ShutdownSettled, TickSettled, BackoffSettled, RetrySettled DEF DebtStep
<1>2. UNCHANGED <<nodes, log, upstream, seen>>
  BY Zenon DEF DebtStep, Shutdown, Tick, BackoffOver, RetryDueSceneEntries
<1> QED BY Zenon, <1>1, <1>2

\* EnterGame: one more login.
LEMMA EnterEffect ==
    ASSUME NEW g \in Sessions
    PROVE  LET h == [g EXCEPT !.enterAfterLeave = TRUE]
           IN  /\ h \in Sessions /\ h.enterAfterLeave = TRUE
               /\ h.conn = g.conn /\ h.debt = g.debt /\ h.player = g.player /\ h.scene = g.scene
               /\ h.node = g.node /\ h.ownerEpoch = g.ownerEpoch
               /\ h.forwardedOwnerEpoch = g.forwardedOwnerEpoch
               /\ h.loginGeneration = g.loginGeneration /\ h.lastSceneRoute = g.lastSceneRoute
               /\ h.resetPending = g.resetPending /\ h.playerAtReset = g.playerAtReset
               /\ h.generationAtReset = g.generationAtReset /\ h.told = g.told
<1> DEFINE h == [g EXCEPT !.enterAfterLeave = TRUE]
<1>1. h \in Sessions
  BY ZenonT(30) DEF Sessions
<1>2. /\ h.enterAfterLeave = TRUE
      /\ h.conn = g.conn /\ h.debt = g.debt /\ h.player = g.player /\ h.scene = g.scene
      /\ h.node = g.node /\ h.ownerEpoch = g.ownerEpoch
  BY DEF Sessions
<1>3. /\ h.forwardedOwnerEpoch = g.forwardedOwnerEpoch
      /\ h.loginGeneration = g.loginGeneration /\ h.lastSceneRoute = g.lastSceneRoute
      /\ h.resetPending = g.resetPending /\ h.playerAtReset = g.playerAtReset
      /\ h.generationAtReset = g.generationAtReset /\ h.told = g.told
  BY DEF Sessions
<1> QED BY Zenon, <1>1, <1>2, <1>3

\* EnterGame keeps the invariant and tells no scene anything.
LEMMA EnterKept ==
    ASSUME SInv, NEW p \in Players, ClientEnterGame(p)
    PROVE  SInv' /\ HolderGetsExitStep
<1>0. gate \in Sessions
  BY Zenon DEF SInv, Kept
<1>1. /\ gate' \in Sessions
      /\ gate'.conn = gate.conn /\ gate'.debt = gate.debt /\ gate'.player = gate.player
      /\ gate'.scene = gate.scene /\ gate'.node = gate.node /\ gate'.ownerEpoch = gate.ownerEpoch
      /\ gate'.forwardedOwnerEpoch = gate.forwardedOwnerEpoch
      /\ gate'.lastSceneRoute = gate.lastSceneRoute /\ gate'.told = gate.told
  BY Zenon, <1>0, EnterEffect DEF ClientEnterGame
<1>2. /\ nodes' = nodes /\ log' = log /\ placed' = placed /\ moves' = moves /\ left' = left
      /\ chains' = Append(chains, [player |-> p, stage |-> "asked", after |-> left])
      /\ Len(chains) < MaxEnters
  BY Zenon DEF ClientEnterGame
<1>3. chains' \in Seq(Chain) /\ Len(chains') <= MaxEnters
  <2>1. [player |-> p, stage |-> "asked", after |-> left] \in Chain
    BY DEF Chain, Stages, SInv, UpstreamOK
  <2>2. chains \in Seq(Chain) /\ MaxEnters \in Nat
    BY Zenon, SceneEntryAssumption DEF SInv, UpstreamOK
  <2> QED BY <1>2, <2>1, <2>2
<1>4. NodesOK' /\ UpstreamOK'
  BY Zenon, <1>2, <1>3 DEF SInv, NodesOK, UpstreamOK
<1>5. Kept(gate)' /\ Informed(gate)'
  BY Zenon, <1>1 DEF SInv, Kept, Informed
<1>6. Pointed(gate)'
  BY Zenon, <1>1, <1>2 DEF SInv, Pointed, alive, known, entityOf
<1> QED BY Zenon, <1>1, <1>4, <1>5, <1>6 DEF SInv, HolderGetsExitStep

-----------------------------------------------------------------------------
(* The scene nodes *)

\* The nodes as they were keep their entities unless one registers anew.
LEMMA LinkSet ==
    ASSUME NodesOK, NEW n \in Nodes, NEW l \in {"absent", "down", "up", "ready"}, setLink(n, l)
    PROVE  /\ NodesOK'
           /\ \A x \in Nodes : /\ nodes'[x].entity = nodes[x].entity
                               /\ nodes'[x].link = IF x = n THEN l ELSE nodes[x].link
BY DEF NodesOK, setLink

\* What was told names a node.
LEMMA ToldNode ==
    ASSUME Kept(gate), gate.told # None
    PROVE  /\ gate.told.entity[1] \in Nodes /\ gate.told.entity[2] \in Nat
           /\ gate.told.entity = <<gate.told.entity[1], gate.told.entity[2]>>
BY DEF Kept, Sessions, Tellings, Entities

\* A scene node that leaves the registry keeps the invariant.
LEMMA RemovedKept ==
    ASSUME SInv, NEW n \in Nodes, NodeRemoved(n)
    PROVE  SInv' /\ HolderGetsExitStep
<1>0. gate \in Sessions
  BY Zenon DEF SInv, Kept
<1>1. /\ NodesOK'
      /\ \A x \in Nodes : /\ nodes'[x].entity = nodes[x].entity
                          /\ nodes'[x].link = IF x = n THEN "absent" ELSE nodes[x].link
  BY Zenon, LinkSet DEF SInv, NodeRemoved
<1>2. UpstreamOK'
  BY Zenon DEF SInv, UpstreamOK, NodeRemoved, upstream
<1> DEFINE h == [gate EXCEPT !.node = None]
<1>3. /\ h \in Sessions /\ h.node = None
      /\ h.conn = gate.conn /\ h.debt = gate.debt /\ h.player = gate.player
      /\ h.scene = gate.scene /\ h.ownerEpoch = gate.ownerEpoch
      /\ h.forwardedOwnerEpoch = gate.forwardedOwnerEpoch
      /\ h.lastSceneRoute = gate.lastSceneRoute /\ h.told = gate.told
  <2>1. h \in Sessions
    BY <1>0 DEF Sessions
  <2>2. /\ h.node = None
        /\ h.conn = gate.conn /\ h.debt = gate.debt /\ h.player = gate.player
        /\ h.scene = gate.scene /\ h.ownerEpoch = gate.ownerEpoch
        /\ h.forwardedOwnerEpoch = gate.forwardedOwnerEpoch
        /\ h.lastSceneRoute = gate.lastSceneRoute /\ h.told = gate.told
    BY <1>0 DEF Sessions
  <2> QED BY Zenon, <2>1, <2>2
<1>4. gate' = gate \/ (gate.node = entityOf(n) /\ gate' = h)
  BY Zenon DEF NodeRemoved
<1> HIDE DEF h
<1>5. gate'.told = gate.told /\ Kept(gate)' /\ Informed(gate)'
  BY Zenon, <1>3, <1>4 DEF SInv, Kept, Informed
<1>6. Pointed(gate)'
  <2> SUFFICES ASSUME gate.told # None
               PROVE  /\ gate.told.entity[2] <= nodes'[gate.told.entity[1]].entity
                      /\ alive(gate.told.entity)' => gate'.node = gate.told.entity
    BY Zenon, <1>5 DEF Pointed, alive, known, entityOf
  <2> DEFINE e == gate.told.entity
  <2>1. e[1] \in Nodes /\ nodes'[e[1]].entity = nodes[e[1]].entity
    BY Zenon, <1>1, ToldNode DEF SInv
  <2>2. e[2] <= nodes[e[1]].entity /\ (alive(e) => gate.node = e)
    BY Zenon DEF SInv, Pointed
  <2>3. ASSUME alive(e)' PROVE gate'.node = e
    <3>1. nodes'[e[1]].link # "absent" /\ <<e[1], nodes[e[1]].entity>> = e
      BY Zenon, <2>1, <2>3, <1>5 DEF alive, known, entityOf
    <3>2. e[1] # n /\ alive(e)
      BY Zenon, <1>1, <2>1, <3>1 DEF alive, known, entityOf
    <3>3. gate.node # entityOf(n)
      <4>1. entityOf(n)[1] = n
        BY DEF entityOf
      <4> QED BY Zenon, <2>2, <3>2, <4>1
    <3> QED BY Zenon, <1>4, <2>2, <3>2, <3>3
  <2> QED BY Zenon, <1>5, <2>1, <2>2, <2>3
<1> QED BY Zenon, <1>1, <1>2, <1>5, <1>6 DEF SInv, HolderGetsExitStep

\* A node that registers anew has an entity number that was never told.
LEMMA RegisteredKept ==
    ASSUME SInv, NEW n \in Nodes, NodeRegistered(n)
    PROVE  SInv' /\ HolderGetsExitStep
<1>1. /\ NodesOK' /\ nodes'[n].entity = nodes[n].entity + 1
      /\ \A x \in Nodes : x # n => nodes'[x] = nodes[x]
  BY SceneEntryAssumption DEF SInv, NodesOK, NodeRegistered
<1>2. gate' = gate /\ UpstreamOK'
  BY Zenon DEF SInv, UpstreamOK, NodeRegistered, upstream
<1>3. Kept(gate)' /\ Informed(gate)'
  BY Zenon, <1>2 DEF SInv, Kept, Informed
<1>4. Pointed(gate)'
  <2> SUFFICES ASSUME gate.told # None
               PROVE  /\ gate.told.entity[2] <= nodes'[gate.told.entity[1]].entity
                      /\ alive(gate.told.entity)' => gate.node = gate.told.entity
    BY Zenon, <1>2 DEF Pointed, alive, known, entityOf
  <2> DEFINE e == gate.told.entity
  <2>1. e[1] \in Nodes /\ e[2] \in Nat /\ nodes[e[1]].entity \in Nat
    <3>1. \A x \in Nodes : nodes[x].entity \in Nat
      BY DEF SInv, NodesOK
    <3> QED BY Zenon, <3>1, ToldNode DEF SInv
  <2>2. e[2] <= nodes[e[1]].entity /\ (alive(e) => gate.node = e)
    BY Zenon DEF SInv, Pointed
  <2> HIDE DEF e
  <2>3. CASE e[1] # n
    <3>1. nodes'[e[1]] = nodes[e[1]]
      BY Zenon, <1>1, <2>1, <2>3
    <3> QED BY Zenon, <1>2, <2>2, <3>1 DEF alive, known, entityOf, e
  <2>4. CASE e[1] = n
    <3>1. e[2] <= nodes'[e[1]].entity /\ e[2] # nodes'[e[1]].entity
      BY <1>1, <2>1, <2>2, <2>4
    <3>2. alive(e)' => e[2] = nodes'[e[1]].entity
      <4> SUFFICES ASSUME <<e[1], nodes'[e[1]].entity>> = e PROVE e[2] = nodes'[e[1]].entity
        BY Zenon, <1>2 DEF alive, entityOf, e
      <4>1. <<e[1], nodes'[e[1]].entity>>[2] = nodes'[e[1]].entity
        OBVIOUS
      <4> QED BY Zenon, <4>1
    <3> QED BY Zenon, <1>2, <3>1, <3>2 DEF e
  <2> QED BY Zenon, <2>3, <2>4
<1> QED BY Zenon, <1>1, <1>2, <1>3, <1>4 DEF SInv, HolderGetsExitStep

\* A link goes up or down, or is ready: no entity comes or goes.
LEMMA LinkKept ==
    ASSUME SInv, NEW n \in Nodes, NEW l \in {"down", "up", "ready"}, setLink(n, l),
           known(n), Settled(gate', gate), UNCHANGED <<log, upstream>>
    PROVE  SInv' /\ HolderGetsExitStep
<1>1. /\ NodesOK'
      /\ \A x \in Nodes : /\ nodes'[x].entity = nodes[x].entity
                          /\ nodes'[x].link = IF x = n THEN l ELSE nodes[x].link
  BY ZenonT(30), LinkSet DEF SInv
<1>2. UpstreamOK'
  BY Zenon DEF SInv, UpstreamOK, upstream
<1>3. Kept(gate)' /\ Informed(gate)'
  BY Zenon DEF Settled, Kept, Informed
<1>4. "absent" \notin {"down", "up", "ready"}
  OBVIOUS
<1>5. Pointed(gate)'
  <2> SUFFICES ASSUME gate'.told # None
               PROVE  /\ gate'.told.entity[2] <= nodes'[gate'.told.entity[1]].entity
                      /\ alive(gate.told.entity)' => gate'.node = gate'.told.entity
    BY Zenon DEF Pointed
  <2> DEFINE e == gate'.told.entity
  <2>1. e[1] \in Nodes
    BY Zenon, <1>3 DEF Settled, Kept, Sessions, Tellings, Entities
  <2>2. e[2] <= nodes[e[1]].entity /\ (alive(e) => gate'.node = e)
    BY Zenon DEF Settled, Pointed
  <2>3. alive(gate.told.entity)' => alive(e)
    BY Zenon, <1>1, <1>4, <2>1 DEF alive, known, entityOf
  <2> QED BY Zenon, <1>1, <2>1, <2>2, <2>3
<1>6. gate.told # None => gate'.told # None
  BY Zenon, NoneAssumption DEF Settled, Entered, Taken
<1> QED BY Zenon, <1>1, <1>2, <1>3, <1>5, <1>6 DEF SInv, HolderGetsExitStep

\* The session itself, as it is.
LEMMA SelfSettled ==
    ASSUME SInv
    PROVE  Settled(gate, gate)
BY Zenon DEF SInv, Settled, Entered, Taken

\* What happens to a scene node or its link keeps the invariant.
LEMMA NodeKept ==
    ASSUME SInv, NEW n \in Nodes, NodeStep(n)
    PROVE  SInv' /\ HolderGetsExitStep
<1>0. "absent" \notin {"down", "up", "ready"}
  OBVIOUS
<1>1. CASE LinkUp(n)
  BY Zenon, <1>0, <1>1, LinkKept, SelfSettled DEF LinkUp, known
<1>2. CASE LinkDown(n)
  BY Zenon, <1>0, <1>2, LinkKept, SelfSettled DEF LinkDown, known
<1>3. CASE OnSceneLinkHandshaken(n)
  <2>1. Settled(gate', gate)
    BY Zenon, <1>3, SelfSettled, DueDebt DEF OnSceneLinkHandshaken, SInv
  <2> QED BY Zenon, <1>0, <1>3, <2>1, LinkKept DEF OnSceneLinkHandshaken, known
<1> QED BY Zenon, <1>1, <1>2, <1>3, RemovedKept, RegisteredKept DEF NodeStep

-----------------------------------------------------------------------------
(* Login and the scene manager *)

\* A step of the backend does not touch the session.
LEMMA UpstreamKept ==
    ASSUME SInv, UNCHANGED <<gate, nodes>>, UpstreamOK'
    PROVE  SInv' /\ HolderGetsExitStep
<1>1. NodesOK' /\ Kept(gate)' /\ Informed(gate)'
  BY Zenon DEF SInv, NodesOK, Kept, Informed
<1>2. Pointed(gate)'
  BY Zenon DEF SInv, Pointed, alive, known, entityOf
<1> QED BY Zenon, <1>1, <1>2 DEF SInv, HolderGetsExitStep

\* A login comes to another stage.
LEMMA StageKept ==
    ASSUME UpstreamOK, NEW k \in DOMAIN chains, NEW s \in Stages, stage(k, s)
    PROVE  /\ chains' \in Seq(Chain) /\ Len(chains') = Len(chains) /\ DOMAIN chains' = DOMAIN chains
           /\ k \in 1..MaxEnters /\ chains[k].player \in Players
           /\ \A i \in DOMAIN chains : chains'[i].player = chains[i].player
<1>0. chains \in Seq(Chain) /\ Len(chains) <= MaxEnters /\ MaxEnters \in Nat
  BY Zenon, SceneEntryAssumption DEF UpstreamOK
<1>1. k \in 1..Len(chains) /\ chains[k] \in Chain
  BY <1>0
<1> DEFINE r == [chains[k] EXCEPT !.stage = s]
<1>2. r \in Chain /\ r.player = chains[k].player
  BY <1>1 DEF Chain
<1>3. chains' = [chains EXCEPT ![k] = r]
  BY DEF stage
<1> HIDE DEF r
<1>4. chains' \in Seq(Chain) /\ Len(chains') = Len(chains) /\ DOMAIN chains' = DOMAIN chains
  BY <1>0, <1>1, <1>2, <1>3
<1>5. \A i \in DOMAIN chains : chains'[i].player = chains[i].player
  BY <1>0, <1>2, <1>3
<1>6. k \in 1..MaxEnters
  BY <1>0, <1>1
<1> QED BY Zenon, <1>1, <1>4, <1>5, <1>6 DEF Chain

\* A command goes to the end of the partition.
LEMMA LogKept ==
    ASSUME log \in Seq(Commands), NEW c \in Commands, log' = Append(log, c)
    PROVE  /\ log' \in Seq(Commands)
           /\ \A i \in DOMAIN log' : (i \in DOMAIN log /\ log'[i] = log[i]) \/ log'[i] = c
BY DEF Commands

\* A route goes to the gate, or none does: the epoch of a place is at least one.
Routed(p, k, generation) ==
    /\ log' \in Seq(Commands)
    /\ placed' \in [Players -> [at : (Nodes \X Scenes) \cup {None}, epoch : Nat]]
    /\ \A q \in Players : placed'[q].at # None => placed'[q].epoch >= 1
    /\ \A i \in DOMAIN log' :
          \/ i \in DOMAIN log /\ log'[i] = log[i]
          \/ /\ log'[i].kind = "route" /\ log'[i].player = p /\ log'[i].login = k
             /\ log'[i].generation = generation
             /\ log'[i].target.player = p /\ log'[i].target.login = k

\* What routePlayerToGate does: the player is placed, or is where it was, and a
\* route that is sent is the one asked for.
LEMMA RouteSent ==
    ASSUME UpstreamOK, NEW p \in Players, NEW k \in 1..MaxEnters, NEW generation \in Nat,
           routePlayerToGate(p, k, generation)
    PROVE  Routed(p, k, generation)
<1> DEFINE E(n) == IF onNode(p, n) THEN placed[p].epoch ELSE placed[p].epoch + 1
           A(n, s) == {[at |-> <<n, s>>, epoch |-> E(n)],
                       [at |-> placed[p].at, epoch |-> IF onNode(p, n) THEN E(n) ELSE E(n) + 1]}
           T(n, s) == [player |-> p, node |-> n, scene |-> s, epoch |-> E(n), login |-> k]
           C(n, s) == [kind |-> "route", player |-> p, login |-> k, generation |-> generation,
                       target |-> T(n, s)]
<1>1. PICK n \in Nodes, s \in Scenes :
        /\ \E a \in A(n, s) : a.epoch <= MaxEpoch /\ placed' = [placed EXCEPT ![p] = a]
        /\ log' \in {log, Append(log, C(n, s))}
  BY Zenon DEF routePlayerToGate
<1> DEFINE e == E(n)
           t == T(n, s)
           c == C(n, s)
<1>2. PICK a \in A(n, s) : a.epoch <= MaxEpoch /\ placed' = [placed EXCEPT ![p] = a]
  BY Zenon, <1>1
<1>3. /\ placed[p].epoch \in Nat /\ placed[p].at \in (Nodes \X Scenes) \cup {None}
      /\ placed[p].at # None => placed[p].epoch >= 1
  BY DEF UpstreamOK
<1>4. /\ e \in Nat /\ e >= 1 /\ e <= a.epoch
      /\ a \in [at : (Nodes \X Scenes) \cup {None}, epoch : Nat] /\ a.epoch >= 1
  <2>1. CASE onNode(p, n)
    <3>1. e = placed[p].epoch /\ placed[p].epoch >= 1
      BY Zenon, <1>3, <2>1 DEF onNode
    <3>2. a = [at |-> <<n, s>>, epoch |-> e] \/ a = [at |-> placed[p].at, epoch |-> e]
      BY Zenon, <2>1
    <3> HIDE DEF e
    <3> QED BY <1>3, <3>1, <3>2
  <2>2. CASE ~onNode(p, n)
    <3>1. e = placed[p].epoch + 1
      BY Zenon, <2>2
    <3>2. a = [at |-> <<n, s>>, epoch |-> e] \/ a = [at |-> placed[p].at, epoch |-> e + 1]
      BY Zenon, <2>2
    <3> HIDE DEF e
    <3> QED BY <1>3, <3>1, <3>2
  <2> QED BY Zenon, <2>1, <2>2
<1> HIDE DEF E, A
<1>5. e \in 1..MaxEpoch
  <2> HIDE DEF e
  <2> QED BY <1>2, <1>4, SceneEntryAssumption
<1>6. t \in Targets /\ t.player = p /\ t.login = k
  BY <1>5 DEF Targets
<1> HIDE DEF T
<1>7. /\ c \in Commands /\ c.kind = "route" /\ c.player = p /\ c.login = k
      /\ c.generation = generation /\ c.target = t
  BY <1>6 DEF Commands
<1> HIDE DEF C
<1>8. /\ log' \in Seq(Commands)
      /\ \A i \in DOMAIN log' : (i \in DOMAIN log /\ log'[i] = log[i]) \/ log'[i] = c
  <2>1. CASE log' = log
    BY Zenon, <2>1 DEF UpstreamOK
  <2>2. CASE log' = Append(log, c)
    BY Zenon, <2>2, <1>7, LogKept DEF UpstreamOK
  <2> QED BY Zenon, <1>1, <2>1, <2>2
<1>9. /\ placed' \in [Players -> [at : (Nodes \X Scenes) \cup {None}, epoch : Nat]]
      /\ placed'[p] = a /\ \A q \in Players : q # p => placed'[q] = placed[q]
  BY <1>2, <1>4 DEF UpstreamOK
<1>10. \A q \in Players : placed'[q].at # None => placed'[q].epoch >= 1
  BY Zenon, <1>4, <1>9 DEF UpstreamOK
<1> HIDE DEF t, c
<1> QED BY Zenon, <1>6, <1>7, <1>8, <1>9, <1>10 DEF Routed

\* A login goes on; BindSession goes to the gate with the generation of the login.
LEMMA ChainKept ==
    ASSUME UpstreamOK, NEW k \in DOMAIN chains,
           BindPlayer(k) \/ SendBindSessionToGate(k) \/ Recheck(k) \/ Abandon(k) \/ EnterScene(k)
    PROVE  /\ UpstreamOK' /\ UNCHANGED <<gate, nodes, left, moves, seen>>
           /\ Len(chains') = Len(chains) /\ DOMAIN chains' = DOMAIN chains
           /\ \A i \in DOMAIN chains : chains'[i].player = chains[i].player
           /\ \A i \in DOMAIN log' :
                 \/ i \in DOMAIN log /\ log'[i] = log[i]
                 \/ /\ log'[i].player = chains[k].player /\ log'[i].login = k
                    /\ log'[i].generation = Generation(chains[k].player, k)
                    /\ log'[i].kind = "route" => /\ log'[i].target.player = chains[k].player
                                                 /\ log'[i].target.login = k
<1> DEFINE p == chains[k].player
           Before(i) == i \in DOMAIN log /\ log'[i] = log[i]
           After(i) == /\ log'[i].player = p /\ log'[i].login = k
                       /\ log'[i].generation = Generation(p, k)
                       /\ log'[i].kind = "route" => log'[i].target.player = p /\ log'[i].target.login = k
<1>0. PICK s \in Stages : stage(k, s)
  BY DEF BindPlayer, SendBindSessionToGate, Recheck, Abandon, EnterScene, Stages
<1>1. /\ chains' \in Seq(Chain) /\ Len(chains') = Len(chains) /\ DOMAIN chains' = DOMAIN chains
      /\ k \in 1..MaxEnters /\ p \in Players
      /\ \A i \in DOMAIN chains : chains'[i].player = chains[i].player
  BY Zenon, <1>0, StageKept
<1>2. UNCHANGED <<gate, nodes, left, moves, seen>>
  BY Zenon DEF BindPlayer, SendBindSessionToGate, Recheck, Abandon, EnterScene
<1>g. Generation(p, k) \in Nat
  BY <1>1, SceneEntryAssumption DEF Generation
<1> HIDE DEF p
<1>3. CASE BindPlayer(k) \/ Recheck(k) \/ Abandon(k)
  <2>1. log' = log /\ placed' = placed
    BY Zenon, <1>3 DEF BindPlayer, Recheck, Abandon
  <2>2. UpstreamOK' /\ \A i \in DOMAIN log' : Before(i)
    BY Zenon, <1>1, <1>2, <2>1 DEF UpstreamOK
  <2> QED BY Zenon, <1>1, <1>2, <2>2
<1>4. CASE SendBindSessionToGate(k)
  <2> DEFINE c == [kind |-> "bind", player |-> p, login |-> k, generation |-> Generation(p, k)]
  <2>1. placed' = placed /\ log' = Append(log, c)
    BY Zenon, <1>4 DEF SendBindSessionToGate, p
  <2>2. /\ c \in Commands /\ c.kind = "bind" /\ c.player = p /\ c.login = k
        /\ c.generation = Generation(p, k)
    BY <1>1, <1>g DEF Commands
  <2> HIDE DEF c
  <2>3. /\ log' \in Seq(Commands)
        /\ \A i \in DOMAIN log' : (i \in DOMAIN log /\ log'[i] = log[i]) \/ log'[i] = c
    BY Zenon, <2>1, <2>2, LogKept DEF UpstreamOK
  <2>4. UpstreamOK'
    BY Zenon, <1>1, <1>2, <2>1, <2>3 DEF UpstreamOK
  <2>5. "bind" # "route"
    OBVIOUS
  <2> QED BY Zenon, <1>1, <1>2, <2>2, <2>3, <2>4, <2>5 DEF p
<1>5. CASE EnterScene(k)
  <2>1. routePlayerToGate(p, k, Generation(p, k))
    BY Zenon, <1>5 DEF EnterScene, p
  <2>2. /\ log' \in Seq(Commands)
        /\ placed' \in [Players -> [at : (Nodes \X Scenes) \cup {None}, epoch : Nat]]
        /\ \A q \in Players : placed'[q].at # None => placed'[q].epoch >= 1
        /\ \A i \in DOMAIN log' :
              \/ i \in DOMAIN log /\ log'[i] = log[i]
              \/ /\ log'[i].kind = "route" /\ log'[i].player = p /\ log'[i].login = k
                 /\ log'[i].generation = Generation(p, k)
                 /\ log'[i].target.player = p /\ log'[i].target.login = k
    <3>1. Routed(p, k, Generation(p, k))
      BY Zenon, <1>1, <1>g, <2>1, RouteSent
    <3> QED BY Zenon, <3>1 DEF Routed
  <2>3. UpstreamOK'
    BY Zenon, <1>1, <1>2, <2>2 DEF UpstreamOK
  <2> QED BY Zenon, <1>1, <1>2, <2>2, <2>3 DEF p
<1> QED BY Zenon, <1>3, <1>4, <1>5

\* A scene change is asked for by the scene that was told.
LEMMA AskKept ==
    ASSUME SInv, gate.told # None, NEW generation \in {0, gate.told.generation}, AskMove(generation)
    PROVE  UpstreamOK'
<1>1. [player |-> gate.told.player, login |-> gate.told.route.login, generation |-> generation] \in Moved
  <2>1. gate.told \in Tellings
    BY DEF SInv, Kept, Sessions
  <2> QED BY <2>1 DEF Tellings, Targets, Moved
<1>2. moves' \subseteq Moved
  BY Zenon, <1>1 DEF SInv, UpstreamOK, AskMove
<1> QED BY Zenon, <1>2 DEF SInv, UpstreamOK, AskMove

\* A scene change sends at most one route, of the generation that asked for it.
LEMMA MoveKept ==
    ASSUME UpstreamOK, NEW m \in moves, Move(m)
    PROVE  /\ UpstreamOK' /\ UNCHANGED <<gate, nodes, left, chains, seen>>
           /\ moves' \subseteq moves
           /\ \A i \in DOMAIN log' :
                 \/ i \in DOMAIN log /\ log'[i] = log[i]
                 \/ /\ log'[i].kind = "route" /\ log'[i].player = m.player /\ log'[i].login = m.login
                    /\ log'[i].generation = m.generation
                    /\ log'[i].target.player = m.player /\ log'[i].target.login = m.login
<1>1. m.player \in Players /\ m.login \in 1..MaxEnters /\ m.generation \in Nat
  BY DEF UpstreamOK, Moved
<1>2. UNCHANGED <<gate, nodes, left, chains, seen>> /\ moves' \subseteq moves
  BY Zenon DEF Move
<1>3. /\ log' \in Seq(Commands)
      /\ placed' \in [Players -> [at : (Nodes \X Scenes) \cup {None}, epoch : Nat]]
      /\ \A q \in Players : placed'[q].at # None => placed'[q].epoch >= 1
      /\ \A i \in DOMAIN log' :
            \/ i \in DOMAIN log /\ log'[i] = log[i]
            \/ /\ log'[i].kind = "route" /\ log'[i].player = m.player /\ log'[i].login = m.login
               /\ log'[i].generation = m.generation
               /\ log'[i].target.player = m.player /\ log'[i].target.login = m.login
  <2>1. Routed(m.player, m.login, m.generation)
    BY Zenon, <1>1, RouteSent DEF Move
  <2> QED BY Zenon, <2>1 DEF Routed
<1>4. UpstreamOK'
  BY Zenon, <1>2, <1>3 DEF UpstreamOK
<1> QED BY Zenon, <1>2, <1>3, <1>4

\* Releasing a location touches neither the session nor the partition.
LEMMA ReleasedKept ==
    ASSUME UpstreamOK, NEW p \in Players, LocationReleased(p)
    PROVE  UpstreamOK' /\ UNCHANGED <<gate, nodes, log, left, chains, moves, seen>>
<1>1. /\ placed' \in [Players -> [at : (Nodes \X Scenes) \cup {None}, epoch : Nat]]
      /\ placed'[p].at = None /\ \A q \in Players : q # p => placed'[q] = placed[q]
  BY DEF UpstreamOK, LocationReleased
<1>2. \A q \in Players : placed'[q].at # None => placed'[q].epoch >= 1
  BY Zenon, <1>1 DEF UpstreamOK
<1> QED BY Zenon, <1>1, <1>2 DEF UpstreamOK, LocationReleased

\* Steps of login and of the scene manager keep the invariant.
LEMMA BackendKept ==
    ASSUME SInv, Backend
    PROVE  SInv' /\ HolderGetsExitStep
<1>0. UpstreamOK
  BY Zenon DEF SInv
<1>1. CASE LoginLeaveGame
  <2>1. UpstreamOK' /\ UNCHANGED <<gate, nodes>>
    BY Zenon, <1>0, <1>1 DEF LoginLeaveGame, UpstreamOK
  <2> QED BY Zenon, <2>1, UpstreamKept
<1>2. ASSUME NEW k \in DOMAIN chains,
             BindPlayer(k) \/ SendBindSessionToGate(k) \/ Recheck(k) \/ Abandon(k) \/ EnterScene(k)
      PROVE  SInv' /\ HolderGetsExitStep
  BY Zenon, <1>0, <1>2, ChainKept, UpstreamKept
<1>3. ASSUME NEW p \in Players, LocationReleased(p) PROVE SInv' /\ HolderGetsExitStep
  BY Zenon, <1>0, <1>3, ReleasedKept, UpstreamKept
<1>4. ASSUME gate.told # None, NEW generation \in {0, gate.told.generation}, AskMove(generation)
      PROVE  SInv' /\ HolderGetsExitStep
  BY Zenon, <1>4, AskKept, UpstreamKept DEF AskMove
<1>5. ASSUME NEW m \in moves, Move(m) PROVE SInv' /\ HolderGetsExitStep
  BY Zenon, <1>0, <1>5, MoveKept, UpstreamKept
<1> QED BY Zenon, <1>1, <1>2, <1>3, <1>4, <1>5 DEF Backend

-----------------------------------------------------------------------------
(* The theorems on what a scene is told *)

\* A new session has the invariant.
LEMMA SInvInit == Init => SInv
<1> SUFFICES ASSUME Init PROVE SInv
  OBVIOUS
<1>1. NodesOK
  BY SceneEntryAssumption DEF Init, NodesOK
<1>2. UpstreamOK
  BY SceneEntryAssumption DEF Init, UpstreamOK
<1>3. gate \in Sessions
  BY SMTT(30), SceneEntryAssumption DEF Init, NewSession, Sessions
<1>4. gate.told = None /\ gate.debt = None /\ gate.lastSceneRoute = None
  BY DEF Init, NewSession
<1> QED BY Zenon, <1>1, <1>2, <1>3, <1>4 DEF SInv, Kept, Informed, Pointed

\* Every step keeps the invariant and gives the holder its exit.
LEMMA SInvNext == SInv /\ [Next]_vars => SInv' /\ (HolderGetsExitStep \/ UNCHANGED vars)
<1> SUFFICES ASSUME SInv, [Next]_vars PROVE SInv' /\ (HolderGetsExitStep \/ UNCHANGED vars)
  OBVIOUS
<1>1. CASE UNCHANGED vars
  <2>1. UNCHANGED <<gate, nodes, log, upstream>>
    BY Zenon, <1>1 DEF vars, upstream
  <2>2. UpstreamOK'
    BY Zenon, <2>1, RestKept DEF SInv
  <2> QED BY Zenon, <1>1, <2>1, <2>2, UpstreamKept
<1>2. CASE Next
  <2>0. gate.conn # "gone"
    BY Zenon, <1>2 DEF Next
  <2>1. CASE Deliver
    BY Zenon, <2>0, <2>1, DeliverKept DEF HolderGetsExitStep
  <2>2. CASE Session
    <3>1. ASSUME DebtStep PROVE SInv' /\ HolderGetsExitStep
      BY Zenon, <3>1, DebtStepSettled, SettledKept
    <3> QED BY Zenon, <2>0, <2>1, <2>2, <3>1, LeaveKept, EnterKept, DownKept DEF Session, DebtStep
  <2> QED BY Zenon, <1>2, <2>2, NodeKept, BackendKept DEF Next
<1> QED BY Zenon, <1>1, <1>2

\* In every reachable state the debt of the session is for its last route, the
\* epoch of the session is that route's, and a scene that was told and lives is
\* the node the session points to (SessionInfo, AttemptPendingSceneEntry).
THEOREM SceneEntryInvariance == Spec => []SInv
<1>1. SInv /\ [Next]_vars => SInv'
  BY Zenon, SInvNext
<1> QED BY <1>1, SInvInit, PTL DEF Spec

\* What is forwarded to a scene is one route event, whole.
THEOREM RoutesAreForwardedWhole == Spec => []RouteIsWhole
<1>1. SInv => RouteIsWhole
  BY DEF SInv, Kept, NodesOK, UpstreamOK, RouteIsWhole, SceneEntryTypeOK
<1> QED BY <1>1, SceneEntryInvariance, PTL

\* A scene that holds the player knows the newest owner epoch once no entry is owed.
THEOREM ScenesLearnTheEpoch == Spec => []ScenesKnowEpoch
<1>1. SInv => ScenesKnowEpoch
  BY Zenon DEF SInv, Informed, ScenesKnowEpoch
<1> QED BY <1>1, SceneEntryInvariance, PTL

\* The node that holds the player gets ExitGame when the session forgets it.
THEOREM HoldersGetExit == Spec => HolderGetsExit
<1>1. SInv /\ [Next]_vars => [HolderGetsExitStep]_vars
  BY Zenon, SInvNext
<1> QED BY <1>1, SceneEntryInvariance, PTL DEF Spec, HolderGetsExit

-----------------------------------------------------------------------------
(* A connection with one player: by which login the session enters *)

\* login mints generations in the order of its logins, none of them zero.
LEMMA GenerationOrder ==
    ASSUME NEW p \in Players
    PROVE  /\ \A k \in Nat : Generation(p, k) \in Nat
           /\ \A k \in Nat : k >= 1 => Generation(p, k) # 0
           /\ \A j, k \in Nat : j <= k => Generation(p, j) <= Generation(p, k)
           /\ \A j, k \in Nat : j < k => Generation(p, j) < Generation(p, k)
<1>1. GenBase[p] \in Nat
  BY SceneEntryAssumption
<1> QED BY <1>1 DEF Generation

\* What is below the smaller number is below the larger.
LEMMA NatOrder ==
    ASSUME NEW a \in Nat, NEW b \in Nat, a <= b
    PROVE  /\ \A n \in Nat : n <= a => n <= b
           /\ \A n \in Nat : n < a => n < b
OBVIOUS

\* The larger of two generations.
LEMMA MaxOrder ==
    ASSUME NEW a \in Nat, NEW b \in Nat
    PROVE  max(a, b) \in Nat /\ a <= max(a, b) /\ b <= max(a, b) /\ max(a, b) \in {a, b}
BY DEF max

\* h remembers what g knows of the logins of p: generations only grow, and the
\* reset of LeaveGame ends when a scene is told.
Grown(h, g, p) ==
    /\ g.player = p => h.player = p
    /\ \A n \in Nat : n <= g.loginGeneration => n <= h.loginGeneration
    /\ \A n \in Nat : n < g.loginGeneration => n < h.loginGeneration
    /\ h.told = None => g.told = None /\ h.resetPending = g.resetPending
    /\ h.resetPending => g.resetPending
    /\ g.playerAtReset = p => h.playerAtReset = p
    /\ \A n \in Nat : n <= g.generationAtReset => n <= h.generationAtReset
    /\ h.enterAfterLeave = g.enterAfterLeave

\* A session that learns more still remembers the logins it knew ...
LEMMA GrownFormer ==
    ASSUME NEW g, NEW h, NEW p \in Players, NEW x, Former(g, p, x), Grown(h, g, p),
           x.generation \in Nat, x.login \in Nat
    PROVE  Former(h, p, x)
<1>1. Generation(p, x.login) \in Nat
  BY Zenon, GenerationOrder
<1> QED BY Zenon, <1>1 DEF Former, Grown

\* ... and what it has noted since LeaveGame.
LEMMA GrownNoted ==
    ASSUME NEW g, NEW h, NEW p \in Players, NEW s \in Nat, left \in Nat,
           Noted(g, p, s), Grown(h, g, p),
           g.resetPending /\ ~h.resetPending =>
               h.player = p /\ \A n \in Nat : n <= g.generationAtReset => n <= h.loginGeneration,
           h.resetPending /\ h.lastSceneRoute # None =>
               h.enterAfterLeave /\ h.generationAtReset <= h.loginGeneration,
           h.playerAtReset = None => h.generationAtReset <= h.loginGeneration
    PROVE  Noted(h, p, s)
<1>1. Generation(p, s) \in Nat /\ \A k \in 1..left : Generation(p, k) \in Nat
  <2>1. \A k \in 1..left : k \in Nat
    OBVIOUS
  <2> QED BY Zenon, <2>1, GenerationOrder
<1>2. s >= 1 =>
        \/ h.player = p /\ Generation(p, s) <= h.loginGeneration
        \/ h.resetPending /\ h.playerAtReset = p /\ Generation(p, s) <= h.generationAtReset
  BY Zenon, <1>1 DEF Noted, Grown
<1>3. h.resetPending =>
        \A k \in 1..left : k <= s =>
            \/ h.playerAtReset = p /\ Generation(p, k) <= h.generationAtReset
            \/ h.player = p /\ Generation(p, k) < h.loginGeneration
  BY Zenon, <1>1 DEF Noted, Grown
<1>4. /\ h.told = None /\ ~h.resetPending => left = 0
      /\ left <= Len(chains)
      /\ h.resetPending /\ left < Len(chains) => h.enterAfterLeave
  BY Zenon DEF Noted, Grown
<1> QED BY Zenon, <1>2, <1>3, <1>4 DEF Noted

\* The session learns of login t.
LEMMA SeenNoted ==
    ASSUME NEW h, NEW p \in Players, NEW s \in Nat, NEW t \in Nat, left \in Nat, Noted(h, p, s),
           \/ h.player = p /\ Generation(p, t) <= h.loginGeneration
           \/ h.resetPending /\ h.playerAtReset = p /\ Generation(p, t) <= h.generationAtReset,
           h.resetPending =>
               \A k \in 1..left : k <= t =>
                   \/ h.playerAtReset = p /\ Generation(p, k) <= h.generationAtReset
                   \/ h.player = p /\ Generation(p, k) < h.loginGeneration
    PROVE  Noted(h, p, max(s, t))
<1>1. max(s, t) \in {s, t}
  BY Zenon, MaxOrder
<1> QED BY Zenon, <1>1 DEF Noted

\* A session that takes player, generation and route, of p.
LEMMA TakenMine ==
    ASSUME NEW g \in Sessions, NEW h \in Sessions, NEW p \in Players, NEW s \in Nat, left \in Nat,
           NEW q, NEW m \in Nat, NEW r, Taken(h, g, q, m, r, g.resetPending),
           Learnt(g, p), Noted(g, p, s), g.loginGeneration <= m, q = p \/ q = g.player,
           r # None => /\ r.player = p /\ r.login <= Len(chains) /\ q = p
                       /\ Generation(p, r.login) <= m
                       /\ g.resetPending => g.enterAfterLeave /\ g.generationAtReset <= m
    PROVE  Grown(h, g, p) /\ Learnt(h, p) /\ Noted(h, p, s)
<1>0. /\ g.loginGeneration \in Nat /\ g.generationAtReset \in Nat /\ h.loginGeneration = m
      /\ g.resetPending \in BOOLEAN
  BY DEF Sessions, Taken
<1>1. /\ \A n \in Nat : n <= g.loginGeneration => n <= h.loginGeneration
      /\ \A n \in Nat : n < g.loginGeneration => n < h.loginGeneration
  BY Zenon, <1>0, NatOrder
<1>t. \/ h.told = g.told /\ h.resetPending = g.resetPending
      \/ /\ h.told \in Tellings /\ h.told # None /\ h.resetPending = FALSE
         /\ h.told.route = r /\ h.told.player = q /\ h.told.generation = m
         /\ r \in Targets /\ r # None
  <2>1. h.told \in Tellings => h.told.route \in Targets
    BY DEF Tellings
  <2> QED BY Zenon, <2>1, NoneAssumption DEF Taken
<1>i. /\ h.player = q /\ h.loginGeneration = m /\ h.lastSceneRoute = r
      /\ h.enterAfterLeave = g.enterAfterLeave
      /\ h.playerAtReset = g.playerAtReset /\ h.generationAtReset = g.generationAtReset
  BY Zenon DEF Taken
<1>2. Grown(h, g, p)
  BY Zenon, <1>1, <1>t, <1>i DEF Grown
<1>3. Learnt(h, p)
  <2>1. m <= m
    OBVIOUS
  <2>2. g.told # None => /\ ~g.resetPending /\ g.player = p
                         /\ g.told.player = p /\ g.told.route.login <= Len(chains)
                         /\ g.told.generation <= m
                         /\ Generation(p, g.told.route.login) <= m
    <3> SUFFICES ASSUME g.told # None
                 PROVE  g.told.generation <= m /\ Generation(p, g.told.route.login) <= m
      BY Zenon DEF Learnt
    <3>1. g.told.generation \in Nat /\ g.told.route.login \in Nat
      BY DEF Sessions, Tellings, Targets
    <3>2. Generation(p, g.told.route.login) \in Nat
      BY Zenon, <3>1, GenerationOrder
    <3> QED BY Zenon, <1>0, <1>1, <3>1, <3>2 DEF Learnt
  <2>3. h.told # None =>
          /\ ~h.resetPending /\ h.player = p
          /\ h.told.player = p /\ h.told.route.login <= Len(chains)
          /\ h.told.generation <= h.loginGeneration
          /\ Generation(p, h.told.route.login) <= h.loginGeneration
    BY Zenon, <1>t, <1>i, <2>1, <2>2
  <2>4. h.player \in {None, p} /\ h.playerAtReset \in {None, p}
    BY Zenon, <1>i DEF Learnt
  <2> QED BY Zenon, <1>i, <2>3, <2>4 DEF Learnt
<1>4. Noted(h, p, s)
  <2>1. g.resetPending /\ ~h.resetPending =>
            h.player = p /\ \A n \in Nat : n <= g.generationAtReset => n <= h.loginGeneration
    <3> SUFFICES ASSUME g.resetPending, ~h.resetPending
                 PROVE  h.player = p /\ \A n \in Nat : n <= g.generationAtReset => n <= h.loginGeneration
      OBVIOUS
    <3>1. q = p /\ g.generationAtReset <= m
      BY Zenon, <1>t
    <3> QED BY Zenon, <1>0, <1>i, <3>1, NatOrder
  <2>2. h.resetPending /\ h.lastSceneRoute # None =>
            h.enterAfterLeave /\ h.generationAtReset <= h.loginGeneration
    BY Zenon, <1>i, <1>2 DEF Grown
  <2>3. h.playerAtReset = None => h.generationAtReset <= h.loginGeneration
    BY Zenon, <1>0, <1>1, <1>i DEF Noted
  <2> QED BY Zenon, <1>2, <2>1, <2>2, <2>3, GrownNoted
<1> QED BY Zenon, <1>2, <1>3, <1>4

\* A step that only attempts the debt.
LEMMA EnteredMine ==
    ASSUME NEW g \in Sessions, NEW h \in Sessions, NEW p \in Players, NEW s \in Nat, left \in Nat,
           Entered(h, g), Learnt(g, p), Noted(g, p, s)
    PROVE  Grown(h, g, p) /\ Learnt(h, p) /\ Noted(h, p, s)
<1>1. g.loginGeneration \in Nat /\ g.loginGeneration <= g.loginGeneration
  BY DEF Sessions
<1> DEFINE r == g.lastSceneRoute
<1>2. r # None => /\ r.player = p /\ r.login <= Len(chains) /\ g.player = p
                  /\ Generation(p, r.login) <= g.loginGeneration
                  /\ g.resetPending => g.enterAfterLeave /\ g.generationAtReset <= g.loginGeneration
  BY Zenon DEF Learnt, Noted
<1>3. Taken(h, g, g.player, g.loginGeneration, r, g.resetPending)
  BY Zenon DEF Entered
<1> HIDE DEF r
<1> QED BY Zenon, <1>1, <1>2, <1>3, TakenMine

\* A command of p that is dropped.
LEMMA DroppedMine ==
    ASSUME NEW g \in Sessions, NEW c \in Commands, NEW p \in Players, NEW s \in Nat, left \in Nat,
           IsFromBeforeLeaveGame(g, c), c.player = p, Learnt(g, p), Noted(g, p, s)
    PROVE  LET h == NoteDropped(g, c)
           IN  /\ h \in Sessions /\ Grown(h, g, p) /\ Learnt(h, p) /\ Noted(h, p, s)
               /\ h.resetPending /\ h.loginGeneration = g.loginGeneration /\ h.player = g.player
               /\ c.generation # 0 => h.playerAtReset = p /\ c.generation <= h.generationAtReset
<1>0. /\ c.generation \in Nat /\ g.generationAtReset \in Nat /\ g.loginGeneration \in Nat
  BY DEF Sessions, Commands
<1>1. g.resetPending /\ g.told = None
  BY Zenon DEF IsFromBeforeLeaveGame, Learnt
<1>2. CASE c.generation = 0
  <2>1. NoteDropped(g, c) = g
    BY Zenon, <1>2 DEF NoteDropped
  <2>2. Grown(g, g, p)
    BY Zenon DEF Grown
  <2> QED BY Zenon, <1>1, <1>2, <2>1, <2>2
<1>3. CASE c.generation # 0
  <2> DEFINE m == max(g.generationAtReset, c.generation)
             h == [g EXCEPT !.playerAtReset = p, !.generationAtReset = m]
  <2>1. NoteDropped(g, c) = h
    BY Zenon, <1>3 DEF NoteDropped, Learnt
  <2>2. m \in Nat /\ g.generationAtReset <= m /\ c.generation <= m /\ m \in {g.generationAtReset, c.generation}
    BY Zenon, <1>0, MaxOrder
  <2> HIDE DEF m
  <2>3. h \in Sessions /\ h.playerAtReset = p /\ h.generationAtReset = m
    <3>1. h \in Sessions
      BY ZenonT(30), <2>2 DEF Sessions
    <3>2. h.playerAtReset = p /\ h.generationAtReset = m
      BY DEF Sessions
    <3> QED BY Zenon, <3>1, <3>2
  <2>4. /\ h.player = g.player /\ h.loginGeneration = g.loginGeneration /\ h.told = g.told
        /\ h.lastSceneRoute = g.lastSceneRoute /\ h.resetPending = g.resetPending
        /\ h.enterAfterLeave = g.enterAfterLeave
    BY DEF Sessions
  <2> HIDE DEF h
  <2>5. \A n \in Nat : n <= g.generationAtReset => n <= h.generationAtReset
    BY Zenon, <1>0, <2>2, <2>3, NatOrder
  <2>6. Grown(h, g, p)
    BY Zenon, <2>3, <2>4, <2>5 DEF Grown
  <2>7. Learnt(h, p)
    BY Zenon, <2>3, <2>4 DEF Learnt
  <2>8. ASSUME h.lastSceneRoute # None
        PROVE  h.enterAfterLeave /\ h.generationAtReset <= h.loginGeneration
    <3>1. g.enterAfterLeave /\ g.generationAtReset <= g.loginGeneration
      BY Zenon, <1>1, <2>4, <2>8 DEF Noted
    <3>2. c.generation <= g.generationAtReset \/ c.generation < g.loginGeneration
      BY Zenon, <1>3, <3>1 DEF IsFromBeforeLeaveGame, supersededSinceLeave
    <3>3. m <= g.loginGeneration
      BY <1>0, <2>2, <3>1, <3>2
    <3> QED BY Zenon, <2>3, <2>4, <3>1, <3>3
  <2>9. h.playerAtReset # None
    BY Zenon, <2>3, SceneEntryAssumption
  <2>10. Noted(h, p, s)
    BY Zenon, <2>4, <2>6, <2>8, <2>9, GrownNoted
  <2> QED BY Zenon, <1>1, <2>1, <2>2, <2>3, <2>4, <2>6, <2>7, <2>10
<1> QED BY Zenon, <1>2, <1>3

\* A command of the only player, as Sent describes it.
Known(g, p, c) ==
    /\ c.player = p /\ c.login <= Len(chains)
    /\ c.kind = "route" => c.target.player = p /\ c.target.login = c.login
    /\ c.generation = Generation(p, c.login) \/ Former(g, p, c)
    /\ c.kind = "bind" => c.generation = Generation(p, c.login)

\* A command that is taken has a generation that is not older than what the
\* session knows, and the session learns of its login.
LEMMA TakenNewer ==
    ASSUME NEW g \in Sessions, NEW c \in Commands, NEW p \in Players, Known(g, p, c), Learnt(g, p),
           NEW s \in Nat, Noted(g, p, s), ~IsFromBeforeLeaveGame(g, c)
    PROVE  /\ c.login \in Nat /\ c.login >= 1 /\ merged(g, c) \in Nat
           /\ g.loginGeneration <= merged(g, c) /\ c.generation <= merged(g, c)
           /\ Generation(p, c.login) <= merged(g, c)
           /\ g.resetPending =>
                 /\ g.enterAfterLeave /\ g.generationAtReset <= merged(g, c)
                 /\ c.generation = Generation(p, c.login)
                 /\ g.playerAtReset = p => ~(c.generation <= g.generationAtReset)
                 /\ g.player = p => ~(c.generation < g.loginGeneration)
<1>0. /\ c.generation \in Nat /\ g.generationAtReset \in Nat /\ g.loginGeneration \in Nat
      /\ c.login \in Nat /\ c.login >= 1
  BY DEF Sessions, Commands
<1>1. /\ merged(g, c) \in Nat
      /\ g.loginGeneration <= merged(g, c) /\ c.generation <= merged(g, c)
  BY Zenon, <1>0, MaxOrder DEF merged
<1>2. Generation(p, c.login) <= merged(g, c)
  <2>1. Generation(p, c.login) \in Nat
    BY Zenon, <1>0, GenerationOrder
  <2>2. \A n \in Nat : n <= g.loginGeneration => n <= merged(g, c)
    BY Zenon, <1>0, <1>1, NatOrder
  <2> QED BY Zenon, <1>1, <2>1, <2>2 DEF Known, Former
<1>3. ASSUME g.resetPending
      PROVE  /\ g.enterAfterLeave /\ g.generationAtReset <= merged(g, c)
             /\ c.generation = Generation(p, c.login)
             /\ g.playerAtReset = p => ~(c.generation <= g.generationAtReset)
             /\ g.player = p => ~(c.generation < g.loginGeneration)
  <2>1. /\ g.enterAfterLeave
        /\ g.playerAtReset = p => ~(c.generation <= g.generationAtReset)
        /\ g.player = p => ~(c.generation < g.loginGeneration)
    BY Zenon, <1>3 DEF IsFromBeforeLeaveGame, supersededSinceLeave, Known
  <2>2. g.generationAtReset <= merged(g, c)
    <3>1. CASE g.playerAtReset = p
      <4>1. ~(c.generation <= g.generationAtReset)
        BY Zenon, <2>1, <3>1
      <4> QED BY <1>0, <1>1, <4>1
    <3>2. CASE g.playerAtReset = None
      <4>1. g.generationAtReset <= g.loginGeneration
        BY Zenon, <3>2 DEF Noted
      <4> QED BY <1>0, <1>1, <4>1
    <3> QED BY Zenon, <3>1, <3>2 DEF Learnt
  <2>3. g.told = None
    BY Zenon, <1>3 DEF Learnt
  <2>4. c.generation = Generation(p, c.login)
    BY Zenon, <2>1, <2>3 DEF Known, Former
  <2> QED BY Zenon, <2>1, <2>2, <2>4
<1> QED BY Zenon, <1>0, <1>1, <1>2, <1>3

\* What the gate knows once a command of the only player is handled.
LEMMA HandledMine ==
    ASSUME NodesOK, NEW g, NEW c \in Commands, NEW p \in Players, NEW s \in Nat, left \in Nat,
           Kept(g), Informed(g), Pointed(g), g.conn # "gone",
           Known(g, p, c), Learnt(g, p), Noted(g, p, s)
    PROVE  LET h == Handled(g, c)
           IN  /\ h \in Sessions /\ Grown(h, g, p) /\ Learnt(h, p) /\ Noted(h, p, s)
               /\ \/ h.player = p /\ Generation(p, c.login) <= h.loginGeneration
                  \/ h.resetPending /\ h.playerAtReset = p /\ Generation(p, c.login) <= h.generationAtReset
<1> DEFINE h == Handled(g, c)
           Learns == \/ h.player = p /\ Generation(p, c.login) <= h.loginGeneration
                     \/ /\ h.resetPending /\ h.playerAtReset = p
                        /\ Generation(p, c.login) <= h.generationAtReset
<1>0. g \in Sessions /\ h \in Sessions
  BY Zenon, HandledKept DEF Kept
<1>c. c.player = p /\ g.player \in {None, p} /\ p # None
  BY Zenon, SceneEntryAssumption DEF Known, Learnt
<1>1. CASE IsFromBeforeLeaveGame(g, c)
  <2>1. h = NoteDropped(g, c)
    BY Zenon, <1>1, DroppedKept DEF Handled
  <2>2. /\ Grown(h, g, p) /\ Learnt(h, p) /\ Noted(h, p, s)
        /\ h.resetPending /\ h.loginGeneration = g.loginGeneration /\ h.player = g.player
        /\ c.generation # 0 => h.playerAtReset = p /\ c.generation <= h.generationAtReset
    <3> DEFINE x == NoteDropped(g, c)
    <3>1. /\ Grown(x, g, p) /\ Learnt(x, p) /\ Noted(x, p, s)
          /\ x.resetPending /\ x.loginGeneration = g.loginGeneration /\ x.player = g.player
          /\ c.generation # 0 => x.playerAtReset = p /\ c.generation <= x.generationAtReset
      BY Zenon, <1>0, <1>1, <1>c, DroppedMine
    <3>2. h = x
      BY Zenon, <2>1
    <3> HIDE DEF h, x
    <3> QED BY Zenon, <3>1, <3>2
  <2>3. c.login \in Nat /\ c.login >= 1
    BY DEF Commands
  <2>4. Generation(p, c.login) # 0
    BY Zenon, <2>3, GenerationOrder
  <2>5. Learns
    BY Zenon, <2>2, <2>4 DEF Known, Former
  <2> QED BY Zenon, <1>0, <2>2, <2>5
<1>2. CASE ~IsFromBeforeLeaveGame(g, c) /\ c.kind = "bind"
  <2> DEFINE m == merged(g, c)
  <2>1. /\ m \in Nat /\ g.loginGeneration <= m /\ Generation(p, c.login) <= m
        /\ g.resetPending => g.enterAfterLeave /\ g.generationAtReset <= m
    BY Zenon, <1>0, <1>2, TakenNewer
  <2>2. Taken(h, g, p, m, g.lastSceneRoute, g.resetPending)
    <3>1. Taken(BindSession(g, c), g, c.player,
                IF g.player \in {None, c.player} THEN m ELSE c.generation,
                g.lastSceneRoute, g.resetPending /\ g.player \in {None, c.player})
      BY Zenon, <1>2, BindTaken
    <3>2. g.resetPending /\ g.player \in {None, c.player} <=> g.resetPending
      BY Zenon, <1>c
    <3>3. (g.resetPending /\ g.player \in {None, c.player}) = g.resetPending
      <4>1. g.resetPending \in BOOLEAN
        BY <1>0 DEF Sessions
      <4> QED BY Zenon, <3>2, <4>1
    <3>4. (IF g.player \in {None, c.player} THEN m ELSE c.generation) = m
      BY Zenon, <1>c
    <3>5. BindSession(g, c) = h
      BY Zenon, <1>2 DEF Handled
    <3> QED BY Zenon, <1>c, <3>1, <3>3, <3>4, <3>5
  <2> DEFINE r == g.lastSceneRoute
  <2>3. r # None => /\ r.player = p /\ r.login <= Len(chains)
                    /\ Generation(p, r.login) <= m
    <3> SUFFICES ASSUME r # None PROVE Generation(p, r.login) <= m
      BY Zenon DEF Learnt
    <3>1. r.login \in Nat /\ g.loginGeneration \in Nat
      BY <1>0 DEF Sessions, Targets
    <3>2. Generation(p, r.login) \in Nat
      BY Zenon, <3>1, GenerationOrder
    <3>3. \A n \in Nat : n <= g.loginGeneration => n <= m
      BY Zenon, <2>1, <3>1, NatOrder
    <3> QED BY Zenon, <3>2, <3>3 DEF Learnt
  <2> HIDE DEF m, r, h
  <2>4. Taken(h, g, p, m, r, g.resetPending)
    BY Zenon, <2>2 DEF r
  <2>5. Grown(h, g, p) /\ Learnt(h, p) /\ Noted(h, p, s)
    BY Zenon, <1>0, <2>1, <2>3, <2>4, TakenMine
  <2>6. h.player = p /\ h.loginGeneration = m
    BY Zenon, <2>4 DEF Taken
  <2> QED BY Zenon, <1>0, <2>1, <2>5, <2>6 DEF h
<1>3. CASE ~IsFromBeforeLeaveGame(g, c) /\ c.kind # "bind"
  <2>0. c.kind = "route"
    BY <1>3 DEF Commands
  <2> DEFINE m == merged(g, c)
             r == c.target
  <2>1. /\ m \in Nat /\ g.loginGeneration <= m /\ Generation(p, c.login) <= m
        /\ g.resetPending => g.enterAfterLeave /\ g.generationAtReset <= m
    BY Zenon, <1>0, <1>3, TakenNewer
  <2>2. Taken(h, g, p, m, r, g.resetPending)
    <3>1. Taken(RoutePlayer(g, c), g, IF g.player = None THEN c.player ELSE g.player,
                IF g.player \in {None, c.player} THEN m ELSE g.loginGeneration,
                r, g.resetPending)
      BY Zenon, <1>3, <2>0, RouteTaken
    <3>2. (IF g.player = None THEN c.player ELSE g.player) = p
      BY Zenon, <1>c
    <3>4. (IF g.player \in {None, c.player} THEN m ELSE g.loginGeneration) = m
      BY Zenon, <1>c
    <3>5. RoutePlayer(g, c) = h
      BY Zenon, <1>3 DEF Handled
    <3> QED BY Zenon, <3>1, <3>2, <3>4, <3>5
  <2>3. r.player = p /\ r.login <= Len(chains) /\ Generation(p, r.login) <= m
    BY Zenon, <2>0, <2>1 DEF Known
  <2> HIDE DEF m, r, h
  <2>5. Grown(h, g, p) /\ Learnt(h, p) /\ Noted(h, p, s)
    BY Zenon, <1>0, <2>1, <2>2, <2>3, TakenMine
  <2>6. h.player = p /\ h.loginGeneration = m
    BY Zenon, <2>2 DEF Taken
  <2> QED BY Zenon, <1>0, <2>1, <2>5, <2>6 DEF h
<1> QED BY Zenon, <1>1, <1>2, <1>3

\* Sent, for what is in the partition and what scenes have asked for.
LEMMA SentKnown ==
    ASSUME NEW g, NEW p
    PROVE  Sent(g, p) <=> /\ \A i \in DOMAIN log : Known(g, p, log[i])
                          /\ \A m \in moves : /\ m.player = p /\ m.login <= Len(chains)
                                              /\ Former(g, p, m)
BY Zenon DEF Sent, Known

\* Former and Known do not lose by what the session learns.
LEMMA GrownKnown ==
    ASSUME UpstreamOK, NEW g, NEW h, NEW p \in Players, Grown(h, g, p)
    PROVE  /\ \A c \in Commands : Known(g, p, c) => Known(h, p, c)
           /\ \A m \in moves : Former(g, p, m) => Former(h, p, m)
<1>1. ASSUME NEW c \in Commands, Known(g, p, c) PROVE Known(h, p, c)
  <2>1. c.generation \in Nat /\ c.login \in Nat
    BY DEF Commands
  <2> QED BY Zenon, <1>1, <2>1, GrownFormer DEF Known
<1>2. ASSUME NEW m \in moves, Former(g, p, m) PROVE Former(h, p, m)
  <2>1. m.generation \in Nat /\ m.login \in Nat
    BY DEF UpstreamOK, Moved
  <2> QED BY Zenon, <1>2, <2>1, GrownFormer
<1> QED BY Zenon, <1>1, <1>2

\* What is known of the only player.
Mine(p) == Sent(gate, p) /\ Learnt(gate, p) /\ Noted(gate, p, seen)

\* What the next session knows, said of the next state.
LEMMA MineCarried ==
    ASSUME NEW p, Learnt(gate', p), Noted(gate', p, seen'), UNCHANGED <<chains, left>>, Sent(gate, p)'
    PROVE  Mine(p)'
<1>1. Learnt(gate, p)'
  BY Zenon DEF Learnt
<1>2. Noted(gate, p, seen)'
  BY Zenon DEF Noted
<1> QED BY Zenon, <1>1, <1>2 DEF Mine

\* The next command is handled.
LEMMA DeliverMine ==
    ASSUME SInv, seen \in Nat, gate.conn # "gone", NEW p \in Players, Mine(p), Deliver
    PROVE  Mine(p)' /\ seen' \in Nat
<1> DEFINE c == Head(log)
           h == Handled(gate, c)
<1>0. /\ log \in Seq(Commands) /\ log # <<>> /\ log' = Tail(log) /\ left \in Nat
      /\ NodesOK /\ UpstreamOK /\ Kept(gate) /\ Informed(gate) /\ Pointed(gate)
  BY Zenon DEF SInv, UpstreamOK, Deliver
<1>1. /\ c \in Commands /\ c = log[1] /\ 1 \in DOMAIN log
      /\ \A i \in DOMAIN log' : i + 1 \in DOMAIN log /\ log'[i] = log[i + 1] /\ log'[i] \in Commands
  BY <1>0
<1>2. /\ gate' = h /\ chains' = chains /\ left' = left /\ moves' = moves
      /\ seen' = IF c.login > left \/ ~gate.enterAfterLeave THEN max(seen, c.login) ELSE seen
  BY Zenon DEF Deliver, Handled, upstream
<1>3. /\ \A i \in DOMAIN log : Known(gate, p, log[i])
      /\ \A m \in moves : m.player = p /\ m.login <= Len(chains) /\ Former(gate, p, m)
      /\ Learnt(gate, p) /\ Noted(gate, p, seen)
  BY Zenon, SentKnown DEF Mine
<1>4. Known(gate, p, c)
  BY Zenon, <1>1, <1>3
<1> HIDE DEF c
<1>5. /\ h \in Sessions /\ Grown(h, gate, p) /\ Learnt(h, p) /\ Noted(h, p, seen)
      /\ \/ h.player = p /\ Generation(p, c.login) <= h.loginGeneration
         \/ h.resetPending /\ h.playerAtReset = p /\ Generation(p, c.login) <= h.generationAtReset
  BY Zenon, <1>0, <1>1, <1>3, <1>4, HandledMine
<1>6. c.login \in Nat /\ max(seen, c.login) \in Nat
  <2>1. c.login \in Nat
    BY <1>1 DEF Commands
  <2> QED BY Zenon, <2>1, MaxOrder
<1>7. ASSUME c.login > left \/ ~gate.enterAfterLeave, h.resetPending, NEW k \in 1..left, k <= c.login
      PROVE  \/ h.playerAtReset = p /\ Generation(p, k) <= h.generationAtReset
             \/ h.player = p /\ Generation(p, k) < h.loginGeneration
  <2>0. /\ k \in Nat /\ Generation(p, k) \in Nat /\ Generation(p, c.login) \in Nat
        /\ Generation(p, k) <= Generation(p, c.login)
    <3>1. k \in Nat
      BY <1>0
    <3> QED BY Zenon, <1>6, <1>7, <3>1, GenerationOrder
  <2>1. gate.resetPending /\ gate.told = None
    BY Zenon, <1>3, <1>5, <1>7 DEF Grown, Learnt
  <2>2. h.loginGeneration \in Nat /\ h.generationAtReset \in Nat
    BY <1>5 DEF Sessions
  <2>3. CASE IsFromBeforeLeaveGame(gate, c)
    <3>1. h = NoteDropped(gate, c)
      BY Zenon, <1>1, <2>3, DroppedKept DEF Handled
    <3>2. c.generation # 0 => h.playerAtReset = p /\ c.generation <= h.generationAtReset
      <4> DEFINE x == NoteDropped(gate, c)
      <4>1. /\ gate \in Sessions /\ c.player = p /\ c \in Commands /\ left \in Nat
            /\ Learnt(gate, p) /\ Noted(gate, p, seen)
        BY Zenon, <1>0, <1>1, <1>3, <1>4 DEF Known, Kept
      <4>2. c.generation # 0 => x.playerAtReset = p /\ c.generation <= x.generationAtReset
        BY Zenon, <2>3, <4>1, DroppedMine
      <4>3. h = x
        BY Zenon, <3>1
      <4> HIDE DEF h, x
      <4> QED BY Zenon, <4>2, <4>3
    <3>3. c.login >= 1
      BY <1>1 DEF Commands
    <3>4. Generation(p, c.login) # 0
      BY Zenon, <1>6, <3>3, GenerationOrder
    <3>5. h.playerAtReset = p /\ Generation(p, c.login) <= h.generationAtReset
      BY Zenon, <1>4, <1>5, <2>0, <2>1, <3>2, <3>4 DEF Known, Former, Grown
    <3>6. Generation(p, k) <= h.generationAtReset
      BY <2>0, <2>2, <3>5
    <3> QED BY Zenon, <3>5, <3>6
  <2>4. CASE ~IsFromBeforeLeaveGame(gate, c)
    <3>1. gate.enterAfterLeave /\ c.generation = Generation(p, c.login)
      BY Zenon, <1>0, <1>1, <1>3, <1>4, <2>1, <2>4, TakenNewer DEF Kept
    <3>2. k < c.login
      <4>1. c.login > left
        BY Zenon, <1>7, <3>1
      <4> QED BY <1>0, <1>6, <4>1
    <3>3. Generation(p, k) < Generation(p, c.login)
      BY Zenon, <1>6, <2>0, <3>2, GenerationOrder
    <3>4. CASE h.player = p /\ Generation(p, c.login) <= h.loginGeneration
      <4>1. Generation(p, k) < h.loginGeneration
        BY <2>0, <2>2, <3>3, <3>4
      <4> QED BY Zenon, <3>4, <4>1
    <3>5. CASE h.playerAtReset = p /\ Generation(p, c.login) <= h.generationAtReset
      <4>1. Generation(p, k) <= h.generationAtReset
        BY <2>0, <2>2, <3>5
      <4> QED BY Zenon, <3>5, <4>1
    <3> QED BY Zenon, <1>5, <3>4, <3>5
  <2> QED BY Zenon, <2>3, <2>4
<1> HIDE DEF h
<1>8. seen' \in Nat /\ Noted(h, p, seen')
  BY Zenon, <1>0, <1>2, <1>5, <1>6, <1>7, SeenNoted
<1>9. Sent(gate, p)'
  <2>1. /\ \A x \in Commands : Known(gate, p, x) => Known(gate', p, x)
        /\ \A m \in moves : Former(gate, p, m) => Former(gate', p, m)
    BY Zenon, <1>0, <1>2, <1>5, GrownKnown
  <2>2. \A i \in DOMAIN log' : Known(gate', p, log'[i])
    BY Zenon, <1>1, <1>3, <2>1
  <2>3. \A m \in moves : m.player = p /\ m.login <= Len(chains) /\ Former(gate', p, m)
    BY Zenon, <1>3, <2>1
  <2> QED BY Zenon, <1>2, <2>2, <2>3 DEF Sent, Known, Former
<1> QED BY Zenon, <1>2, <1>5, <1>8, <1>9, MineCarried

\* LeaveGame: the logins asked for so far are left, and those the session has
\* seen it remembers as left.
LEMMA LeaveMine ==
    ASSUME SInv, seen \in Nat, NEW p \in Players, Mine(p), ClientLeaveGame
    PROVE  Mine(p)' /\ seen' \in Nat
<1> DEFINE again == gate.resetPending /\ gate.player \in {None, gate.playerAtReset}
           a == IF again THEN gate.generationAtReset ELSE 0
           L == gate.loginGeneration
<1>0. /\ gate \in Sessions /\ UpstreamOK /\ left \in Nat /\ L \in Nat /\ gate.generationAtReset \in Nat
      /\ Len(chains) \in Nat
  BY SMTT(30) DEF SInv, Kept, Sessions, UpstreamOK
<1>1. /\ gate' \in Sessions /\ gate'.told = None /\ gate'.lastSceneRoute = None
      /\ gate'.player = gate.player /\ gate'.loginGeneration = L
      /\ gate'.resetPending = TRUE /\ gate'.enterAfterLeave = FALSE
      /\ gate'.playerAtReset = IF again THEN gate.playerAtReset ELSE gate.player
      /\ gate'.generationAtReset = max(a, L)
  BY Zenon, <1>0, LeaveEffect DEF ClientLeaveGame
<1>2. left' = Len(chains) /\ UNCHANGED <<log, chains, moves, seen>>
  BY Zenon DEF ClientLeaveGame
<1>3. a \in Nat /\ max(a, L) \in Nat /\ a <= max(a, L) /\ L <= max(a, L)
  <2>1. a \in Nat
    BY <1>0
  <2> QED BY Zenon, <1>0, <2>1, MaxOrder
<1>4. /\ \A n \in Nat : n <= L => n <= gate'.generationAtReset
      /\ again => \A n \in Nat : n <= gate.generationAtReset => n <= gate'.generationAtReset
  <2>1. \A n \in Nat : n <= L => n <= gate'.generationAtReset
    BY Zenon, <1>0, <1>1, <1>3, NatOrder
  <2>2. ASSUME again PROVE \A n \in Nat : n <= gate.generationAtReset => n <= gate'.generationAtReset
    <3>1. gate.generationAtReset <= gate'.generationAtReset
      BY Zenon, <1>1, <1>3, <2>2
    <3> QED BY ZenonT(30), <1>0, <1>1, <1>3, <3>1, NatOrder
  <2> QED BY Zenon, <2>1, <2>2
<1>5. Learnt(gate, p) /\ Noted(gate, p, seen) /\ p # None
  BY Zenon, SceneEntryAssumption DEF Mine
<1>6. gate.player = p => gate'.playerAtReset = p
  BY Zenon, <1>1, <1>5 DEF Learnt
<1> HIDE DEF L
<1>7. Learnt(gate, p)'
  BY Zenon, <1>1, <1>2, <1>5 DEF Learnt
<1>8. ASSUME NEW x, x.generation \in Nat, x.login \in Nat, x.login <= Len(chains), Former(gate, p, x)
      PROVE  /\ gate'.player = p
             /\ x.generation <= gate'.loginGeneration
             /\ Generation(p, x.login) <= gate'.loginGeneration
             /\ gate'.resetPending /\ gate'.playerAtReset = p
             /\ x.generation <= gate'.generationAtReset
             /\ Generation(p, x.login) <= gate'.generationAtReset
             /\ x.login <= left'
  <2>1. Generation(p, x.login) \in Nat
    BY Zenon, <1>8, GenerationOrder
  <2> QED BY Zenon, <1>1, <1>2, <1>4, <1>6, <1>8, <2>1 DEF Former, L
<1>9. Sent(gate, p)'
  <2>1. /\ \A i \in DOMAIN log : log[i] \in Commands /\ Known(gate, p, log[i])
        /\ \A m \in moves : m.player = p /\ m.login <= Len(chains) /\ Former(gate, p, m)
    <3>1. \A i \in DOMAIN log : log[i] \in Commands
      BY DEF SInv, UpstreamOK
    <3> QED BY Zenon, <3>1, SentKnown DEF Mine
  <2>2. ASSUME NEW i \in DOMAIN log
        PROVE  log[i].generation \in Nat /\ log[i].login \in Nat /\ log[i].login <= Len(chains)
    <3>1. log[i].generation \in Nat /\ log[i].login \in Nat
      <4>1. log[i] \in Commands
        BY Zenon, <2>1
      <4> QED BY <4>1 DEF Commands
    <3> QED BY Zenon, <2>1, <3>1 DEF Known
  <2>3. ASSUME NEW m \in moves PROVE m.generation \in Nat /\ m.login \in Nat
    BY <1>0 DEF UpstreamOK, Moved
  <2>4. \A i \in DOMAIN log : Former(gate, p, log[i]) => Former(gate, p, log[i])'
    BY Zenon, <1>2, <1>8, <2>2 DEF Former
  <2>6. ASSUME NEW i \in DOMAIN log
        PROVE  /\ log[i].player = p /\ log[i].login <= Len(chains)
               /\ log[i].kind = "route" => log[i].target.player = p /\ log[i].target.login = log[i].login
               /\ log[i].generation = Generation(p, log[i].login) \/ Former(gate, p, log[i])'
               /\ log[i].kind = "bind" => log[i].generation = Generation(p, log[i].login)
    BY Zenon, <2>1, <2>4 DEF Known
  <2>7. ASSUME NEW m \in moves
        PROVE  /\ m.player = p /\ m.login <= Len(chains)
               /\ gate'.player = p
               /\ m.generation <= gate'.loginGeneration
               /\ Generation(p, m.login) <= gate'.loginGeneration
               /\ gate'.resetPending /\ gate'.playerAtReset = p
               /\ m.generation <= gate'.generationAtReset
               /\ Generation(p, m.login) <= gate'.generationAtReset
               /\ m.login <= left'
    BY Zenon, <1>8, <2>1, <2>3, <2>7
  <2> QED BY Zenon, <1>2, <2>6, <2>7 DEF Sent, Former
<1>10. Noted(gate, p, seen)'
  <2>1. seen >= 1 => gate'.playerAtReset = p /\ Generation(p, seen) <= gate'.generationAtReset
    <3>1. Generation(p, seen) \in Nat
      BY Zenon, GenerationOrder
    <3>2. gate.resetPending /\ gate.playerAtReset = p => again
      BY Zenon, <1>5 DEF Learnt
    <3> QED BY Zenon, <1>1, <1>4, <1>5, <1>6, <3>1, <3>2 DEF Noted, L
  <2>2. ASSUME NEW k \in 1..left', k <= seen
        PROVE  gate'.playerAtReset = p /\ Generation(p, k) <= gate'.generationAtReset
    <3>1. k \in Nat /\ k >= 1 /\ seen >= 1
      BY <1>0, <1>2, <2>2
    <3>2. /\ Generation(p, k) \in Nat /\ Generation(p, seen) \in Nat
          /\ Generation(p, k) <= Generation(p, seen)
      BY Zenon, <2>2, <3>1, GenerationOrder
    <3>3. gate'.generationAtReset \in Nat
      BY Zenon, <1>1, <1>3 DEF L
    <3>4. Generation(p, k) <= gate'.generationAtReset
      BY <2>1, <3>1, <3>2, <3>3
    <3> QED BY Zenon, <2>1, <3>1, <3>4
  <2>3. gate'.playerAtReset = None => gate'.generationAtReset <= gate'.loginGeneration
    <3> SUFFICES ASSUME gate'.playerAtReset = None PROVE a <= gate.loginGeneration
      BY <1>0, <1>1, <1>3 DEF max, L
    <3>1. CASE again
      BY Zenon, <1>1, <1>5, <3>1 DEF Noted
    <3>2. CASE ~again
      <4>1. a = 0
        BY Zenon, <3>2
      <4> QED BY <1>0, <4>1 DEF L
    <3> QED BY Zenon, <3>1, <3>2
  <2>4. left' <= Len(chains) /\ ~(left' < Len(chains))
    BY <1>0, <1>2
  <2> QED BY Zenon, <1>1, <1>2, <2>1, <2>2, <2>3, <2>4 DEF Noted
<1> QED BY Zenon, <1>2, <1>7, <1>9, <1>10 DEF Mine

\* EnterGame: one more login, of which nothing is sent yet.
LEMMA EnterMine ==
    ASSUME SInv, seen \in Nat, NEW p \in Players, Mine(p), NEW q \in Players, ClientEnterGame(q)
    PROVE  Mine(p)' /\ seen' \in Nat
<1>0. gate \in Sessions /\ UpstreamOK /\ left \in Nat
  BY Zenon DEF SInv, Kept, UpstreamOK
<1>1. /\ gate'.enterAfterLeave = TRUE /\ gate'.player = gate.player
      /\ gate'.loginGeneration = gate.loginGeneration /\ gate'.lastSceneRoute = gate.lastSceneRoute
      /\ gate'.resetPending = gate.resetPending /\ gate'.playerAtReset = gate.playerAtReset
      /\ gate'.generationAtReset = gate.generationAtReset /\ gate'.told = gate.told
  BY Zenon, <1>0, EnterEffect DEF ClientEnterGame
<1>2. UNCHANGED <<log, left, moves, seen>>
  BY Zenon DEF ClientEnterGame
<1>3. Len(chains) \in Nat /\ Len(chains') = Len(chains) + 1
  BY <1>0 DEF UpstreamOK, ClientEnterGame
<1>4. \A n \in Nat : n <= Len(chains) => n <= Len(chains')
  BY <1>3
<1>5. \A x : Former(gate, p, x) => Former(gate, p, x)'
  BY Zenon, <1>1, <1>2 DEF Former
<1>6. Sent(gate, p)'
  <2>1. \A i \in DOMAIN log : log[i].login \in Nat
    <3>1. \A c \in Commands : c.login \in Nat
      BY DEF Commands
    <3>2. \A i \in DOMAIN log : log[i] \in Commands
      BY DEF SInv, UpstreamOK
    <3> QED BY Zenon, <3>1, <3>2
  <2>2. \A m \in moves : m.login \in Nat
    BY <1>0 DEF UpstreamOK, Moved
  <2> QED BY Zenon, <1>2, <1>4, <1>5, <2>1, <2>2 DEF Mine, Sent
<1>7. Learnt(gate, p)'
  <2>1. gate.lastSceneRoute # None => gate.lastSceneRoute.login \in Nat
    BY <1>0 DEF Sessions, Targets
  <2>2. gate.told # None => gate.told.route.login \in Nat
    BY <1>0 DEF Sessions, Targets, Tellings
  <2> QED BY Zenon, <1>1, <1>4, <2>1, <2>2 DEF Mine, Learnt
<1>8. Noted(gate, p, seen)'
  BY Zenon, <1>0, <1>1, <1>2, <1>4 DEF Mine, Noted
<1> QED BY Zenon, <1>2, <1>6, <1>7, <1>8 DEF Mine

\* A step that attempts the debt at most.
LEMMA EnteredStepMine ==
    ASSUME SInv, seen \in Nat, NEW p \in Players, Mine(p), gate' \in Sessions, Entered(gate', gate),
           UNCHANGED <<log, chains, left, moves, seen>>
    PROVE  Mine(p)' /\ seen' \in Nat
<1>0. gate \in Sessions /\ UpstreamOK /\ left \in Nat
  BY Zenon DEF SInv, Kept, UpstreamOK
<1>1. Grown(gate', gate, p) /\ Learnt(gate', p) /\ Noted(gate', p, seen)
  BY Zenon, <1>0, EnteredMine DEF Mine
<1>2. /\ \A x \in Commands : Known(gate, p, x) => Known(gate', p, x)
      /\ \A m \in moves : Former(gate, p, m) => Former(gate', p, m)
  BY Zenon, <1>0, <1>1, GrownKnown
<1>3. \A i \in DOMAIN log : log[i] \in Commands
  BY DEF SInv, UpstreamOK
<1>4. /\ \A i \in DOMAIN log : Known(gate', p, log[i])
      /\ \A m \in moves : m.player = p /\ m.login <= Len(chains) /\ Former(gate', p, m)
  BY Zenon, <1>2, <1>3, SentKnown DEF Mine
<1>5. Sent(gate, p)'
  BY Zenon, <1>4 DEF Sent, Known, Former
<1> QED BY Zenon, <1>1, <1>5, MineCarried

\* The steps of the scene nodes leave the session its identity.
LEMMA NodeEntered ==
    ASSUME SInv, NEW n \in Nodes, NodeStep(n)
    PROVE  Entered(gate', gate) /\ UNCHANGED <<log, upstream, seen>>
<1>0. gate \in Sessions
  BY Zenon DEF SInv, Kept
<1>1. CASE NodeRemoved(n)
  <2> DEFINE h == [gate EXCEPT !.node = None]
  <2>1. /\ h.player = gate.player /\ h.loginGeneration = gate.loginGeneration
        /\ h.lastSceneRoute = gate.lastSceneRoute /\ h.told = gate.told
        /\ h.enterAfterLeave = gate.enterAfterLeave /\ h.resetPending = gate.resetPending
        /\ h.playerAtReset = gate.playerAtReset /\ h.generationAtReset = gate.generationAtReset
    BY <1>0 DEF Sessions
  <2>2. gate' = gate \/ gate' = h
    BY Zenon, <1>1 DEF NodeRemoved
  <2> HIDE DEF h
  <2> QED BY Zenon, <1>1, <2>1, <2>2 DEF NodeRemoved, Entered, Taken
<1>2. CASE NodeRegistered(n) \/ LinkUp(n) \/ LinkDown(n)
  BY Zenon, <1>2 DEF NodeRegistered, LinkUp, LinkDown, Entered, Taken
<1>3. CASE OnSceneLinkHandshaken(n)
  <2>1. Settled(gate', gate)
    BY Zenon, <1>3, SelfSettled, DueDebt DEF OnSceneLinkHandshaken, SInv
  <2> QED BY Zenon, <1>3, <2>1 DEF OnSceneLinkHandshaken, Settled
<1> QED BY Zenon, <1>1, <1>2, <1>3 DEF NodeStep

\* What login and the scene manager send are commands of the only player.
LEMMA BackendMine ==
    ASSUME SInv, seen \in Nat, NEW p \in Players, Sole(p), Mine(p), Backend
    PROVE  Mine(p)' /\ seen' \in Nat /\ gate' = gate
<1>0. UpstreamOK /\ gate \in Sessions
  BY Zenon DEF SInv, Kept
<1>1. ASSUME UNCHANGED <<gate, left, seen>>, Len(chains') = Len(chains),
             \A i \in DOMAIN log' :
                 (i \in DOMAIN log /\ log'[i] = log[i]) \/ Known(gate, p, log'[i]),
             \A m \in moves' :
                 m \in moves \/ (m.player = p /\ m.login <= Len(chains) /\ Former(gate, p, m))
      PROVE  Mine(p)' /\ seen' \in Nat /\ gate' = gate
  <2>1. \A i \in DOMAIN log' : Known(gate, p, log'[i])
    BY Zenon, <1>1, SentKnown DEF Mine
  <2>2. \A m \in moves' : m.player = p /\ m.login <= Len(chains) /\ Former(gate, p, m)
    BY Zenon, <1>1, SentKnown DEF Mine
  <2>3. Sent(gate, p)'
    BY Zenon, <1>1, <2>1, <2>2 DEF Sent, Known, Former
  <2>4. Learnt(gate, p)' /\ Noted(gate, p, seen)'
    BY Zenon, <1>1 DEF Mine, Learnt, Noted
  <2> QED BY Zenon, <1>1, <2>3, <2>4 DEF Mine
<1>2. CASE LoginLeaveGame
  BY Zenon, <1>1, <1>2 DEF LoginLeaveGame
<1>3. ASSUME NEW k \in DOMAIN chains,
             BindPlayer(k) \/ SendBindSessionToGate(k) \/ Recheck(k) \/ Abandon(k) \/ EnterScene(k)
      PROVE  Mine(p)' /\ seen' \in Nat /\ gate' = gate
  <2>1. /\ UNCHANGED <<gate, left, moves, seen>>
        /\ Len(chains') = Len(chains)
        /\ \A i \in DOMAIN log' :
              \/ i \in DOMAIN log /\ log'[i] = log[i]
              \/ /\ log'[i].player = chains[k].player /\ log'[i].login = k
                 /\ log'[i].generation = Generation(chains[k].player, k)
                 /\ log'[i].kind = "route" => /\ log'[i].target.player = chains[k].player
                                              /\ log'[i].target.login = k
    BY Zenon, <1>0, <1>3, ChainKept
  <2>2. chains[k].player = p
    BY Zenon DEF Sole
  <2>3. k <= Len(chains)
    BY <1>0 DEF UpstreamOK
  <2>4. \A i \in DOMAIN log' : (i \in DOMAIN log /\ log'[i] = log[i]) \/ Known(gate, p, log'[i])
    BY Zenon, <2>1, <2>2, <2>3 DEF Known
  <2> QED BY Zenon, <1>1, <2>1, <2>4
<1>4. ASSUME NEW q \in Players, LocationReleased(q) PROVE Mine(p)' /\ seen' \in Nat /\ gate' = gate
  BY Zenon, <1>0, <1>1, <1>4, ReleasedKept
<1>5. ASSUME gate.told # None, NEW generation \in {0, gate.told.generation}, AskMove(generation)
      PROVE  Mine(p)' /\ seen' \in Nat /\ gate' = gate
  <2> DEFINE x == [player |-> gate.told.player, login |-> gate.told.route.login,
                   generation |-> generation]
  <2>1. UNCHANGED <<gate, left, seen, chains, log>> /\ moves' = moves \cup {x}
    BY Zenon, <1>5 DEF AskMove
  <2>2. x.player = gate.told.player /\ x.login = gate.told.route.login /\ x.generation = generation
    OBVIOUS
  <2> HIDE DEF x
  <2>3. generation <= gate.loginGeneration
    <3>1. 0 <= gate.loginGeneration
      BY <1>0 DEF Sessions
    <3> QED BY Zenon, <1>5, <3>1 DEF Mine, Learnt
  <2>4. x.player = p /\ x.login <= Len(chains) /\ Former(gate, p, x)
    BY Zenon, <1>5, <2>2, <2>3 DEF Mine, Learnt, Former
  <2> QED BY Zenon, <1>1, <2>1, <2>4
<1>6. ASSUME NEW m \in moves, Move(m) PROVE Mine(p)' /\ seen' \in Nat /\ gate' = gate
  <2>1. /\ UNCHANGED <<gate, left, chains, seen>> /\ moves' \subseteq moves
        /\ \A i \in DOMAIN log' :
              \/ i \in DOMAIN log /\ log'[i] = log[i]
              \/ /\ log'[i].kind = "route" /\ log'[i].player = m.player /\ log'[i].login = m.login
                 /\ log'[i].generation = m.generation
                 /\ log'[i].target.player = m.player /\ log'[i].target.login = m.login
    BY Zenon, <1>0, <1>6, MoveKept
  <2>2. m.player = p /\ m.login <= Len(chains) /\ Former(gate, p, m)
    BY Zenon, SentKnown DEF Mine
  <2>3. "route" # "bind"
    OBVIOUS
  <2>4. \A i \in DOMAIN log' : (i \in DOMAIN log /\ log'[i] = log[i]) \/ Known(gate, p, log'[i])
    BY Zenon, <2>1, <2>2, <2>3 DEF Known, Former
  <2> QED BY Zenon, <1>1, <2>1, <2>4
<1> QED BY Zenon, <1>2, <1>3, <1>4, <1>5, <1>6 DEF Backend

\* The players of the logins do not change: only one more login is asked for.
LEMMA SoleBefore ==
    ASSUME UpstreamOK, NEW p, Sole(p)', Next
    PROVE  Sole(p)
<1>1. CASE chains' = chains
  BY Zenon, <1>1 DEF Sole
<1>2. ASSUME NEW q \in Players, ClientEnterGame(q) PROVE Sole(p)
  <2>1. \A k \in DOMAIN chains : k \in DOMAIN chains' /\ chains'[k] = chains[k]
    BY <1>2 DEF ClientEnterGame, UpstreamOK
  <2> QED BY Zenon, <2>1 DEF Sole
<1>3. ASSUME NEW k \in DOMAIN chains,
             BindPlayer(k) \/ SendBindSessionToGate(k) \/ Recheck(k) \/ Abandon(k) \/ EnterScene(k)
      PROVE  Sole(p)
  <2>1. DOMAIN chains' = DOMAIN chains /\ \A i \in DOMAIN chains : chains'[i].player = chains[i].player
    BY Zenon, <1>3, ChainKept
  <2> QED BY Zenon, <2>1 DEF Sole
<1>4. CASE Session
  BY Zenon, <1>1, <1>2, <1>4 DEF Session, Deliver, ClientLeaveGame, Shutdown, ConnectionDown, Tick,
     BackoffOver, RetryDueSceneEntries, upstream
<1>5. ASSUME NEW n \in Nodes, NodeStep(n) PROVE Sole(p)
  BY Zenon, <1>1, <1>5 DEF NodeStep, NodeRemoved, NodeRegistered, LinkUp, LinkDown,
     OnSceneLinkHandshaken, upstream
<1>6. CASE Backend
  BY Zenon, <1>1, <1>3, <1>6 DEF Backend, LoginLeaveGame, LocationReleased, AskMove, Move
<1> QED BY Zenon, <1>4, <1>5, <1>6 DEF Next

\* Every step keeps what a session knows of the logins of its one player.
LEMMA EInvNext == SInv /\ SInv' /\ EInv /\ [Next]_vars => EInv'
<1> SUFFICES ASSUME SInv, SInv', EInv, [Next]_vars PROVE EInv'
  OBVIOUS
<1>1. CASE UNCHANGED vars
  <2>1. gate' = gate /\ log' = log /\ chains' = chains /\ left' = left /\ moves' = moves /\ seen' = seen
    BY Zenon, <1>1 DEF vars
  <2>2. ASSUME NEW p \in Players, NEW c PROVE Former(gate, p, c)' = Former(gate, p, c)
    BY Zenon, <2>1 DEF Former
  <2>3. ASSUME NEW p \in Players PROVE Sole(p)' = Sole(p)
    BY Zenon, <2>1 DEF Sole
  <2>4. ASSUME NEW p \in Players, Sent(gate, p) PROVE Sent(gate, p)'
    BY Zenon, <2>1, <2>2, <2>4 DEF Sent, Former
  <2>5. ASSUME NEW p \in Players, Learnt(gate, p) PROVE Learnt(gate, p)'
    BY Zenon, <2>1, <2>5 DEF Learnt
  <2>6. ASSUME NEW p \in Players, Noted(gate, p, seen) PROVE Noted(gate, p, seen)'
    BY Zenon, <2>1, <2>6 DEF Noted
  <2> QED BY Zenon, <2>1, <2>3, <2>4, <2>5, <2>6 DEF EInv
<1>2. CASE Next
  <2>0. gate.conn # "gone" /\ seen \in Nat /\ gate' \in Sessions /\ UpstreamOK
    BY Zenon, <1>2 DEF Next, EInv, SInv, Kept
  <2>1. ASSUME NEW p \in Players, Sole(p), Mine(p)
        PROVE  gate'.conn # "gone" => Mine(p)' /\ seen' \in Nat
    <3>1. CASE Deliver
      BY Zenon, <2>0, <2>1, <3>1, DeliverMine
    <3>2. CASE ClientLeaveGame
      BY Zenon, <2>0, <2>1, <3>2, LeaveMine
    <3>3. ASSUME NEW q \in Players, ClientEnterGame(q) PROVE Mine(p)' /\ seen' \in Nat
      BY Zenon, <2>0, <2>1, <3>3, EnterMine
    <3>4. CASE DebtStep
      <4>1. Entered(gate', gate) /\ UNCHANGED <<log, chains, left, moves, seen>>
        BY Zenon, <3>4, DebtStepSettled DEF Settled, upstream
      <4> QED BY Zenon, <2>0, <2>1, <4>1, EnteredStepMine
    <3>5. CASE ConnectionDown
      <4>1. gate'.conn = "gone"
        <5>1. NotifySceneExitGame(gate) \in Sessions
          BY Zenon, NotifyEffect DEF SInv, Kept
        <5> QED BY <3>5, <5>1 DEF ConnectionDown, Sessions
      <4> QED BY Zenon, <4>1
    <3>6. ASSUME NEW n \in Nodes, NodeStep(n) PROVE Mine(p)' /\ seen' \in Nat
      <4>1. Entered(gate', gate) /\ UNCHANGED <<log, chains, left, moves, seen>>
        BY Zenon, <3>6, NodeEntered DEF upstream
      <4> QED BY Zenon, <2>0, <2>1, <4>1, EnteredStepMine
    <3>7. CASE Backend
      BY Zenon, <2>0, <2>1, <3>7, BackendMine
    <3> QED BY Zenon, <1>2, <3>1, <3>2, <3>3, <3>4, <3>5, <3>6, <3>7 DEF Next, Session, DebtStep
  <2>2. ASSUME NEW p \in Players, Sole(p)' PROVE gate'.conn # "gone" => Mine(p)'
    <3>1. Sole(p)
      BY Zenon, <1>2, <2>0, <2>2, SoleBefore
    <3>2. Mine(p)
      BY Zenon, <2>0, <3>1 DEF EInv, Mine
    <3> QED BY Zenon, <2>1, <3>1, <3>2
  <2>3. seen' \in Nat
    <3>1. CASE Deliver
      <4>1. Head(log) \in Commands
        BY <3>1 DEF SInv, UpstreamOK, Deliver
      <4>2. Head(log).login \in Nat
        BY <4>1 DEF Commands
      <4>3. max(seen, Head(log).login) \in Nat
        BY Zenon, <2>0, <4>2, MaxOrder
      <4> QED BY Zenon, <2>0, <3>1, <4>3 DEF Deliver
    <3>2. CASE ~Deliver
      <4>1. seen' = seen
        <5>1. CASE Session
          BY Zenon, <3>2, <5>1 DEF Session, ClientLeaveGame, ClientEnterGame, Shutdown,
             ConnectionDown, Tick, BackoffOver, RetryDueSceneEntries
        <5>2. CASE Backend
          BY Zenon, <5>2 DEF Backend, LoginLeaveGame, BindPlayer, SendBindSessionToGate, Recheck,
             Abandon, EnterScene, LocationReleased, AskMove, Move
        <5> QED BY Zenon, <1>2, <5>1, <5>2, NodeEntered DEF Next
      <4> QED BY Zenon, <2>0, <4>1
    <3> QED BY Zenon, <3>1, <3>2
  <2> QED BY Zenon, <2>2, <2>3 DEF EInv, Mine
<1> QED BY Zenon, <1>1, <1>2

\* Before the first login there is nothing to know.
LEMMA EInvInit == Init => EInv
<1> SUFFICES ASSUME Init PROVE EInv
  OBVIOUS
<1>1. /\ gate.told = None /\ gate.lastSceneRoute = None /\ gate.player = None
      /\ gate.playerAtReset = None /\ gate.resetPending = FALSE
      /\ gate.generationAtReset = 0 /\ gate.loginGeneration = 0
  BY DEF Init, NewSession
<1>2. DOMAIN log = {} /\ moves = {} /\ Len(chains) = 0 /\ left = 0 /\ seen = 0
  BY DEF Init
<1>3. 0 <= 0 /\ ~(0 >= 1) /\ 0 \in Nat
  OBVIOUS
<1> QED BY Zenon, <1>1, <1>2, <1>3 DEF EInv, Sent, Learnt, Noted

\* What a scene is told is the route by which the session was to enter.
LEMMA TakenEntry ==
    ASSUME NEW g, NEW h, NEW q, NEW m, NEW r, NEW b, Taken(h, g, q, m, r, b), g.told = None,
           h.told # None
    PROVE  h.told.route = entryRoute(h)
<1>1. h.told \in Tellings => h.told.route \in Targets
  BY DEF Tellings
<1> QED BY Zenon, <1>1, NoneAssumption DEF Taken, entryRoute

\* The one player of a connection; before a login it may be any.
LEMMA SolePlayer ==
    ASSUME UpstreamOK, onePlayer, NEW x \in Players
    PROVE  \E p \in Players : Sole(p)
<1>1. CASE DOMAIN chains = {}
  BY Zenon, <1>1 DEF Sole
<1>2. ASSUME NEW k \in DOMAIN chains PROVE \E p \in Players : Sole(p)
  <2>1. chains[k].player \in Players
    <3>1. chains[k] \in Chain
      BY <1>2 DEF UpstreamOK
    <3> QED BY <3>1 DEF Chain
  <2> QED BY Zenon, <2>1 DEF onePlayer, Sole
<1> QED BY Zenon, <1>1, <1>2

\* The session takes a route of a login that was left only if it has not seen any
\* of that login.
LEMMA DeliverEnters ==
    ASSUME SInv, EInv, gate.conn # "gone", Deliver
    PROVE  EntersByOwnLoginStep
<1> SUFFICES ASSUME gate.told = None
             PROVE  /\ onePlayer /\ entryRoute(gate') \notin {None, entryRoute(gate)} =>
                           \/ entryRoute(gate').login > left
                           \/ entryRoute(gate').login > seen
                    /\ gate'.told # None => gate'.told.route = entryRoute(gate')
  BY Zenon DEF EntersByOwnLoginStep
<1> DEFINE c == Head(log)
<1>0. /\ log \in Seq(Commands) /\ log # <<>> /\ left \in Nat /\ seen \in Nat /\ gate \in Sessions
      /\ NodesOK /\ UpstreamOK /\ Kept(gate) /\ Informed(gate) /\ Pointed(gate)
  BY Zenon DEF SInv, EInv, UpstreamOK, Deliver, Kept
<1>1. /\ c \in Commands /\ c = log[1] /\ 1 \in DOMAIN log
      /\ c.player \in Players /\ c.login \in Nat /\ c.login >= 1
      /\ (c.kind # "bind" => c.kind = "route" /\ c.target \in Targets)
  <2>1. c \in Commands /\ c = log[1] /\ 1 \in DOMAIN log
    BY <1>0
  <2> HIDE DEF c
  <2> QED BY <2>1 DEF Commands
<1>2. gate' = Handled(gate, c)
  BY Zenon DEF Deliver, Handled
<1> HIDE DEF c
<1>3. CASE IsFromBeforeLeaveGame(gate, c)
  <2>1. /\ gate'.told = None /\ gate'.lastSceneRoute = gate.lastSceneRoute
        /\ gate'.player = gate.player
    <3> DEFINE m == max(gate.generationAtReset, c.generation)
               h == [gate EXCEPT !.playerAtReset = c.player, !.generationAtReset = m]
    <3>1. gate' = gate \/ gate' = h
      BY Zenon, <1>1, <1>2, <1>3, DroppedKept DEF Handled, NoteDropped
    <3> HIDE DEF m
    <3>2. h.told = gate.told /\ h.lastSceneRoute = gate.lastSceneRoute /\ h.player = gate.player
      BY <1>0 DEF Sessions
    <3> HIDE DEF h
    <3> QED BY Zenon, <3>1, <3>2
  <2> QED BY Zenon, <2>1 DEF entryRoute
<1>4. CASE ~IsFromBeforeLeaveGame(gate, c) /\ c.kind = "bind"
  <2> DEFINE m == IF gate.player \in {None, c.player} THEN merged(gate, c) ELSE c.generation
             b == gate.resetPending /\ gate.player \in {None, c.player}
  <2>1. Taken(gate', gate, c.player, m, gate.lastSceneRoute, b)
    <3>1. Taken(BindSession(gate, c), gate, c.player, m, gate.lastSceneRoute, b)
      BY Zenon, <1>0, <1>1, <1>4, BindTaken
    <3>2. gate' = BindSession(gate, c)
      BY Zenon, <1>2, <1>4 DEF Handled
    <3> QED BY Zenon, <3>1, <3>2
  <2> HIDE DEF m, b
  <2>2. gate'.told # None => gate'.told.route = entryRoute(gate')
    BY Zenon, <2>1, TakenEntry
  <2>3. ASSUME onePlayer, entryRoute(gate') \notin {None, entryRoute(gate)} PROVE FALSE
    <3>1. PICK p \in Players : Sole(p)
      BY Zenon, <1>0, <1>1, <2>3, SolePlayer
    <3>2. Learnt(gate, p) /\ Known(gate, p, c)
      BY Zenon, <1>1, <3>1, SentKnown DEF EInv
    <3>3. gate'.lastSceneRoute = gate.lastSceneRoute /\ gate'.player = c.player /\ c.player = p
      BY Zenon, <2>1, <3>2 DEF Taken, Known
    <3> QED BY Zenon, <2>3, <3>2, <3>3 DEF entryRoute, Learnt
  <2> QED BY Zenon, <2>2, <2>3
<1>5. CASE ~IsFromBeforeLeaveGame(gate, c) /\ c.kind # "bind"
  <2> DEFINE q == IF gate.player = None THEN c.player ELSE gate.player
             m == IF gate.player \in {None, c.player} THEN merged(gate, c) ELSE gate.loginGeneration
  <2>1. Taken(gate', gate, q, m, c.target, gate.resetPending)
    <3>1. Taken(RoutePlayer(gate, c), gate, q, m, c.target, gate.resetPending)
      BY Zenon, <1>0, <1>1, <1>5, RouteTaken
    <3>2. gate' = RoutePlayer(gate, c)
      BY Zenon, <1>2, <1>5 DEF Handled
    <3> QED BY Zenon, <3>1, <3>2
  <2> HIDE DEF m, q
  <2>2. gate'.told # None => gate'.told.route = entryRoute(gate')
    BY Zenon, <2>1, TakenEntry
  <2>3. ASSUME onePlayer, entryRoute(gate') \notin {None, entryRoute(gate)}
        PROVE  entryRoute(gate').login > left \/ entryRoute(gate').login > seen
    <3>1. PICK p \in Players : Sole(p)
      BY Zenon, <1>0, <1>1, <2>3, SolePlayer
    <3>2. Learnt(gate, p) /\ Known(gate, p, c) /\ Noted(gate, p, seen)
      BY Zenon, <1>1, <3>1, SentKnown DEF EInv
    <3>3. entryRoute(gate') = c.target /\ c.target.login = c.login
      BY Zenon, <1>1, <1>5, <2>1, <2>3, <3>2 DEF entryRoute, Taken, Known
    <3>4. CASE ~gate.resetPending
      <4>1. left = 0
        BY Zenon, <3>2, <3>4 DEF Noted
      <4>2. c.login > left
        BY <1>1, <4>1
      <4> QED BY Zenon, <3>3, <4>2
    <3>5. CASE gate.resetPending
      <4>1. /\ c.generation = Generation(p, c.login)
            /\ gate.playerAtReset = p => ~(c.generation <= gate.generationAtReset)
            /\ gate.player = p => ~(c.generation < gate.loginGeneration)
        BY Zenon, <1>0, <1>1, <1>5, <3>2, <3>5, TakenNewer
      <4>2. ~(c.login \in 1..left /\ c.login <= seen)
        BY Zenon, <3>2, <3>5, <4>1 DEF Noted
      <4>3. c.login > left \/ c.login > seen
        BY <1>0, <1>1, <4>2
      <4> QED BY Zenon, <3>3, <4>3
    <3> QED BY Zenon, <3>4, <3>5
  <2> QED BY Zenon, <2>2, <2>3
<1> QED BY Zenon, <1>3, <1>4, <1>5

\* Every other step takes no route.
LEMMA EntersNext == SInv /\ EInv /\ [Next]_vars => [EntersByOwnLoginStep]_vars
<1> SUFFICES ASSUME SInv, EInv, Next PROVE EntersByOwnLoginStep
  BY Zenon
<1>0. gate.conn # "gone" /\ gate \in Sessions
  BY Zenon DEF Next, SInv, Kept
<1>1. ASSUME Entered(gate', gate) PROVE EntersByOwnLoginStep
  <2>1. gate.told = None /\ gate'.told # None => gate'.told.route = entryRoute(gate')
    BY Zenon, <1>1, TakenEntry DEF Entered
  <2>2. entryRoute(gate') = entryRoute(gate)
    BY Zenon, <1>1 DEF Entered, Taken, entryRoute
  <2> QED BY Zenon, <2>1, <2>2 DEF EntersByOwnLoginStep
<1>2. ASSUME gate' = gate PROVE EntersByOwnLoginStep
  BY Zenon, <1>1, <1>2 DEF Entered, Taken
<1>3. ASSUME ClientLeaveGame PROVE EntersByOwnLoginStep
  <2>1. gate'.told = None /\ gate'.lastSceneRoute = None
    BY Zenon, <1>0, <1>3, LeaveEffect DEF ClientLeaveGame
  <2> QED BY Zenon, <2>1 DEF EntersByOwnLoginStep, entryRoute
<1>4. ASSUME NEW p \in Players, ClientEnterGame(p) PROVE EntersByOwnLoginStep
  <2>1. /\ gate'.told = gate.told /\ gate'.lastSceneRoute = gate.lastSceneRoute
        /\ gate'.player = gate.player
    BY Zenon, <1>0, <1>4, EnterEffect DEF ClientEnterGame
  <2> QED BY Zenon, <2>1 DEF EntersByOwnLoginStep, entryRoute
<1>5. ASSUME ConnectionDown PROVE EntersByOwnLoginStep
  <2> DEFINE i == NotifySceneExitGame(gate)
  <2>1. /\ i \in Sessions /\ i.told = None /\ i.lastSceneRoute = gate.lastSceneRoute
        /\ i.player = gate.player
    BY Zenon, <1>0, NotifyEffect
  <2>2. gate' = [i EXCEPT !.debt = None, !.conn = "gone"]
    BY ZenonT(30), <1>5 DEF ConnectionDown
  <2> HIDE DEF i
  <2>3. SameSession(gate', i)
    BY Zenon, <2>1, <2>2, GivenUp
  <2> QED BY Zenon, <2>1, <2>3 DEF EntersByOwnLoginStep, entryRoute, SameSession
<1>6. ASSUME DebtStep PROVE EntersByOwnLoginStep
  BY Zenon, <1>1, <1>6, DebtStepSettled DEF Settled
<1>7. ASSUME Backend PROVE EntersByOwnLoginStep
  <2>1. gate' = gate
    BY Zenon, <1>7 DEF Backend, LoginLeaveGame, BindPlayer, SendBindSessionToGate, Recheck,
       Abandon, EnterScene, LocationReleased, AskMove, Move
  <2> QED BY Zenon, <1>2, <2>1
<1> QED BY Zenon, <1>0, <1>1, <1>3, <1>4, <1>5, <1>6, <1>7, NodeEntered, DeliverEnters
           DEF Next, Session, DebtStep

\* After LeaveGame a connection that logs one player in enters by a login asked
\* for since, but for the residual the code names.
THEOREM SessionsEnterByTheirLogin == Spec => EntersByOwnLogin
<1>1. Spec => []EInv
  <2>1. Spec => []SInv
    BY Zenon, SceneEntryInvariance
  <2> QED BY <2>1, EInvInit, EInvNext, PTL DEF Spec
<1>2. Spec => []SInv
  BY Zenon, SceneEntryInvariance
<1> QED BY <1>1, <1>2, EntersNext, PTL DEF Spec, EntersByOwnLogin
================================================================================
