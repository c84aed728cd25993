# TLA+ specifications of the game server

This directory holds formal models of the part of the server that decides who
owns a player: whose session counts, which login a connection serves, and which
scene node holds the player's live data.  The modules are translated from the
code; comments in them name the lines they follow.

## The system and its parts

| Part | Code | Here |
|---|---|---|
| player_locator: session store (Redis Lua scripts) | `src/go/player_locator/internal/logic/session_cas.go`, `gate_session_index.go` | `SessionStore` |
| player_locator: session RPCs | `setsessionlogic.go`, `reconnectlogic.go`, `setdisconnectinglogic.go`, `markofflinelogic.go` | `SessionRpc` |
| player_locator: lease monitor | `leasemonitor.go` | `LeaseMonitor` |
| player_locator as a whole | the three above | `LocatorService`; what it promises: `SessionProtocol` |
| player_locator: session reconciler | `session_reconciler.go`, `reconcile_view.go` | `SessionReconciler` |
| leader election | `src/go/shared/leader` | `RedisLock`, `LeaderElection` |
| login: EnterGame chain, LeaveGame, Disconnect, generations | `src/go/login/internal/logic` | `EnterGame` |
| login: session fence | `src/go/login/internal/logic/pkg/sessionfence/fence.go` | `SessionFence` |
| gate: router lanes | `src/cpp/libs/services/gate` | `RouterLane` |
| gate: scene routes and pending entries | `scene_route_helper.h` and the gate's event handlers | `SceneEntry` |
| scene_manager: identity of a placement, LeaveScene | `src/go/scene_manager/internal/logic/placement_identity.go`, `leavescenelogic.go`, `leave_release.go` | `ScenePlacement` |
| scene_manager: EnterScene, owner epoch, rollback | `enterscenelogic.go`, `owner_epoch.go`, `changesceneutil.go`, `enter_holder_release.go` | `HandoffFence`, `TravelHandoff` |
| scene node: admission, handoff, exit of a player | `player_lifecycle.cpp`, `role_admission_system.cpp`, `handoff_sql_barrier.h` | `HandoffFence`, `TravelHandoff` |
| everything else | see "What is not modelled" | |

How they interact.  A client connects to a *gate*, which sends its requests to
*login* one at a time through a router lane.  Login commits the account on the
connection's session fence.  EnterGame is answered at once and leaves a chain
running: under a player lock it mints a login generation, records the session in
*player_locator* (SetSession or Reconnect), binds the player in the fence, binds
the gate's session and asks *scene_manager* to place the player.  scene_manager
mints an owner epoch, writes the placement and routes the gate to a scene node;
the gate hands the entry over, or keeps it as a debt while the node is away.
The *scene node* registers itself as the holder in Redis, loads the player and
plays.  To move on, the holder freezes and saves the player, publishes a handoff
mark, and asks scene_manager for the new placement.

When the connection drops the gate reports it; login settles the session through
the fence and the session becomes DISCONNECTING with a 30 s lease.  A *lease
monitor* in each locator replica claims due leases, ends the session, tells the
gate by Kafka and scene_manager by LeaveScene, and acknowledges.  A normal logout
(MarkOffline) deletes the session at once and calls LeaveScene itself; when that
fails the cleanup is queued as if it were a lease.  A gate that dies reports
nothing: the *reconciler*, run by an elected leader, finds the sessions of gates
missing from etcd through a gate-to-player index and disconnects them.

## The modules

`SessionStore` has the Redis state as variables: `session` (the protobuf record,
or None), `ready` and `processing` (the lease ZSETs; a score is "none",
"pending" or "due"), `token` and `payload` (the claim hashes), `index` and
`registry`.  One operator per Lua script.  A script is atomic and compares the
whole record, so the model compares records.

`SessionRpc` has one record per handler in flight, `call`.  A handler is GET and
decision (one step), then its script (another), then for MarkOffline LeaveScene
and the enqueue; it may stop between any two.  A handler whose decision refuses
changes nothing and is not a step.

`LeaseMonitor` has one record per replica, `monitor`: the batch, the claims still
to do, the claim in hand, and the Redis or RPC call it is about to make.

`LocatorService` composes the three, adds the passing of time, and states the
safety properties and the inductive invariant.  `LocatorServiceProofs` proves
them.

`SessionProtocol` is what callers may rely on: a session appears, drops, returns,
leaves or expires in one atomic transition each.  `LocatorRefinement` maps the
service to it (`leased`: a lease is queued or claimed; `owed`: a cleanup is under
way); `LocatorRefinementProofs` proves the implementation.  `EnterGame` uses the
protocol instead of the service.

`SessionReconciler` puts the reconciler over the same store.  A leader term
(`rec[r]`) is at one point of its index round and at one point of its full pass,
the two goroutines of the code.  The environment: gates start, crash, lapse from
etcd and return; legacy locators write without the index; Redis fails over under
a scan; terms end at any time and may overlap.  `SessionReconcilerProofs` proves
its safety.

`RedisLock` is a key with a time to live and the heartbeat that renews it, in
discrete time: `left` is what remains of the TTL, `age` the time since the holder
*sent* its last successful request, `since` the age of the call in flight.  Calls
fail before or after Redis carried them out, and a command whose caller gave up
may be carried out late.  `LeaderElection` is the elector's Run, Stop and
step-down over it; `LeaderElectionProofs` proves it.

`SessionFence` is the record of one gate connection (closed, player, number of
LeaveGames), one operator per script.  `EnterGame` has the requests of the
connections (`call`) and the background chains (`chain`), one script or RPC per
step, each of which may fail and run the deferred clean-up; the player lock may
be lost, a reply of SetSession may be lost, clocks of login replicas are skewed.
`EnterGameProofs` proves its properties.

`RouterLane` and `SceneEntry` are functions on the state of the gate, which has
one event loop: a handler is one step, the pumping of the lane or the attempt to
enter included.  `RouterLane` has lanes by session id, the index of calls in
flight, replies and failures on their way, deadlines and sweeps, and connections
that take over a session id; `Pump`'s loop is the requests up to the first that is
sent (`turn`), and `RouterLaneProofs` proves its safety.  `SceneEntry` has one connection with the commands
of login and scene_manager on their way to it, the pending entry, and scene nodes
that go, come back as a new entity and link up; `SceneEntryProofs` proves its safety.

`ScenePlacement` is the location with the two identity verdicts and LeaveScene,
which may delete, keep the location for its identity, wait for the holder, fail,
or succeed and delete nothing because the location was written since its caller
looked.  `SessionCleanup` composes it with `LocatorService`.  An EnterScene is in
flight (`entering`) from the write of the record, or from the moment the holder
asks for another scene, until it arrives, whatever has become of the session by
then.  `overtaken` has the callers of LeaveScene whose location was written
between their look-up of the scene id and the delete: the scene id no longer
matches, or the compare-and-delete fails, and both are answered with success.
`lost` notes for whom no cleanup is left: the code gave it up and said so, the
ended session had no generation (LeaveScene then keeps a tagged location), or the
location was written when there was no session.  `SessionCleanupProofs` proves the
properties on top of `LocatorServiceProofs`.

`HandoffFence` has the scripts on a player's ownership keys: the owner epoch, the
placement, the handoff mark and the holder fence.  `TravelHandoff` has the scene
nodes (entity, admission, pending load, withdrawals owed), the requests at
scene_manager, and one Redis connection per node that runs its commands in order
and may be lost with commands still under way.  A verdict on a handoff, a resume,
a registration and a release are each a compare-and-set of the fence, so that
whatever is late meets a rotated fence.

`MC*` modules add symmetry sets, scopes and the fair specifications.

### Abstractions

- Timestamps, request ids, scene ids and tokens of the client are left out of
  the session record.  `gate_id` and `gate_instance_id` are one value in the
  locator; NoGate is "".
- Deadlines are symbolic outside `RedisLock`, and falling due is a step of its
  own: any ordering of timeouts against calls is covered.
- Claim tokens (uuids) and lock values come from finite sets; a fresh one is one
  that nobody knows.  With none left no claim is made, so there are enough.
- `payload = None` stands for an empty or unparsable snapshot.
- A location in `ScenePlacement` is tagged with the owner revision of its role,
  readable, and of the present owner; roles are not traded.  For another revision
  LeaveScene deletes or fails (`locationForRevision`), a corrupt location it keeps.
  The scene id of a LeaveScene is looked up, since no caller ever puts one into a
  session record.
- "The holder has released the player" is one fact per player in
  `ScenePlacement`, set by the scene node, void after a new placement.
- `lost`, `lapsed`, `unseen` and `seen` are history variables.
- `TravelHandoff`: a save is one step guarded by the owner epoch; a placement
  carries the identity of the request that wrote it; a route may be delivered any
  number of times, also one whose push failed; a node that scene_manager takes for
  dead is dead; a session-ended release comes from a login that met a holder, and
  arrives at most once.
- `TravelHandoff`: the reply to an EnterScene stops the watchdog; the code lets the
  first one run and finds nothing to do.
- `HandoffFence`: the mint and rollback scripts recognise their own replay and
  answer as before; a replay changes nothing and is left out.
- `EnterGame`: backfill of identities is one step of a chain; a fence outlives its
  chains, as its TTL is derived from their budget.  A role stays with its account,
  so DecideEnterGame's comparison of accounts is left out.  A connection takes its
  next request when the handler of the last one has returned; the gate may do so
  earlier, on a failed call or a deadline, when the handler's context ends as well.
  `LocatorStep` is the lease monitor as `SessionProtocol` sees it.
- `LeaderElection`: a leader whose context is cancelled steps down at once, as with
  `Run(ctx, nil)`, which scene_manager uses.  A callback may take its time over it;
  the terms of `SessionReconciler`, which has one, may therefore overlap.
- `SceneEntry`: the index of sessions with a pending entry is the existence of the
  entry; the model ends with the connection.  Of scene_manager it has the place and
  the epoch of a player, minted for another node only, and a failed push that is
  rolled back or not and may have been delivered; that the target is any node and
  scene, and may be the old one, allows more than the choice of a scene does.

Type invariants are part of another invariant where they are model-checked
(`LaneTypeOK` in `LaneMatchesIndex`, `EnterTypeOK` in `OnlineIsSettled`,
`SceneEntryTypeOK` in `RouteIsWhole`, `CleanupTypeOK` in `RecordCoversPlacement`,
`HandoffTypeOK` in `NothingLost`); those of the locator and the election are
proved.

## The runs

| Run | Config | Question | Result |
|---|---|---|---|
| locator | `Locator.cfg` | a handler, two monitors, one of which may die or be late: is the store consistent, is the protocol implemented, do disconnects and cleanups end | holds |
| reconciler | `Reconciler.cfg` | both loops of a leader on one gate; the index loop on two; full passes under failovers; are crashed gates' sessions taken over | holds |
| cleanup | `Cleanup.cfg` | with requests in flight to scene_manager, does a location outlive its session unattended, does a late cleanup hit the next login | holds |
| cleanup_sync | `CleanupSync.cfg` | two locator requests in flight, no monitor: do records advance and cover all placements | holds |
| election | `Election.cfg` | slow calls, errors, crashes, late commands: never two leaders | holds |
| election_live | `ElectionLive.cfg` | lost keys: terms are bounded; vacancies are filled | holds |
| enter_game | `EnterGame.cfg` | chains against each other, Disconnect and LeaveGame | holds |
| lane | `Lane.cfg` | order, single answers and progress of lanes | holds |
| scene_entry | `SceneEntry.cfg` | routes, bindings and pending entries of a connection | holds |
| travel_handoff | `TravelHandoff.cfg` | handoffs against logins, exits, lost connections, failed routes and crashes | holds |
| cleanup_rearm | `CleanupRearm.cfg` | a queued cleanup leaves the queue only by an ack | **violated** |
| cleanup_overwrite | `CleanupOverwrite.cfg` | as cleanup, with two locator requests in flight | **violated** |

A run that asks its question of several small instances chooses a `scope` in the
initial state; the scope never changes and bounds what the behaviour may use
(`Within`).  The instances are then checked side by side with one set of
properties.

The two violated runs are disagreements between code and comments.

*cleanup_rearm*: `leasemonitor.go:167` counts a failed read of the session key as
"the key exists".  For the queued cleanup of a logout there is no such key.  The
AFK probe that follows is a Redis read as well; when it answers unknown or
active, the re-arm script finds no session and drops the claim.  The comment
above (162-166) says that this must not happen.

*cleanup_overwrite*: `enqueueOfflineCleanupScript` overwrites the queued payload.
Logout 1 is delayed before its enqueue; the player logs in and out again, and
logout 2 queues its cleanup; logout 1 then replaces it with the older
generation, LeaveScene answers "kept, newer" and the claim is acknowledged.  The
location of login 2 stays.  `markofflinelogic.go:111` says that the location is
deleted in the end.

### The properties

- `IndexExact`: a player is in a gate's index exactly while ONLINE on it.
- `DisconnectingIsLeased`: a DISCONNECTING record, which has no TTL, always has a
  lease entry.
- `NotifyOnlyWithoutSession`: while a monitor with a standing claim announces the
  end of a session there is no session.
- `MonitorSparesOnline`, `RecordAdvances`: what a step may never do to a record.
- `ClaimHasToken`: no claim without owner blocks the next login.
- `ImplementsProtocol`: the replicas over one Redis behave as `SessionProtocol`.
- `DisconnectsEnd`, `CleanupsEnd`: neither lasts once the faults stop.
- `RegistryCoversIndex`, `ReadyMeansIndexed`, `SparesRegistered`,
  `OrphansAreTaken`: the reconciler visits every index with members, announces
  the index only when it is complete, ends only sessions of gates that have been
  missing from etcd, and in the end all of them.
- `RecordCoversPlacement`: the end of a recorded session with a generation would
  delete the player's location and every location still on its way.
  `OnlineKeepsLocation`: the end of an earlier session deletes no newer placement.
  `NoGhostLocation`: a location without a session has somebody who will delete it,
  unless it is one of those in `lost`.
- `MutualExclusion`, `OneSlipTolerated`, `LeadsWithinLease`, `VacancyIsFilled`,
  `DeposedResigns`: never two leaders, no resignation over one failed beat, no
  term beyond its lease, no lasting vacancy.
- `OnlineIsSettled`: no session stays ONLINE on a connection that is gone without
  somebody on the way to settle it.  `BoundWasAsked`, `NoLoginAfterGone`: the
  fence binds no player the client has left and no login after the close.
  `LiveSessionKept`, `UndoHitsOwn`: a late report, or the compensation of a
  chain, ends no session of another connection or chain.  `GenerationsAdvance`:
  generations grow although clocks are skewed and keys expire.
- `EnterAfterLogin`, `LaneMatchesIndex`, `OneAnswer`, `InOrder`, `LaneMoves`: a
  pipelined EnterGame sees the outcome of its Login; a completion is claimed by
  the connection that made the call; every request is answered at most once, in
  order, and no lane is stuck.
- `ScenesKnowEpoch`, `RouteIsWhole`, `EntersByOwnLogin`, `HolderGetsExit`,
  `LoginTypeSettles`: a scene node learns the epoch it serves; an entry never
  mixes two roles; after LeaveGame a late route of the login that was left is not
  taken, and a scene is told the route that was; the node left behind is told; the
  login type is delivered or given up.
- `OneHolder`: at most one node has a copy that is not frozen, at the owner's
  epoch.  `MarkIsHonest`: while a mark of the current epoch stands everything is
  saved and nobody plays.  `NothingLost`: the live copy has every change that did
  not die with a node.  All three speak of behaviours in which no unprotected
  placement was undone after its route went out (see the known departures).

### Bounds

One player suffices for most questions: the scripts touch one player's keys, and
players share only batches and gate index sets.  The locator run has one gate,
one handler and records up to version 2, and what it checks of safety is proved
for any size.  `cleanup_sync` has two handlers, for a stale read and a commit in
between; `cleanup` one monitor at a time, or two, for a late claim and the one that
replaced it, then with records that are not written again and one EnterScene in
flight; its properties are proved without these bounds.  One account, as a role
stays with its own.
Records are recreated at version 1 after a deletion, so histories are not bounded
by `MaxVersion`.  `MaxGeneration` 2 gives an older and a newer login; 0 stands for
logins without a generation.  One session id, as reuse of the id is the hard case.
`MaxIndexGen` 1 gives a pass that is overtaken by a writer check.  The reconciler
has one term at a time, begun and ended at will; failovers of Redis are explored
with full passes alone, and two gates, between which stale members move, with
index rounds alone.

Election: two replicas, as exclusion is between pairs; TTL, interval and longest
call are the smallest that leave room for a late timer, and the theorems cover
the others.  `enter_game`: two roles on a connection, two connections, a lock that
is lost, one session id on two gate instances (`c1` and `c3`), each with two
chains, and three chains with a LeaveGame or with clocks; the theorems cover
larger instances.  `lane`: a depth of 2, so that a
lane fills; four requests on one session id, or three on two; a session id is
taken over once.  `scene_entry`: two players in turn on one node, or one player
between two nodes; two attempts exhaust a budget.  Its safety is proved for any
number of players, nodes, logins and attempts.

`travel_handoff`: two nodes and another zone; a scope gives the number of
requests, admissions, stamps (handoffs and release marks) and changes and at most
one kind of fault, which happens once.  Two requests give a move and a login that
crosses it; three admissions a player that returns; two stamps a handoff and an
exit.  Larger instances were explored once with the same result, among them two
requests with two stamps, three requests, and a lost connection, a failed route
and a crash together; random walks with three nodes, six requests, seven admissions
and three faults of each kind met no violation either.

`CHECK_DEADLOCK FALSE` is set where the budgets of an instance can be used up and
nothing is left to do: `enter_game`, `scene_entry` and `travel_handoff`.

### Fairness

Liveness of the locator, the reconciler and the election is stated for executions
in which faults (crashes, failed calls, pauses, valid AFK passes, changes of
leader, lost keys) happen for a while and then stop; the variable `calm` says
when.  Assumed: weak fairness of each monitor's undisturbed steps (its ticker
loop, never blocked by another process), of time, of each leader's two loops, of
the start of a term (the campaign retries for ever), of the lapse of a dead
gate's etcd lease, and of each elector's own steps.  Handlers get no fairness: a
client may stop at any point.  Once calm, a claim held by a live round is not
timed out, because its heartbeat renews it in time; before, it may be.  In the
reconciler's run legacy locators are gone once calm.

Lanes: weak fairness of the sweep (a timer of the event loop) and of each
deadline; replies may never come.  Scene entries: weak fairness of the retry
timer, of time and of the end of a back-off; commands may never come.

## What is proved

`LocatorServiceProofs` proves, for any number of players, gates, handlers,
monitors and tokens and any bounds, with the assumptions on constants named in
`SessionStore` (the bounds are naturals; NoGate, NoToken and None are outside
the sets they complement):

- `Invariance`: `Spec => []IInv`, and from it `TypeCorrect`, `GateIndexIsExact`,
  `EveryDisconnectIsLeased`, `NotificationsAreForEndedSessions` and
  `ClaimsHaveTokens`;
- `OnlineSessionsAreSpared`: `Spec => MonitorSparesOnline`;
- `NotifiersKeepTheirClaims`: `Spec => NotifierKeepsClaim` (no login, logout or
  disconnect takes away the claim under which a monitor is notifying);
- `LiveRecordsAdvance`: `Spec => RecordAdvances`.

None of these is inductive alone.  `NotifyOnlyWithoutSession` needs to know that
a claim with a standing token is about the present session or none
(`OwnedClaimIsCurrent`): then the commit that precedes the notification has
really deleted the session, and the fail-closed branch of the replace script
keeps a new one out while the token stands.  `DisconnectingIsLeased` needs the
same for an acknowledgement (`AckIsDue`), and that processing entries and tokens
come together (`ClaimHasToken`).  `IndexExact` and `RecordAdvances` need what a
handler may carry from its read to its script (`CallCoherent`).
`MonitorCoherent` says that a monitor commits only claims on sessions that were
not ONLINE.  `IInv` is the conjunction; the proof has a lemma per script, one per
handler step and one per monitor step.

`LocatorRefinementProofs` proves `LocatorImplementsProtocol`: `Spec =>
ImplementsProtocol`, under the same assumptions.  Initial states map to initial
states; the script of a handler or the commit of a monitor maps to the one
transition of the protocol, every other step to a stutter.  Besides `IInv` it
needs that a disconnect in flight was decided for an ONLINE record
(`DisconnectCoherent`).

`LeaderElectionProofs` proves, for any number of replicas and values and any times
that satisfy `HeartbeatAssumption` (the second failed beat returns before the key
expires, which is what `fence.go` asks of its parameters): `NeverTwoLeaders`,
`TermWithinLease` and `OneSlip`.  The invariant says that a holder's key stands
for at least the rest of the TTL counted from the sending of its last successful
request (`HolderOwnsKey`), that no two attempts share a value and only a renewal
on the wire can be one of a present attempt (`ValuesDistinct`), and how old a
leader can be at each point of the heartbeat (`BeatsInTime`).  Redis is taken to
keep the key for its TTL.

`SessionReconcilerProofs` proves, for any number of players, gates and
overlapping terms (`ReconcilerAssumption`: there are session ids and accounts, the
bound on generations is a natural): `RegistryCovers`, `ReadyIndexIsComplete`,
`RegisteredGatesAreSpared` and `ReconcilerTypes`.  A term acts on what it read some
steps earlier, so the invariant says for each point of its two loops what is still
true of that: suspected gates have been missing from etcd (`RoundOK`), a candidate
is what its last read said (`CandidateOK`), and a backfill that may still announce
the index has scanned, or will repair, every session it lacks, unless a legacy
locator wrote it since (`PassOK`).  A pass that a writer check overtook has an
older generation and no longer counts, which is why it cannot announce.

`EnterGameProofs` proves all six properties of the run `enter_game` for any number
of connections, roles, chains, LeaveGames and generations and any clock skew.
Assumed: a session id and a gate instance identify a connection
(`ConnsAssumption`), the bounds are naturals and None is outside the sets it
complements (`EnterGameAssumption`, `NoneAssumption`).  `EnterInvariance` has five
parts:

- `Ready`: the records are well formed; in particular a version is at most twice
  the generation, which keeps it in its type;
- `Closing`: the fence is closed exactly when Disconnect has done its first step,
  and the login state is gone after its second (`NoLoginStateIsLeft`);
- `Minting`: nothing above the key was minted and, once the key has expired,
  nothing that the slowest clock has not passed (`MintedGenerationsGrow`);
- `Asking`: a chain's count of LeaveGames is at most the fence's and, where they
  are equal, its role was asked for since the last one (`BindingsWereAsked`);
- `Locking`: unless Redis has lost a lock, a chain past TryLock holds it, and from
  its write on the stored session is its own or none (`UndoDeletesOwnSession`).

`LiveSessionsAreKept` follows from `Ready` and `Closing`.
`EveryOnlineSessionIsSettled` has the hypothesis `LostReplies \subseteq
{"replace"}`: without it the property is false (see below).  Its invariant
`Settled` strengthens the property: a LeaveGame or a compensation that is about to
delete counts only if it read the present version, and a chain only if it minted
the generation that is stored; else its next step would leave the session to
nobody.

`SessionCleanupProofs` proves, for any number of players, handlers, monitors,
tokens and generations and under the assumptions of the locator,
`RecordsCoverPlacements` and `OnlinePlayersKeepLocations` (handlers and monitors
are told apart, `CallersApart`).  LeaveScene compares login generations, so what has to be known is how old every generation is that
somebody may still present.  `CInv` adds to the locator's `IInv`:

- `Logins`: the player lock admits one login of a player at a time, and what it
  carries was minted;
- `StoredPast`: every generation that is stored or remembered, in a record, a
  placement or an EnterScene on its way, a queued payload, a handler or a monitor's batch, was minted before
  the login under way (`PastGens`);
- `CallersOlder`, `NotifiersOlder`: who calls LeaveScene does so for a session
  older than the present one (`OlderGens`);
- `Covered`: the record of a session covers the placements, present and on their
  way, that it will have to delete.

Its last part proves `NoLocationIsLeftBehind`, with the hypothesis `OneHandler`: one
session RPC at a time.  With two the property is false, as the run
`cleanup_overwrite` shows.  `GInv` says that a queued payload is the present session
or a cleanup (`Matched`), that a monitor whose claim stands knows its payload
(`ClaimsMatch`), that an acknowledged cleanup has nothing left to delete
(`AcksAreDone`), that a handler in LeaveScene or about to queue has the player's
entries to itself (`CleanersAreAlone`), and that a LeaveScene can be overtaken only
by an EnterScene that came when there was no session (`OvertakenCalls`,
`OvertakenMonitors`): whoever acknowledges a cleanup after an overtaken LeaveScene
leaves a location behind that was given up already.

`RouterLaneProofs` proves the four safety properties of the run `lane` for any
number of session ids, connections and requests and any depth of a lane.  Assumed:
the bounds are naturals, a lane holds at least one request, messages are of the three
kinds the gate tells apart (`LaneAssumption`), and None is no lane
(`NoLaneAssumption`).  The theorems are `LanesMatchIndex`, `AnsweredOnce`,
`EnterGameFollowsLogin` and, for the action property, `RequestsGoInOrder`.  None of
the four is inductive: whether a request is answered a second time, or overtakes
another, depends on where every earlier request of its connection is.  `LInv` says so:

- `Counted`: call numbers and incarnations run with the requests and connections made;
- `LanesOK`: a lane's requests are its own connection's, queued in the order they were
  made after the one in flight and not answered yet (`InLine`), every other request of
  that connection has been answered unless the lane was redirected (`Accounted`), and
  `loginSucceeded` means that an earlier Login was granted (`Opened`);
- `Apart`: no two lanes have the same incarnation;
- `IndexOK`: a call in the index is the unanswered one its lane waits for, and the
  other way round;
- `AnswersOK`, `SentOK`: an answer went to the connection that asked, and an EnterGame
  that was sent was entitled to it.

Every handler is some change to the gate followed by `Pump` on the lanes it touched,
so there is one lemma on what `Pump` does (`PumpEffect`, `PumpKeeps`), one on the end
of any set of calls (`FinishKeeps`), and the handlers cite them.  `Pump` is written
with `turn`, the first request that can be sent, instead of as a loop: that such a
request exists when any can be sent is the least-number principle (`Least`), the only
induction needed.

`SceneEntryProofs` proves the four safety properties of the run `scene_entry` for
any number of players, scene nodes, scenes, entities, logins and attempts.  Assumed:
the bounds are naturals, generations are minted upwards (`SceneEntryAssumption`),
and None is no entity, place, route, debt or forwarded entry (`NoneAssumption`).
`SceneEntryInvariance` (`SInv`) gives `RoutesAreForwardedWhole`,
`ScenesLearnTheEpoch` and `HoldersGetExit`: a debt is always for the last route, the
epoch of the session is that route's, and what a scene was told agrees with what the
session has forwarded (`Kept`); a session with nothing owed has told the scene its
epoch (`Informed`); the entity that was told is the one the session points to, as
long as it lives (`Pointed`).  Bindings, routes and the retry loop all end in one
attempt to enter, so the proof has one lemma for the attempt (`Entered`, `Taken`)
and the handlers cite it.

`SessionsEnterByTheirLogin` (`Spec => EntersByOwnLogin`) needs to know what the
session has learnt of each login whose commands are still on their way (`EInv`):
every command in the log carries the generation of its login, or is a scene change
that an entity asked for which the session knew (`Sent`, `Former`); the route it
keeps is of a login it has learnt (`Learnt`); and a login it saw anything of before
the client left is recognised by the generation noted at LeaveGame or raised by a
dropped event (`Noted`).

Stating it for any bounds changed the property.  It used to speak of the scene that
is told; but a route taken in the residual the code names may be forwarded by a
retry after the Bind of the new login has come, which two attempts were too few to
show.  It now speaks of the route the session takes.  And it needs `onePlayer`: see
the next section.

Only model-checked:

- the liveness properties, `LaneMoves` among them: fairness and ENABLED are out of
  the prover's reach;
- the handoff: `OneHolder`, `MarkIsHonest` and `NothingLost` rest on what is in each
  node's Redis pipeline, in order, against what each node remembers; the inductive
  invariant is a development of its own and has not been written.

## Known departures that no run shows

Met while modelling, each outside what the passing runs assume:

- `leader.go:211`: Stop cancels the leader's context if it is published.  A Stop
  while SETNX is in flight, or before the context is published, is lost, and the
  replica leads on while the process lives.  Exclusion holds all the same.
- `entergamelogic.go:902`: a first login's SetSession whose reply is lost leaves
  its session ONLINE and unbound.  `enter_game` therefore loses replies only of a
  replacing login; `LostReplies = {"first"}` shows the case.
- `entergamelogic.go:761` checks the fence again before EnterScene so that no
  location is written once the session is DISCONNECTING or gone.  The request is
  sent after the check: when the session ends before it arrives, the location is
  written and stays until the player's next login.  The same goes for a scene change
  the holder asked for.  `NoGhostLocation` excepts both (`giveUp` in `Enter`).
- `leavescenelogic.go:181` says that the end of a session without a generation
  deletes the location as before; line 228 keeps a tagged one and answers success,
  and the cleanup is acknowledged.  Only releases without login generations end
  sessions that way.
- `session_manager.go:169`: the compensation reads the record again and deletes
  what it finds under the same session id.  After a lost lock that can be the
  session of a newer chain; `UndoHitsOwn` is stated for chains that hold the lock.
- `player_lifecycle.h:971` says that an unchanged epoch proves that the player was
  not and will not be given away.  LeaveScene can delete a placement on the
  evidence of a travel mark; a verdict then finds the epoch unchanged and an empty
  placement, and the holder resumes beside the next login until its next save is
  refused.  `TravelHandoff` leaves the deletion of placements out.
- `owner_epoch.go:237` says that a placement minted without a mark has no token to
  check when it is undone.  The undo after a push that failed, but was delivered,
  leaves the node with a copy of a former epoch until its next save is refused.  It
  also happens when the push really failed: a second login places the player on the
  same node at the same epoch, its own push fails but is delivered, and its undo
  restores the first placement to the letter, which the first login then undoes.
  `used.undone` counts these, and the handoff's properties exclude them.
- `scene_route_helper.h:207`: the session remembers one player it left
  (`playerIdAtReset`).  When a connection goes from one role to another and back, a
  Bind of the other role ends the watch for late events (`ApplyLoginBinding`), and a
  dropped event of a role other than the remembered one is not noted.  A late Bind
  and route of the login that was left can then be taken.  It takes three logins on
  one connection; `EntersByOwnLogin` is stated for connections that log one player
  in.
- Remainders the code documents and the models exclude: `scene_route_helper.h:205`
  (through the history `seen`) and a late route or bind of another role that
  cancels the current role's pending entry.

## What is not modelled

Within the modelled parts:

- locator: a claim payload naming another player, Redis keys of the wrong type,
  loss of acknowledged Redis writes, pacing and page sizes;
- EnterGame: exhaustion of the four attempts to mark a session disconnecting,
  errors of the fence's Close and Leave scripts, an error of DeleteSession in
  LeaveGame, a failed probe, a crash of login between commit and bind, device
  limits, gates without a fence;
- router lanes: an echo without gate_call_seq, the direct mode;
- scene entries: owner revisions, home zones, routes without a scene;
- handoff: the session's identity on a scene node, registration of roles in SQL
  (external), trade seals, the lifetime of marks and the deadline of the
  withdrawal queue, ReleasePlayer to the node a player has left, LeaveScene's
  deletion of placements, saves refused by serialisation, request deduplication
  and the re-entry barrier of a restarted node.

Parts without a model, with the reasons in `PROJECT.json`: world channels,
instances and load; id segments and snowflake ids; db and data_service; match,
teams, trade and the social services; client_rpc_router; the Java nodes.  They
take no part in the ownership of sessions and players, or only as a call that may
fail; each would be a development of its own.  Game rules in the C++ nodes, the
engine, generated code, table data, tools and deployment have no protocol state.
These parts are most of the repository by size, so the models cover a small share
of its lines: the core of the code that passes a player from one process to
another.
