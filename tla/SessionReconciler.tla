--------------------------- MODULE SessionReconciler ---------------------------
(***************************************************************************)
(* The session reconciler of player_locator (session_reconciler.go).  Its  *)
(* leader turns the ONLINE sessions of crashed gates into DISCONNECTING    *)
(* ones, found through the gate index, and rebuilds the index after        *)
(* releases that wrote sessions without maintaining it.                    *)
(*                                                                         *)
(* A leader term runs two loops side by side: index rounds and full passes *)
(* (backfill or audit).  Each Redis or etcd call is a step of its own.     *)
(* Leadership only saves load: any number of terms may overlap, so a term  *)
(* begins and ends at will.                                                *)
(*                                                                         *)
(* The writers of sessions appear as their committed scripts; see          *)
(* SessionRpc for the handlers around them.                                *)
(***************************************************************************)
EXTENDS SessionStore

CONSTANTS
    Reconcilers,    \* player_locator replicas that campaign
    MaxIndexGen     \* bound on the index generation

ASSUME ReconcilerAssumption ==
    MaxIndexGen \in Nat /\ SessionIds # {} /\ Accounts # {}

VARIABLES
    up,          \* gate processes that run
    registered,  \* gates in etcd: a crashed gate lingers, a running one may lapse
    legacy,      \* is a locator registered that does not maintain the index?
    indexReady,  \* the ready marker
    indexGen,    \* the index generation
    rec,         \* per replica: None, or the state of its term
    lapsed,      \* history: gates that have been missing from etcd
    unseen       \* history: players last written by a legacy locator that no
                 \* successful writer check has seen since

etcdVars == <<up, registered, legacy, lapsed>>
vars == <<session, ready, processing, token, payload, index, registry,
          up, registered, legacy, indexReady, indexGen, rec, lapsed, unseen>>

Member == [gate : Gates, player : Players, raw : PlayerSession \cup {None}]

\* The memory of a term: the debounce table, the index round, the full pass.
Term ==
    [suspects : [Gates -> 0..2],
     round : {"check", "mark", "registry", "live", "sweep", "act"},
     gates : SUBSET Gates,                 \* registry snapshot, then dead gates
     member : Member \cup {None},          \* member under the sweep
     pass : {"idle", "gen", "check", "mark", "scan", "member", "ensure", "repair",
             "prune", "pruneAct", "announce"},
     audit : BOOLEAN, gen : 0..MaxIndexGen, restarted : BOOLEAN,
     todo : SUBSET Players,                \* session keys still to be scanned
     cand : Member \cup {None}]            \* candidate of the scan or the prune

NewTerm ==
    [suspects |-> [g \in Gates |-> 0], round |-> "check", gates |-> {}, member |-> None,
     pass |-> "idle", audit |-> FALSE, gen |-> 0, restarted |-> FALSE,
     todo |-> {}, cand |-> None]

Init ==
    /\ session = [p \in Players |-> None]
    /\ ready = [p \in Players |-> "none"]
    /\ processing = [p \in Players |-> "none"]
    /\ token = [p \in Players |-> NoToken]
    /\ payload = [p \in Players |-> None]
    /\ index = [g \in Gates |-> {}]
    /\ registry = {}
    /\ up = {} /\ registered = {} /\ lapsed = {}
    /\ legacy = TRUE
    /\ indexReady = FALSE /\ indexGen = 0
    /\ rec = [r \in Reconcilers |-> None]
    /\ unseen = {}

-----------------------------------------------------------------------------
(* Writers of sessions *)

onlineAt(p, g) ==
    [sid |-> CHOOSE sid \in SessionIds : TRUE, gen |-> 0, gate |-> g,
     ver |-> IF session[p] = None THEN 1 ELSE session[p].ver + 1,
     account |-> CHOOSE a \in Accounts : TRUE, state |-> Online]

disconnected(s) == [s EXCEPT !.state = Disconnecting, !.ver = @ + 1]

mayWrite(p) == IF session[p] = None THEN TRUE ELSE session[p].ver < MaxVersion

SetSession(p, g) ==
    /\ g \in up /\ mayWrite(p)
    /\ replaceSessionAndCancelLease(p, session[p], onlineAt(p, g))
    /\ unseen' = unseen \ {p}
    /\ UNCHANGED <<etcdVars, indexReady, indexGen, rec>>

SetDisconnecting(p) ==
    /\ InState(session[p], Online) /\ mayWrite(p)
    /\ transitionToDisconnecting(p, session[p], disconnected(session[p]))
    /\ unseen' = unseen \ {p}
    /\ UNCHANGED <<etcdVars, indexReady, indexGen, rec>>

\* MarkOffline, or an expired lease.
EndSession(p) ==
    /\ session[p] # None
    /\ deleteSessionIfUnchanged(p, session[p])
    /\ unseen' = unseen \ {p}
    /\ UNCHANGED <<etcdVars, indexReady, indexGen, rec>>

\* The same writes by a locator that knows nothing of the index.
LegacyWrite(p) ==
    /\ legacy
    /\ \/ /\ mayWrite(p)
          /\ \E g \in up : session' = [session EXCEPT ![p] = onlineAt(p, g)]
       \/ /\ InState(session[p], Online) /\ mayWrite(p)
          /\ session' = [session EXCEPT ![p] = disconnected(@)]
       \/ /\ session[p] # None
          /\ session' = [session EXCEPT ![p] = None]
    /\ ready' = [ready EXCEPT ![p] = IF InState(session'[p], Disconnecting) THEN "pending" ELSE "none"]
    /\ unseen' = unseen \cup {p}
    /\ UNCHANGED <<processing, token, payload, index, registry, etcdVars, indexReady, indexGen, rec>>

Write(p) ==
    \/ \E g \in Gates : SetSession(p, g)
    \/ SetDisconnecting(p)
    \/ EndSession(p)
    \/ LegacyWrite(p)

-----------------------------------------------------------------------------
(* Gates, locators and Redis around the reconciler *)

\* A gate registers before login sends it a player.
GateStart(g) ==
    /\ g \notin up /\ g \notin lapsed /\ g \notin registered
    /\ up' = up \cup {g} /\ registered' = registered \cup {g}
    /\ UNCHANGED <<legacy, lapsed>>

GateCrash(g) ==
    /\ g \in up
    /\ up' = up \ {g}
    /\ UNCHANGED <<registered, legacy, lapsed>>

GateLeaseLost(g) ==
    /\ g \in registered
    /\ registered' = registered \ {g} /\ lapsed' = lapsed \cup {g}
    /\ UNCHANGED <<up, legacy>>

\* A running gate registers again under the same uuid.
GateReregister(g) ==
    /\ g \in up \ registered
    /\ registered' = registered \cup {g}
    /\ UNCHANGED <<up, legacy, lapsed>>

\* A rolling upgrade, or a roll-back.
LegacyToggle == legacy' = ~legacy /\ UNCHANGED <<up, registered, lapsed>>

Surroundings ==
    /\ (\E g \in Gates : GateStart(g) \/ GateCrash(g) \/ GateLeaseLost(g) \/ GateReregister(g))
          \/ LegacyToggle
    /\ UNCHANGED <<storeVars, indexReady, indexGen, rec, unseen>>

\* The marker is a lease.
ReadyExpires ==
    /\ indexReady /\ indexReady' = FALSE
    /\ UNCHANGED <<storeVars, etcdVars, indexGen, rec, unseen>>

\* Redis fails over: a cursor of the old process skips keys on the new one.
RedisFailover ==
    /\ \E skipped \in SUBSET Players :
          rec' = [r \in Reconcilers |->
                     IF IF rec[r] = None THEN TRUE ELSE rec[r].pass \in {"idle", "gen", "check", "mark", "announce"}
                     THEN rec[r]
                     ELSE [rec[r] EXCEPT !.todo = @ \ skipped, !.restarted = TRUE]]
    /\ UNCHANGED <<storeVars, etcdVars, indexReady, indexGen, unseen>>

-----------------------------------------------------------------------------
(* Terms *)

leads(r) == rec[r] # None

BeginTerm(r) ==
    /\ ~leads(r)
    /\ rec' = [rec EXCEPT ![r] = NewTerm]
    /\ UNCHANGED <<storeVars, etcdVars, indexReady, indexGen, unseen>>

\* The lock is lost, the process dies, or the leader yields after failed rounds.
EndTerm(r) ==
    /\ leads(r)
    /\ rec' = [rec EXCEPT ![r] = None]
    /\ UNCHANGED <<storeVars, etcdVars, indexReady, indexGen, unseen>>

\* Mutant: the marker is deleted, the generation stays.
markLegacyWriters_keepsGen ==
    indexReady' = FALSE /\ unseen' = {} /\ UNCHANGED indexGen

markLegacyWriters ==
    /\ indexGen < MaxIndexGen
    /\ indexGen' = indexGen + 1 /\ indexReady' = FALSE /\ unseen' = {}

-----------------------------------------------------------------------------
(* The index loop: one round *)

\* checkSessionWriters reads etcd; zero legacy writers only renew the marker.
\* A failed read skips the check, not the round.
CheckWriters(r, ok) ==
    /\ leads(r) /\ rec[r].round = "check"
    /\ rec' = [rec EXCEPT ![r].round = IF ok /\ legacy THEN "mark" ELSE "registry"]
    /\ UNCHANGED <<storeVars, etcdVars, indexReady, indexGen, unseen>>

MarkLegacy(r, ok) ==
    /\ leads(r) /\ rec[r].round = "mark"
    /\ IF ok THEN markLegacyWriters ELSE UNCHANGED <<indexReady, indexGen, unseen>>
    /\ rec' = [rec EXCEPT ![r].round = "registry"]
    /\ UNCHANGED <<storeVars, etcdVars>>

ReadRegistry(r) ==
    /\ leads(r) /\ rec[r].round = "registry"
    /\ rec' = [rec EXCEPT ![r].round = "live", ![r].gates = registry]
    /\ UNCHANGED <<storeVars, etcdVars, indexReady, indexGen, unseen>>

\* Mutant: the table is rebuilt without the counts of the last round.
advanceSuspects_startsOver(suspects, gates, live) ==
    [g \in Gates |-> IF g \in gates \ live THEN 1 ELSE 0]

\* A gate of the registry absent from etcd twice in a row is dead; one that is
\* back, or left the registry, starts over.
advanceSuspects(suspects, gates, live) ==
    [g \in Gates |-> IF g \notin gates \ live THEN 0
                     ELSE IF suspects[g] < 2 THEN suspects[g] + 1 ELSE 2]

ReadLive(r) ==
    LET suspects == advanceSuspects(rec[r].suspects, rec[r].gates, registered) IN
    /\ leads(r) /\ rec[r].round = "live"
    /\ rec' = [rec EXCEPT ![r].round = "sweep", ![r].suspects = suspects,
                          ![r].gates = {g \in Gates : suspects[g] = 2}]
    /\ UNCHANGED <<storeVars, etcdVars, indexReady, indexGen, unseen>>

\* Redis or etcd fails, or the budget of members is spent.
EndRound(r) ==
    /\ leads(r) /\ rec[r].round \notin {"check", "mark"}
    /\ rec' = [rec EXCEPT ![r].round = "check", ![r].gates = {}, ![r].member = None]
    /\ UNCHANGED <<storeVars, etcdVars, indexReady, indexGen, unseen>>

\* SSCAN and MGET: the sessions behind a page are read before any is acted on.
SweepRead(r, g, p) ==
    /\ leads(r) /\ rec[r].round = "sweep"
    /\ g \in rec[r].gates /\ p \in index[g]
    /\ rec' = [rec EXCEPT ![r].round = "act",
                          ![r].member = [gate |-> g, player |-> p, raw |-> session[p]]]
    /\ UNCHANGED <<storeVars, etcdVars, indexReady, indexGen, unseen>>

\* Mutant: an ONLINE member counts wherever its gate is.
classifyIndexedMember_anyGate(raw, gate) ==
    IF raw = None THEN "missing"
    ELSE IF raw.state = Online THEN "onlineHere" ELSE "stale"

classifyIndexedMember(raw, gate) ==
    IF raw = None THEN "missing"
    ELSE IF indexedGate(raw) = gate THEN "onlineHere" ELSE "stale"

\* SREM if the session is still what the judgement was made from.
pruneGateIndexMember(m) ==
    /\ index' = IF session[m.player] = m.raw
                THEN [index EXCEPT ![m.gate] = @ \ {m.player}] ELSE index
    /\ UNCHANGED <<session, ready, processing, token, payload, registry>>

SweepAct(r) ==
    LET m == rec[r].member IN
    /\ leads(r) /\ rec[r].round = "act"
    /\ IF classifyIndexedMember(m.raw, m.gate) = "onlineHere"
       THEN /\ session[m.player] = m.raw => m.raw.ver < MaxVersion
            /\ transitionToDisconnecting(m.player, m.raw, disconnected(m.raw))
       ELSE pruneGateIndexMember(m)
    /\ rec' = [rec EXCEPT ![r].round = "sweep", ![r].member = None]
    /\ UNCHANGED <<etcdVars, indexReady, indexGen, unseen>>

\* Mutant: the gate is released after its sweep, empty or not.
Release_unchecked(r, g) ==
    /\ leads(r) /\ rec[r].round = "sweep" /\ g \in rec[r].gates
    /\ registry' = registry \ {g}
    /\ rec' = [rec EXCEPT ![r].gates = @ \ {g}, ![r].suspects[g] = 0]
    /\ UNCHANGED <<session, ready, processing, token, payload, index,
                   etcdVars, indexReady, indexGen, unseen>>

\* releaseGateIndexIfEmpty
Release(r, g) ==
    /\ leads(r) /\ rec[r].round = "sweep"
    /\ g \in rec[r].gates /\ index[g] = {}
    /\ registry' = registry \ {g}
    /\ rec' = [rec EXCEPT ![r].gates = @ \ {g}, ![r].suspects[g] = 0]
    /\ UNCHANGED <<session, ready, processing, token, payload, index,
                   etcdVars, indexReady, indexGen, unseen>>

IndexLoop(r) ==
    \/ \E ok \in BOOLEAN : CheckWriters(r, ok) \/ MarkLegacy(r, ok)
    \/ ReadRegistry(r)
    \/ ReadLive(r)
    \/ \E g \in Gates, p \in Players : SweepRead(r, g, p)
    \/ SweepAct(r)
    \/ \E g \in Gates : Release(r, g)
    \/ EndRound(r)

-----------------------------------------------------------------------------
(* The repair loop: one full pass *)

existing == {p \in Players : session[p] # None}

\* SCAN returns every key that exists from its start to its end.
startScan(term) == [term EXCEPT !.pass = "scan", !.todo = existing, !.restarted = FALSE]

\* repairStep: audit if the marker stands, else backfill.
BeginPass(r) ==
    /\ leads(r) /\ rec[r].pass = "idle"
    /\ rec' = [rec EXCEPT ![r] =
          IF indexReady
          THEN [startScan(@) EXCEPT !.audit = TRUE]
          ELSE [@ EXCEPT !.pass = "gen", !.audit = FALSE]]
    /\ UNCHANGED <<storeVars, etcdVars, indexReady, indexGen, unseen>>

ReadGen(r) ==
    /\ leads(r) /\ rec[r].pass = "gen"
    /\ rec' = [rec EXCEPT ![r].pass = "check", ![r].gen = indexGen]
    /\ UNCHANGED <<storeVars, etcdVars, indexReady, indexGen, unseen>>

\* A backfill checks the writers after it read the generation; a failed read
\* or mark ends it (AbandonPass).
CheckBeforePass(r) ==
    /\ leads(r) /\ rec[r].pass = "check"
    /\ rec' = [rec EXCEPT ![r] = IF legacy THEN [@ EXCEPT !.pass = "mark"] ELSE startScan(@)]
    /\ UNCHANGED <<storeVars, etcdVars, indexReady, indexGen, unseen>>

MarkBeforePass(r) ==
    /\ leads(r) /\ rec[r].pass = "mark"
    /\ markLegacyWriters
    /\ rec' = [rec EXCEPT ![r] = startScan(@)]
    /\ UNCHANGED <<storeVars, etcdVars>>

AbandonPass(r) ==
    /\ leads(r) /\ rec[r].pass # "idle"
    /\ rec' = [rec EXCEPT ![r].pass = "idle", ![r].todo = {}, ![r].cand = None]
    /\ UNCHANGED <<storeVars, etcdVars, indexReady, indexGen, unseen>>

\* backfillPage, one key: MGET ...
ScanRead(r, p) ==
    LET g == indexedGate(session[p]) IN
    /\ leads(r) /\ rec[r].pass = "scan" /\ p \in rec[r].todo
    /\ rec' = [rec EXCEPT ![r] =
          IF g = NoGate THEN [@ EXCEPT !.todo = rec[r].todo \ {p}]
          ELSE [@ EXCEPT !.todo = rec[r].todo \ {p}, !.pass = "member",
                         !.cand = [gate |-> g, player |-> p, raw |-> session[p]]]]
    /\ UNCHANGED <<storeVars, etcdVars, indexReady, indexGen, unseen>>

\* ... then SISMEMBER ...
ScanMember(r) ==
    LET c == rec[r].cand IN
    /\ leads(r) /\ rec[r].pass = "member"
    /\ rec' = [rec EXCEPT ![r].pass = IF c.player \in index[c.gate] THEN "ensure" ELSE "repair"]
    /\ UNCHANGED <<storeVars, etcdVars, indexReady, indexGen, unseen>>

\* ... then either make sure the gate is registered (unguarded) ...
EnsureRegistered(r) ==
    /\ leads(r) /\ rec[r].pass = "ensure"
    /\ registry' = registry \cup {rec[r].cand.gate}
    /\ rec' = [rec EXCEPT ![r].pass = "scan", ![r].cand = None]
    /\ UNCHANGED <<session, ready, processing, token, payload, index,
                   etcdVars, indexReady, indexGen, unseen>>

\* ... or add the member, if the session is still the one that was read.
repairGateIndexMember(c) ==
    IF session[c.player] = c.raw
    THEN /\ index' = [index EXCEPT ![c.gate] = @ \cup {c.player}]
         /\ registry' = registry \cup {c.gate}
         /\ UNCHANGED <<session, ready, processing, token, payload>>
    ELSE UNCHANGED storeVars

RepairMember(r) ==
    LET c == rec[r].cand IN
    /\ leads(r) /\ rec[r].pass = "repair"
    /\ repairGateIndexMember(c)
    /\ unseen' = IF session[c.player] = c.raw THEN unseen \ {c.player} ELSE unseen
    /\ rec' = [rec EXCEPT ![r].pass = "scan", ![r].cand = None]
    /\ UNCHANGED <<etcdVars, indexReady, indexGen>>

\* pruneAllGateIndexes: the members of registered gates, live or dead; an
\* ONLINE member stays.
BeginPrune(r) ==
    /\ leads(r) /\ rec[r].pass = "scan" /\ rec[r].todo = {}
    /\ rec' = [rec EXCEPT ![r].pass = "prune"]
    /\ UNCHANGED <<storeVars, etcdVars, indexReady, indexGen, unseen>>

PruneRead(r, g, p) ==
    /\ leads(r) /\ rec[r].pass = "prune"
    /\ g \in registry /\ p \in index[g]
    /\ classifyIndexedMember(session[p], g) # "onlineHere"
    /\ rec' = [rec EXCEPT ![r].pass = "pruneAct",
                          ![r].cand = [gate |-> g, player |-> p, raw |-> session[p]]]
    /\ UNCHANGED <<storeVars, etcdVars, indexReady, indexGen, unseen>>

PruneAct(r) ==
    /\ leads(r) /\ rec[r].pass = "pruneAct"
    /\ pruneGateIndexMember(rec[r].cand)
    /\ rec' = [rec EXCEPT ![r].pass = "prune", ![r].cand = None]
    /\ UNCHANGED <<etcdVars, indexReady, indexGen, unseen>>

\* A pass that outlived its Redis process proves nothing; an audit announces
\* nothing.
FinishPass(r) ==
    /\ leads(r) /\ rec[r].pass = "prune"
    /\ rec' = [rec EXCEPT ![r].pass =
                  IF rec[r].audit \/ rec[r].restarted THEN "idle" ELSE "announce"]
    /\ UNCHANGED <<storeVars, etcdVars, indexReady, indexGen, unseen>>

\* setGateIndexReadyIfGen: only if no check has marked legacy writers since the
\* backfill read the generation.
Announce(r) ==
    /\ leads(r) /\ rec[r].pass = "announce"
    /\ indexReady' = (indexReady \/ rec[r].gen = indexGen)
    /\ rec' = [rec EXCEPT ![r].pass = "idle"]
    /\ UNCHANGED <<storeVars, etcdVars, indexGen, unseen>>

RepairLoop(r) ==
    \/ BeginPass(r)
    \/ ReadGen(r)
    \/ CheckBeforePass(r)
    \/ MarkBeforePass(r)
    \/ \E p \in Players : ScanRead(r, p)
    \/ ScanMember(r)
    \/ EnsureRegistered(r)
    \/ RepairMember(r)
    \/ BeginPrune(r)
    \/ \E g \in Gates, p \in Players : PruneRead(r, g, p)
    \/ PruneAct(r)
    \/ FinishPass(r)
    \/ Announce(r)
    \/ AbandonPass(r)

-----------------------------------------------------------------------------

Reconcile(r) == BeginTerm(r) \/ EndTerm(r) \/ IndexLoop(r) \/ RepairLoop(r)

Next ==
    \/ \E p \in Players : Write(p)
    \/ Surroundings
    \/ ReadyExpires
    \/ RedisFailover
    \/ \E r \in Reconcilers : Reconcile(r)

Spec == Init /\ [][Next]_vars

-----------------------------------------------------------------------------

\* The store as in LocatorService; every leader term is at one of the steps of
\* its loops and knows only real gates and players (session_reconciler.go:252-268).
TypeOK ==
    /\ StoreTypeOK
    /\ up \subseteq Gates /\ registered \subseteq Gates /\ lapsed \subseteq Gates
    /\ legacy \in BOOLEAN /\ indexReady \in BOOLEAN /\ indexGen \in 0..MaxIndexGen
    /\ rec \in [Reconcilers -> Term \cup {None}]
    /\ unseen \subseteq Players

\* I2: a gate whose index has members is in the registry, although gates are
\* released while players log in and the backfill writes both keys
\* (gate_session_index.go:98-106).
RegistryCoversIndex == \A g \in Gates : index[g] # {} => g \in registry

\* While the ready marker stands, an ONLINE session missing from the index was
\* written by a legacy locator that no writer check has caught since: a pass
\* that overlapped an observed one never announces the index
\* (session_reconciler.go:60-61, 845-848).
ReadyMeansIndexed ==
    indexReady => \A p \in Players, g \in Gates :
        indexedGate(session[p]) = g /\ p \notin index[g] => p \in unseen

SparesRegisteredStep ==
    (\E r \in Reconcilers : rec'[r] # rec[r]) =>
        \A p \in Players : session'[p] # session[p] =>
            /\ InState(session[p], Online)
            /\ session[p].gate \in lapsed
            /\ ready'[p] = "pending"

\* The reconciler ends only ONLINE sessions of gates that have been missing
\* from etcd, and never without a lease, whatever stale members legacy writers
\* left in the index and however late it acts on what it read
\* (session_reconciler.go:33-45, "fail-closed").
SparesRegistered == [][SparesRegisteredStep]_vars
=============================================================================
