--------------------------- MODULE MCReconcilerLive ---------------------------
(***************************************************************************)
(* SessionReconciler in three scopes: both loops of a term on one gate,    *)
(* with faults that happen for a while, then stop; the index loop alone on *)
(* two gates between which players, and stale index members, move; and the *)
(* repair loop alone, with failovers of Redis under its scans.             *)
(***************************************************************************)
EXTENDS SessionReconciler

VARIABLES
    calm,   \* have the faults stopped for good?
    scope   \* which part of the instance a behaviour explores

liveVars == <<vars, calm, scope>>

Scopes == {"both loops", "two gates", "failover"}

\* The gate whose registration may lapse.
FirstGate == CHOOSE g \in Gates : TRUE

GatesInScope == IF scope = "two gates" THEN Gates ELSE {FirstGate}

Steady == UNCHANGED <<calm, scope>>

\* A round ends by itself when no dead gate is left.
RoundDone(r) == leads(r) /\ rec[r].round = "sweep" /\ rec[r].gates = {} /\ EndRound(r)

IndexProgress(r) ==
    \/ scope # "failover" /\ CheckWriters(r, TRUE)
    \/ MarkLegacy(r, TRUE)
    \/ ReadRegistry(r)
    \/ ReadLive(r)
    \/ \E g \in Gates, p \in Players : SweepRead(r, g, p)
    \/ SweepAct(r)
    \/ \E g \in Gates : Release(r, g)
    \/ RoundDone(r)

RepairProgress(r) ==
    \/ scope # "two gates" /\ BeginPass(r)
    \/ ReadGen(r)
    \/ CheckBeforePass(r)
    \/ MarkBeforePass(r)
    \/ \E p \in Players : ScanRead(r, p)
    \/ ScanMember(r)
    \/ EnsureRegistered(r)
    \/ RepairMember(r)
    \/ BeginPrune(r)
    \/ \E g \in Gates, p \in Players : PruneRead(r, g, p)
    \/ PruneAct(r)
    \/ FinishPass(r)
    \/ Announce(r)

Fault ==
    \/ \E r \in Reconcilers : EndTerm(r) \/ EndRound(r) \/ AbandonPass(r) \/ MarkLegacy(r, FALSE)
    \/ scope # "failover" /\ \E r \in Reconcilers : CheckWriters(r, FALSE)
    \/ scope = "failover" /\ RedisFailover
    \/ LegacyToggle /\ UNCHANGED <<storeVars, indexReady, indexGen, rec, unseen>>

\* Pending marks are over too: at MaxIndexGen one could not be made.
FaultsEnd ==
    /\ scope = "both loops" /\ ~calm /\ ~legacy
    /\ \A r \in Reconcilers : leads(r) => "mark" \notin {rec[r].round, rec[r].pass}
    /\ calm' = TRUE /\ UNCHANGED <<vars, scope>>

\* etcd drops the registration of a gate that stopped renewing it.
DownGateLapses ==
    /\ FirstGate \notin up /\ GateLeaseLost(FirstGate)
    /\ UNCHANGED <<storeVars, indexReady, indexGen, rec, unseen>>

Gating ==
    /\ \/ \E g \in GatesInScope : GateStart(g) \/ GateCrash(g)
       \/ GateLeaseLost(FirstGate) \/ GateReregister(FirstGate)
    /\ UNCHANGED <<storeVars, indexReady, indexGen, rec, unseen>>

LiveNext ==
    \/ ~calm /\ Fault /\ Steady
    \/ FaultsEnd
    \/ /\ \/ \E p \in Players : Write(p)
          \/ Gating
          \/ ReadyExpires
          \/ \E r \in Reconcilers : BeginTerm(r) \/ IndexProgress(r) \/ RepairProgress(r)
       /\ Steady

LiveInit == Init /\ calm = FALSE /\ scope \in Scopes

LiveSpec ==
    /\ LiveInit
    /\ [][LiveNext]_liveVars
    /\ WF_liveVars(DownGateLapses /\ Steady)
    /\ \A r \in Reconcilers :
          /\ WF_liveVars(BeginTerm(r) /\ Steady)
          /\ WF_liveVars(IndexProgress(r) /\ Steady)
          /\ WF_liveVars(RepairProgress(r) /\ Steady)

Orphan(p) ==
    /\ indexedGate(session[p]) = FirstGate
    /\ session[p].ver < MaxVersion
    /\ FirstGate \notin up

\* Once the faults are over and legacy locators are gone, no session stays
\* ONLINE on a gate that has crashed, not even one that a legacy locator wrote
\* and the index never had (session_reconciler.go:33-58).
OrphansAreTaken ==
    \A p \in Players : (calm /\ Orphan(p)) ~> ~Orphan(p)
=============================================================================
