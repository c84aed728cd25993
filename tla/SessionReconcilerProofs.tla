------------------------ MODULE SessionReconcilerProofs ------------------------
(***************************************************************************)
(* TLAPS proofs about SessionReconciler: for any number of players, gates  *)
(* and overlapping leader terms.                                           *)
(***************************************************************************)
EXTENDS SessionReconciler, TLAPS

-----------------------------------------------------------------------------
(* The inductive invariant *)

\* Gates that have been in etcd.
Known == registered \cup lapsed

\* Only gates that registered run, hold sessions or reach the gate registry.
GatesKnown ==
    /\ up \subseteq Known /\ registry \subseteq Known
    /\ \A p \in Players : indexedGate(session[p]) \in Known \cup {NoGate}

\* An ONLINE session that the index of its gate does not have.
Missing(p) == \E g \in Gates : indexedGate(session[p]) = g /\ p \notin index[g]

\* The index loop of a term suspects only gates that were gone from etcd.
RoundOK(r) ==
    /\ rec[r].gates \subseteq Known
    /\ \A g \in Gates : rec[r].suspects[g] > 0 => g \in lapsed
    /\ rec[r].round \in {"sweep", "act"} => rec[r].gates \subseteq lapsed
    /\ rec[r].round = "act" => rec[r].member \in Member /\ rec[r].member.gate \in lapsed

\* The candidate of the repair loop is what its last read said of it.
CandidateOK(r) ==
    /\ rec[r].pass \in {"member", "ensure", "repair"} =>
          /\ rec[r].cand \in Member
          /\ indexedGate(rec[r].cand.raw) = rec[r].cand.gate
          /\ rec[r].cand.gate \in Known
    /\ rec[r].pass = "pruneAct" =>
          /\ rec[r].cand \in Member
          /\ classifyIndexedMember(rec[r].cand.raw, rec[r].cand.gate) # "onlineHere"

Scanning == {"scan", "member", "ensure", "repair", "prune", "pruneAct", "announce"}

\* A backfill that may still announce the index.
Counts(r) ==
    /\ rec[r].pass \in Scanning
    /\ ~rec[r].audit /\ ~rec[r].restarted /\ rec[r].gen = indexGen

\* A session that such a backfill leaves out of the index is one it has yet to
\* scan or to repair, or one that a legacy locator wrote behind its back.
PassOK(r) ==
    /\ rec[r].gen <= indexGen
    /\ rec[r].pass \in {"prune", "pruneAct", "announce"} => rec[r].todo = {}
    /\ rec[r].pass = "announce" => ~rec[r].audit /\ ~rec[r].restarted
    /\ Counts(r) => \A p \in Players : Missing(p) =>
          \/ p \in unseen \cup rec[r].todo
          \/ /\ rec[r].pass \in {"member", "repair"}
             /\ rec[r].cand.player = p /\ rec[r].cand.raw = session[p]

TermOK(r) == leads(r) => RoundOK(r) /\ CandidateOK(r) /\ PassOK(r)

IInv ==
    /\ TypeOK /\ GatesKnown /\ RegistryCoversIndex /\ ReadyMeansIndexed
    /\ \A r \in Reconcilers : TermOK(r)

-----------------------------------------------------------------------------
(* What a step may do to the invariant of a term it does not move *)

\* No session leaves the index but by a legacy write, which unseen records.
Accounted ==
    \A p \in Players : Missing(p)' =>
        \/ p \in unseen'
        \/ p \notin unseen /\ Missing(p) /\ session'[p] = session[p]

\* Either no session is lost from the index, or a new generation begins.
IndexStep ==
    \/ indexGen' = indexGen /\ Accounted
    \/ indexGen' = indexGen + 1 /\ ~indexReady'

\* Gates that were known, or gone, remain so.
EtcdStep == Known \subseteq Known' /\ lapsed \subseteq lapsed'

\* A step that does not move the index loop of a term keeps what that loop
\* relies on, whatever the gates do in it.
LEMMA RoundFrame ==
    ASSUME NEW r \in Reconcilers, RoundOK(r), EtcdStep,
           rec'[r].suspects = rec[r].suspects, rec'[r].round = rec[r].round,
           rec'[r].gates = rec[r].gates, rec'[r].member = rec[r].member
    PROVE  RoundOK(r)'
BY Zenon DEF RoundOK, EtcdStep

\* A step that does not move the repair loop of a term keeps what that loop
\* relies on, whatever the writers and the other terms do in it.
LEMMA PassFrame ==
    ASSUME NEW r \in Reconcilers, CandidateOK(r), PassOK(r), EtcdStep, IndexStep,
           rec[r].gen \in Int, indexGen \in Int,
           rec'[r].pass = rec[r].pass, rec'[r].audit = rec[r].audit,
           rec'[r].gen = rec[r].gen, rec'[r].restarted = rec[r].restarted,
           rec'[r].todo = rec[r].todo, rec'[r].cand = rec[r].cand
    PROVE  CandidateOK(r)' /\ PassOK(r)'
<1>1. CandidateOK(r)'
  BY Zenon DEF CandidateOK, EtcdStep, classifyIndexedMember, indexedGate, InState
<1>2. CASE indexGen' = indexGen /\ Accounted
  <2>1. Counts(r)' => Counts(r)
    BY Zenon, <1>2 DEF Counts
  <2>2. ASSUME NEW p \in Players, Missing(p)', Counts(r)'
        PROVE  \/ p \in unseen' \cup rec'[r].todo
               \/ /\ rec'[r].pass \in {"member", "repair"}
                  /\ rec'[r].cand.player = p /\ rec'[r].cand.raw = session'[p]
    BY Zenon, <1>2, <2>1, <2>2 DEF PassOK, Accounted
  <2> QED BY Zenon, <1>1, <1>2, <2>2 DEF PassOK
<1>3. CASE indexGen' = indexGen + 1
  BY <1>1, <1>3 DEF PassOK, Counts
<1> QED BY Zenon, <1>2, <1>3 DEF IndexStep

\* The types of a running term.
LEMMA TermTypes ==
    ASSUME TypeOK, NEW r \in Reconcilers, leads(r)
    PROVE  rec[r] \in Term /\ rec[r].gen \in Int /\ indexGen \in Int
BY ReconcilerAssumption DEF TypeOK, Term, leads

\* A term that a step does not move keeps its invariant.
LEMMA TermFrame ==
    ASSUME TypeOK, NEW r \in Reconcilers, TermOK(r), rec'[r] = rec[r],
           EtcdStep, IndexStep
    PROVE  TermOK(r)'
<1> SUFFICES ASSUME leads(r)'
             PROVE  RoundOK(r)' /\ CandidateOK(r)' /\ PassOK(r)'
  BY Zenon DEF TermOK
<1>1. leads(r) /\ RoundOK(r) /\ CandidateOK(r) /\ PassOK(r)
  BY Zenon DEF TermOK, leads
<1>2. rec[r].gen \in Int /\ indexGen \in Int
  BY Zenon, <1>1, TermTypes
<1>3. RoundOK(r)'
  BY Zenon, <1>1, RoundFrame
<1> QED BY Zenon, <1>1, <1>2, <1>3, PassFrame

\* The parts of a step's proof put together: the marker is not set by it, and a
\* term it moves keeps its invariant.
LEMMA Combine ==
    ASSUME IInv, TypeOK', RegistryCoversIndex', GatesKnown', EtcdStep, IndexStep,
           indexReady' => indexReady,
           \A r \in Reconcilers : rec'[r] = rec[r] \/ TermOK(r)'
    PROVE  IInv'
<1>1. ASSUME NEW r \in Reconcilers
      PROVE  TermOK(r)'
  BY Zenon, <1>1, TermFrame DEF IInv
<1>2. ReadyMeansIndexed'
  <2>1. ASSUME indexReady', NEW p \in Players, Missing(p)'
        PROVE  p \in unseen'
    <3>1. Accounted /\ indexReady
      BY Zenon, <2>1 DEF IndexStep
    <3>2. Missing(p) => p \in unseen
      BY Zenon, <3>1 DEF IInv, ReadyMeansIndexed, Missing
    <3> QED BY Zenon, <2>1, <3>1, <3>2 DEF Accounted
  <2> QED BY Zenon, <2>1 DEF ReadyMeansIndexed, Missing
<1> QED BY Zenon, <1>1, <1>2 DEF IInv

-----------------------------------------------------------------------------
(* The scripts *)

\* What a script that maintains the index leaves: a typed store, a registry that
\* covers the index, and no session newly missing from it.
StoreKept ==
    /\ StoreTypeOK' /\ RegistryCoversIndex'
    /\ \A p \in Players : Missing(p)' => Missing(p) /\ session'[p] = session[p]

\* A step that leaves the store alone keeps all of that.
LEMMA StoreSame ==
    ASSUME StoreTypeOK, RegistryCoversIndex, UNCHANGED storeVars
    PROVE  StoreKept
BY Zenon DEF StoreKept, storeVars, StoreTypeOK, RegistryCoversIndex, Missing, indexedGate, InState

\* Any script that replaces a record and moves its player from the index of the
\* old record to that of the new one (and adds the gate to the registry).
LEMMA MoveIndexKeeps ==
    ASSUME StoreTypeOK, RegistryCoversIndex, NEW p \in Players,
           NEW next \in PlayerSession \cup {None}, NEW new, new = indexedGate(next),
           NEW when \in {"none", "pending"},
           session' = [session EXCEPT ![p] = next],
           ready' = [ready EXCEPT ![p] = when],
           dropClaim(p), moveIndex(p, indexedGate(session[p]), new)
    PROVE  StoreKept
<1>1. session' \in [Players -> PlayerSession \cup {None}] /\ ready' \in [Players -> Deadline]
  BY Zenon DEF StoreTypeOK, Deadline
<1>2. /\ processing' \in [Players -> Deadline]
      /\ token' \in [Players -> Tokens \cup {NoToken}]
      /\ payload' \in [Players -> PlayerSession \cup {None}]
  BY Zenon DEF StoreTypeOK, Deadline, dropClaim
<1>3. index' \in [Gates -> SUBSET Players] /\ registry' \subseteq Gates
  BY Zenon DEF StoreTypeOK, moveIndex
<1>4. RegistryCoversIndex'
  BY Zenon DEF StoreTypeOK, moveIndex, RegistryCoversIndex
<1>5. ASSUME NEW q \in Players, Missing(q)'
      PROVE  Missing(q) /\ session'[q] = session[q]
  <2>1. PICK g \in Gates : indexedGate(session'[q]) = g /\ q \notin index'[g]
    BY Zenon, <1>5 DEF Missing, indexedGate, InState
  <2>2. q # p
    BY Zenon, <2>1 DEF StoreTypeOK, moveIndex
  <2>3. session'[q] = session[q]
    BY Zenon, <2>2 DEF StoreTypeOK
  <2>4. q \notin index[g]
    BY Zenon, <2>1, <2>2 DEF StoreTypeOK, moveIndex
  <2> QED BY Zenon, <2>1, <2>3, <2>4 DEF Missing
<1> QED BY Zenon, <1>1, <1>2, <1>3, <1>4, <1>5 DEF StoreKept, StoreTypeOK

\* replaceSessionAndCancelLease maintains the index, applied or not.
LEMMA ReplaceKeeps ==
    ASSUME StoreTypeOK, RegistryCoversIndex, NEW p \in Players, NEW next \in PlayerSession,
           replaceSessionAndCancelLease(p, session[p], next)
    PROVE  /\ StoreKept
           /\ session' \in {session, [session EXCEPT ![p] = next]}
           /\ registry' \subseteq registry \cup ({indexedGate(next)} \cap Gates)
<1>1. CASE replaceSessionResult(p, session[p]) # "applied"
  BY Zenon, <1>1, StoreSame DEF replaceSessionAndCancelLease, storeVars
<1>2. CASE replaceSessionResult(p, session[p]) = "applied"
  <2>1. /\ session' = [session EXCEPT ![p] = next]
        /\ ready' = [ready EXCEPT ![p] = "none"]
        /\ dropClaim(p)
        /\ moveIndex(p, indexedGate(session[p]), indexedGate(next))
    BY Zenon, <1>2 DEF replaceSessionAndCancelLease
  <2>2. StoreKept
    BY Zenon, <2>1, MoveIndexKeeps
  <2> QED BY Zenon, <2>1, <2>2 DEF moveIndex
<1> QED BY Zenon, <1>1, <1>2

\* transitionToDisconnecting maintains the index; a session it changes is the
\* expected one, and its lease is queued.
LEMMA DisconnectKeeps ==
    ASSUME StoreTypeOK, RegistryCoversIndex, NEW p \in Players,
           NEW expected \in PlayerSession, NEW next \in PlayerSession,
           next.state = Disconnecting,
           transitionToDisconnecting(p, expected, next)
    PROVE  /\ StoreKept
           /\ \/ UNCHANGED storeVars
              \/ /\ session[p] = expected /\ session' = [session EXCEPT ![p] = next]
                 /\ ready'[p] = "pending"
           /\ registry' \subseteq registry
<1>1. CASE session[p] # expected
  BY Zenon, <1>1, StoreSame DEF transitionToDisconnecting, storeVars
<1>2. CASE session[p] = expected
  <2>1. /\ session' = [session EXCEPT ![p] = next]
        /\ ready' = [ready EXCEPT ![p] = "pending"]
        /\ dropClaim(p)
        /\ moveIndex(p, indexedGate(session[p]), NoGate)
    BY Zenon, <1>2 DEF transitionToDisconnecting
  <2>2. NoGate = indexedGate(next)
    BY Zenon DEF indexedGate, InState, Online, Disconnecting
  <2>3. StoreKept
    BY Zenon, <2>1, <2>2, MoveIndexKeeps
  <2>4. ready'[p] = "pending" /\ registry' \subseteq registry
    BY Zenon, <2>1, StoreAssumption DEF moveIndex, StoreTypeOK
  <2> QED BY Zenon, <1>2, <2>1, <2>3, <2>4
<1> QED BY Zenon, <1>1, <1>2

\* deleteSessionIfUnchanged maintains the index.
LEMMA DeleteKeeps ==
    ASSUME StoreTypeOK, RegistryCoversIndex, NEW p \in Players,
           deleteSessionIfUnchanged(p, session[p])
    PROVE  /\ StoreKept
           /\ session' = [session EXCEPT ![p] = None]
           /\ registry' \subseteq registry
<1>1. /\ session' = [session EXCEPT ![p] = None]
      /\ ready' = [ready EXCEPT ![p] = "none"]
      /\ dropClaim(p)
      /\ moveIndex(p, indexedGate(session[p]), NoGate)
  BY Zenon DEF deleteSessionIfUnchanged
<1>2. NoGate = indexedGate(None)
  BY Zenon DEF indexedGate, InState
<1>3. StoreKept
  BY Zenon, <1>1, <1>2, MoveIndexKeeps
<1> QED BY Zenon, <1>1, <1>3, StoreAssumption DEF moveIndex, StoreTypeOK

\* pruneGateIndexMember takes out of an index only a player whose session is not
\* ONLINE there, however old the judgement is.
LEMMA PruneKeeps ==
    ASSUME StoreTypeOK, RegistryCoversIndex, NEW m \in Member,
           classifyIndexedMember(m.raw, m.gate) # "onlineHere",
           pruneGateIndexMember(m)
    PROVE  StoreKept /\ registry' = registry /\ session' = session
<1>0. m.player \in Players /\ m.gate \in Gates
  BY Zenon DEF Member
<1>1. indexedGate(m.raw) # m.gate
  BY Zenon, <1>0, StoreAssumption DEF classifyIndexedMember, indexedGate, InState
<1>2. index' = index \/ (session[m.player] = m.raw /\ index' = [index EXCEPT ![m.gate] = @ \ {m.player}])
  BY Zenon DEF pruneGateIndexMember
<1>3. UNCHANGED <<session, ready, processing, token, payload, registry>>
  BY Zenon DEF pruneGateIndexMember
<1>4. StoreTypeOK' /\ RegistryCoversIndex'
  BY Zenon, <1>0, <1>2, <1>3 DEF StoreTypeOK, RegistryCoversIndex
<1>5. ASSUME NEW q \in Players, Missing(q)'
      PROVE  Missing(q)
  <2>1. PICK g \in Gates : indexedGate(session[q]) = g /\ q \notin index'[g]
    BY Zenon, <1>3, <1>5 DEF Missing, indexedGate, InState
  <2> QED BY <1>0, <1>1, <1>2, <2>1 DEF Missing, StoreTypeOK
<1> QED BY Zenon, <1>3, <1>4, <1>5 DEF StoreKept

\* repairGateIndexMember adds to both keys; if the session is still the one that
\* was read, it is not missing afterwards.
LEMMA RepairKeeps ==
    ASSUME StoreTypeOK, RegistryCoversIndex, NEW c \in Member,
           indexedGate(c.raw) = c.gate, repairGateIndexMember(c)
    PROVE  /\ StoreKept /\ session' = session
           /\ registry' \subseteq registry \cup {c.gate}
           /\ \A q \in Players : q = c.player /\ session[q] = c.raw => ~Missing(q)'
<1>0. c.player \in Players /\ c.gate \in Gates
  BY Zenon DEF Member
<1>1. CASE session[c.player] # c.raw
  BY Zenon, <1>1, StoreSame DEF repairGateIndexMember, storeVars
<1>2. CASE session[c.player] = c.raw
  <2>1. /\ index' = [index EXCEPT ![c.gate] = @ \cup {c.player}]
        /\ registry' = registry \cup {c.gate}
        /\ UNCHANGED <<session, ready, processing, token, payload>>
    BY Zenon, <1>2 DEF repairGateIndexMember
  <2>2. StoreTypeOK' /\ RegistryCoversIndex'
    BY Zenon, <1>0, <2>1 DEF StoreTypeOK, RegistryCoversIndex
  <2>3. ASSUME NEW q \in Players, Missing(q)'
        PROVE  Missing(q)
    BY Zenon, <1>0, <2>1, <2>3 DEF Missing, StoreTypeOK, indexedGate, InState
  <2>4. ~Missing(c.player)'
    BY Zenon, <1>0, <1>2, <2>1 DEF Missing, StoreTypeOK, indexedGate, InState
  <2> QED BY Zenon, <2>1, <2>2, <2>3, <2>4 DEF StoreKept
<1> QED BY Zenon, <1>1, <1>2

-----------------------------------------------------------------------------
(* The writers *)

\* The record a gate's login writes is a session of that gate.
LEMMA OnlineAtType ==
    ASSUME TypeOK, NEW p \in Players, NEW g \in Gates, mayWrite(p)
    PROVE  /\ onlineAt(p, g) \in PlayerSession
           /\ indexedGate(onlineAt(p, g)) = g
<1> DEFINE ver == IF session[p] = None THEN 1 ELSE session[p].ver + 1
<1>1. ver \in 1..MaxVersion
  BY StoreAssumption DEF TypeOK, StoreTypeOK, PlayerSession, mayWrite
<1>2. (CHOOSE sid \in SessionIds : TRUE) \in SessionIds /\ (CHOOSE a \in Accounts : TRUE) \in Accounts
  BY Zenon, ReconcilerAssumption
<1>3. /\ onlineAt(p, g) \in PlayerSession
      /\ onlineAt(p, g).state = Online /\ onlineAt(p, g).gate = g
  BY <1>1, <1>2, StoreAssumption DEF onlineAt, PlayerSession
<1> QED BY Zenon, <1>3, NoneAssumption DEF indexedGate, InState

\* The DISCONNECTING record keeps everything but state and version.
LEMMA DisconnectedType ==
    ASSUME NEW s \in PlayerSession, s.ver < MaxVersion
    PROVE  disconnected(s) \in PlayerSession /\ disconnected(s).state = Disconnecting
<1>1. s.ver + 1 \in 1..MaxVersion
  BY StoreAssumption DEF PlayerSession
<1> QED BY Zenon, <1>1 DEF disconnected, PlayerSession

\* A step of a locator that maintains the index.
LEMMA WriterStep ==
    ASSUME IInv, NEW p \in Players, StoreKept, ~Missing(p)', GatesKnown',
           unseen' = unseen \ {p}, UNCHANGED <<etcdVars, indexReady, indexGen, rec>>
    PROVE  IInv'
<1>1. TypeOK'
  BY Zenon DEF IInv, TypeOK, StoreKept, etcdVars
<1>2. EtcdStep
  BY Zenon DEF EtcdStep, Known, etcdVars
<1>3. IndexStep
  BY Zenon DEF IndexStep, Accounted, StoreKept
<1> QED BY Zenon, <1>1, <1>2, <1>3, Combine DEF StoreKept

\* SetSession writes the record and both index keys in one script.
LEMMA SetSessionKeeps ==
    ASSUME IInv, NEW p \in Players, NEW g \in Gates, SetSession(p, g)
    PROVE  IInv'
<1>0. TypeOK /\ StoreTypeOK /\ RegistryCoversIndex /\ GatesKnown
  BY Zenon DEF IInv, TypeOK
<1>1. onlineAt(p, g) \in PlayerSession /\ indexedGate(onlineAt(p, g)) = g
  BY Zenon, <1>0, OnlineAtType DEF SetSession
<1>2. replaceSessionAndCancelLease(p, session[p], onlineAt(p, g))
  BY Zenon DEF SetSession
<1>3. /\ StoreKept
      /\ session' \in {session, [session EXCEPT ![p] = onlineAt(p, g)]}
      /\ registry' \subseteq registry \cup {g}
  BY Zenon, <1>0, <1>1, <1>2, ReplaceKeeps
<1>4. UNCHANGED <<up, registered, lapsed>> /\ g \in up
  BY Zenon DEF SetSession, etcdVars
<1>5. GatesKnown'
  <2>1. ASSUME NEW q \in Players
        PROVE  indexedGate(session'[q]) \in Known \cup {NoGate}
    BY Zenon, <1>0, <1>1, <1>3, <1>4 DEF GatesKnown, StoreTypeOK
  <2> QED BY Zenon, <1>0, <1>3, <1>4, <2>1 DEF GatesKnown, Known, indexedGate, InState
<1>6. ~Missing(p)'
  <2>1. CASE replaceSessionResult(p, session[p]) = "applied"
    <3>1. session' = [session EXCEPT ![p] = onlineAt(p, g)] /\ p \in index'[g]
      BY Zenon, <1>1, <1>2, <2>1 DEF replaceSessionAndCancelLease, moveIndex
    <3>2. indexedGate(session'[p]) = g
      BY Zenon, <1>0, <1>1, <3>1 DEF StoreTypeOK
    <3> QED BY Zenon, <3>1, <3>2 DEF Missing, indexedGate, InState
  <2>2. CASE replaceSessionResult(p, session[p]) # "applied"
    <3>1. session[p] = None /\ session' = session
      BY Zenon, <1>2, <2>2 DEF replaceSessionAndCancelLease, replaceSessionResult, storeVars
    <3> QED BY Zenon, <3>1, StoreAssumption DEF Missing, indexedGate, InState
  <2> QED BY Zenon, <2>1, <2>2
<1> QED BY Zenon, <1>3, <1>5, <1>6, WriterStep DEF SetSession

\* SetDisconnecting takes the player out of the index with the transition.
LEMMA SetDisconnectingKeeps ==
    ASSUME IInv, NEW p \in Players, SetDisconnecting(p)
    PROVE  IInv'
<1>0. TypeOK /\ StoreTypeOK /\ RegistryCoversIndex /\ GatesKnown
  BY Zenon DEF IInv, TypeOK
<1>1. session[p] \in PlayerSession /\ session[p].ver < MaxVersion
  BY Zenon, <1>0 DEF SetDisconnecting, InState, mayWrite, StoreTypeOK
<1>2. disconnected(session[p]) \in PlayerSession /\ disconnected(session[p]).state = Disconnecting
  BY Zenon, <1>1, DisconnectedType
<1>3. transitionToDisconnecting(p, session[p], disconnected(session[p]))
  BY Zenon DEF SetDisconnecting
<1>4. StoreKept /\ registry' \subseteq registry
  BY Zenon, <1>0, <1>1, <1>2, <1>3, DisconnectKeeps
<1>5. session' = [session EXCEPT ![p] = disconnected(session[p])]
  BY Zenon, <1>3 DEF transitionToDisconnecting
<1>6. indexedGate(session'[p]) = NoGate
  BY Zenon, <1>0, <1>2, <1>5 DEF StoreTypeOK, indexedGate, InState, Online, Disconnecting
<1>7. ~Missing(p)'
  BY Zenon, <1>6, StoreAssumption DEF Missing, indexedGate, InState
<1>8. GatesKnown'
  <2>1. ASSUME NEW q \in Players
        PROVE  indexedGate(session'[q]) \in Known \cup {NoGate}
    BY Zenon, <1>0, <1>5, <1>6 DEF GatesKnown, StoreTypeOK
  <2>2. UNCHANGED <<up, registered, lapsed>>
    BY Zenon DEF SetDisconnecting, etcdVars
  <2> QED BY Zenon, <1>0, <1>4, <2>1, <2>2 DEF GatesKnown, Known, indexedGate, InState
<1> QED BY Zenon, <1>4, <1>7, <1>8, WriterStep DEF SetDisconnecting

\* MarkOffline and an expired lease take the player out of the index with the
\* record.
LEMMA EndSessionKeeps ==
    ASSUME IInv, NEW p \in Players, EndSession(p)
    PROVE  IInv'
<1>0. TypeOK /\ StoreTypeOK /\ RegistryCoversIndex /\ GatesKnown
  BY Zenon DEF IInv, TypeOK
<1>1. StoreKept /\ session' = [session EXCEPT ![p] = None] /\ registry' \subseteq registry
  BY Zenon, <1>0, DeleteKeeps DEF EndSession
<1>2. indexedGate(session'[p]) = NoGate
  BY Zenon, <1>0, <1>1 DEF StoreTypeOK, indexedGate, InState
<1>3. ~Missing(p)'
  BY Zenon, <1>2, StoreAssumption DEF Missing, indexedGate, InState
<1>4. GatesKnown'
  <2>1. ASSUME NEW q \in Players
        PROVE  indexedGate(session'[q]) \in Known \cup {NoGate}
    BY Zenon, <1>0, <1>1, <1>2 DEF GatesKnown, StoreTypeOK
  <2>2. UNCHANGED <<up, registered, lapsed>>
    BY Zenon DEF EndSession, etcdVars
  <2> QED BY Zenon, <1>0, <1>1, <2>1, <2>2 DEF GatesKnown, Known, indexedGate, InState
<1> QED BY Zenon, <1>1, <1>3, <1>4, WriterStep DEF EndSession

\* A legacy write may leave its player out of the index, and unseen has it.
LEMMA LegacyWriteKeeps ==
    ASSUME IInv, NEW p \in Players, LegacyWrite(p)
    PROVE  IInv'
<1>0. TypeOK /\ StoreTypeOK /\ RegistryCoversIndex /\ GatesKnown
  BY Zenon DEF IInv, TypeOK
<1>1. UNCHANGED <<processing, token, payload, index, registry, etcdVars, indexReady, indexGen, rec>>
  BY Zenon DEF LegacyWrite
<1>2. PICK s \in PlayerSession \cup {None} :
         session' = [session EXCEPT ![p] = s] /\ indexedGate(s) \in up \cup {NoGate}
  <2>1. CASE mayWrite(p) /\ \E g \in up : session' = [session EXCEPT ![p] = onlineAt(p, g)]
    <3>1. PICK g \in up : session' = [session EXCEPT ![p] = onlineAt(p, g)]
      BY Zenon, <2>1
    <3>2. g \in Gates
      BY Zenon, <1>0 DEF TypeOK
    <3>3. onlineAt(p, g) \in PlayerSession /\ indexedGate(onlineAt(p, g)) = g
      BY Zenon, <1>0, <2>1, <3>2, OnlineAtType
    <3> QED BY Zenon, <3>1, <3>3
  <2>2. CASE InState(session[p], Online) /\ mayWrite(p)
             /\ session' = [session EXCEPT ![p] = disconnected(@)]
    <3>1. session[p] \in PlayerSession /\ session[p].ver < MaxVersion
      BY Zenon, <1>0, <2>2 DEF InState, mayWrite, StoreTypeOK
    <3>2. disconnected(session[p]) \in PlayerSession
          /\ indexedGate(disconnected(session[p])) = NoGate
      BY Zenon, <3>1, DisconnectedType DEF indexedGate, InState, Online, Disconnecting
    <3> QED BY Zenon, <1>0, <2>2, <3>2 DEF StoreTypeOK
  <2>3. CASE session' = [session EXCEPT ![p] = None]
    BY Zenon, <2>3 DEF indexedGate, InState
  <2> QED BY Zenon, <2>1, <2>2, <2>3 DEF LegacyWrite
<1>3. TypeOK'
  BY Zenon, <1>0, <1>1, <1>2 DEF LegacyWrite, TypeOK, StoreTypeOK, Deadline, etcdVars
<1>4. EtcdStep
  BY Zenon, <1>1 DEF EtcdStep, Known, etcdVars
<1>5. IndexStep
  <2>1. ASSUME NEW q \in Players, Missing(q)', q \notin unseen'
        PROVE  q \notin unseen /\ Missing(q) /\ session'[q] = session[q]
    <3>1. q # p /\ q \notin unseen
      BY Zenon, <2>1 DEF LegacyWrite
    <3>2. session'[q] = session[q]
      BY Zenon, <1>0, <1>2, <3>1 DEF StoreTypeOK
    <3> QED BY Zenon, <1>1, <2>1, <3>1, <3>2 DEF Missing, indexedGate, InState
  <2> QED BY Zenon, <1>1, <2>1 DEF IndexStep, Accounted
<1>6. GatesKnown' /\ RegistryCoversIndex'
  <2>1. ASSUME NEW q \in Players
        PROVE  indexedGate(session'[q]) \in Known \cup {NoGate}
    BY Zenon, <1>0, <1>2 DEF GatesKnown, StoreTypeOK
  <2> QED BY Zenon, <1>0, <1>1, <2>1 DEF GatesKnown, Known, indexedGate, InState, etcdVars, RegistryCoversIndex
<1> QED BY Zenon, <1>1, <1>3, <1>4, <1>5, <1>6, Combine

-----------------------------------------------------------------------------
(* Gates, locators and Redis *)

\* Gates start, crash, lapse and come back, and locators are upgraded: a gate
\* that was known stays so, and one that is gone was known.
LEMMA SurroundingsKeep ==
    ASSUME IInv, Surroundings
    PROVE  IInv'
<1>1. UNCHANGED <<storeVars, indexReady, indexGen, rec, unseen>>
  BY Zenon DEF Surroundings
<1>2. /\ up' \subseteq Gates /\ registered' \subseteq Gates /\ lapsed' \subseteq Gates
      /\ legacy' \in BOOLEAN /\ EtcdStep /\ up' \subseteq Known'
  BY Zenon DEF IInv, TypeOK, GatesKnown, Known, EtcdStep, Surroundings, GateStart, GateCrash,
         GateLeaseLost, GateReregister, LegacyToggle
<1>3. StoreKept
  BY Zenon, <1>1, StoreSame DEF IInv, TypeOK
<1>4. TypeOK'
  BY Zenon, <1>1, <1>2, <1>3 DEF IInv, TypeOK, StoreKept
<1>5. IndexStep
  BY Zenon, <1>1, <1>3 DEF IndexStep, Accounted, StoreKept
<1>6. GatesKnown'
  BY Zenon, <1>1, <1>2 DEF IInv, GatesKnown, EtcdStep, storeVars, indexedGate, InState
<1> QED BY Zenon, <1>1, <1>2, <1>3, <1>4, <1>5, <1>6, Combine DEF StoreKept

\* A step that leaves the store and etcd alone, and unseen too.
LEMMA QuietStep ==
    ASSUME IInv, UNCHANGED <<storeVars, etcdVars, indexGen, unseen>>
    PROVE  /\ StoreKept /\ EtcdStep /\ IndexStep /\ GatesKnown'
           /\ TypeOK' <=> (indexReady' \in BOOLEAN /\ rec' \in [Reconcilers -> Term \cup {None}])
<1>1. StoreKept
  BY Zenon, StoreSame DEF IInv, TypeOK
<1>2. EtcdStep
  BY Zenon DEF EtcdStep, Known, etcdVars
<1>3. IndexStep
  BY Zenon, <1>1 DEF IndexStep, Accounted, StoreKept
<1>4. GatesKnown'
  BY Zenon DEF IInv, GatesKnown, Known, etcdVars, storeVars, indexedGate, InState
<1>5. TypeOK' <=> (indexReady' \in BOOLEAN /\ rec' \in [Reconcilers -> Term \cup {None}])
  BY Zenon, <1>1 DEF IInv, TypeOK, StoreKept, etcdVars
<1> QED BY Zenon, <1>1, <1>2, <1>3, <1>4, <1>5

\* The ready marker expires.
LEMMA ReadyExpiresKeeps ==
    ASSUME IInv, ReadyExpires
    PROVE  IInv'
<1>1. UNCHANGED <<storeVars, etcdVars, indexGen, unseen>> /\ rec' = rec /\ indexReady' = FALSE
  BY Zenon DEF ReadyExpires
<1>2. rec \in [Reconcilers -> Term \cup {None}]
  BY Zenon DEF IInv, TypeOK
<1> QED BY Zenon, <1>1, <1>2, QuietStep, Combine DEF StoreKept

\* A failover makes every pass under way one that proves nothing.
LEMMA RedisFailoverKeeps ==
    ASSUME IInv, RedisFailover
    PROVE  IInv'
<1>1. UNCHANGED <<storeVars, etcdVars, indexReady, indexGen, unseen>>
  BY Zenon DEF RedisFailover
<1>2. PICK skipped \in SUBSET Players :
         rec' = [r \in Reconcilers |->
                    IF IF rec[r] = None THEN TRUE ELSE rec[r].pass \in {"idle", "gen", "check", "mark", "announce"}
                    THEN rec[r]
                    ELSE [rec[r] EXCEPT !.todo = @ \ skipped, !.restarted = TRUE]]
  BY Zenon DEF RedisFailover
<1>3. ASSUME NEW r \in Reconcilers, rec'[r] # rec[r]
      PROVE  /\ leads(r) /\ rec'[r] = [rec[r] EXCEPT !.todo = @ \ skipped, !.restarted = TRUE]
             /\ rec[r].pass # "announce"
  BY Zenon, <1>2, <1>3 DEF leads
<1>4. ASSUME NEW r \in Reconcilers, rec'[r] # rec[r]
      PROVE  rec'[r] \in Term /\ TermOK(r)'
  <2>1. rec[r] \in Term /\ rec[r].gen \in Int /\ indexGen \in Int
    BY Zenon, <1>3, <1>4, TermTypes DEF IInv
  <2>2. rec'[r] = [rec[r] EXCEPT !.todo = @ \ skipped, !.restarted = TRUE]
    BY Zenon, <1>3, <1>4
  <2>3. /\ rec'[r] \in Term
        /\ rec'[r].suspects = rec[r].suspects /\ rec'[r].round = rec[r].round
        /\ rec'[r].gates = rec[r].gates /\ rec'[r].member = rec[r].member
        /\ rec'[r].pass = rec[r].pass /\ rec'[r].gen = rec[r].gen
        /\ rec'[r].cand = rec[r].cand /\ rec'[r].restarted = TRUE
        /\ rec'[r].todo = rec[r].todo \ skipped
    BY Zenon, <2>1, <2>2 DEF Term
  <2>4. RoundOK(r) /\ CandidateOK(r) /\ PassOK(r) /\ EtcdStep /\ rec[r].pass # "announce"
    BY Zenon, <1>1, <1>3, <1>4, QuietStep DEF IInv, TermOK
  <2>5. RoundOK(r)'
    BY Zenon, <2>3, <2>4, RoundFrame
  <2>6. CandidateOK(r)'
    BY Zenon, <2>3, <2>4 DEF CandidateOK, EtcdStep, classifyIndexedMember, indexedGate, InState
  <2>7. PassOK(r)'
    BY Zenon, <1>1, <2>1, <2>3, <2>4 DEF PassOK, Counts
  <2> QED BY Zenon, <2>3, <2>5, <2>6, <2>7 DEF TermOK
<1>5. rec' \in [Reconcilers -> Term \cup {None}]
  BY Zenon, <1>2, <1>4 DEF IInv, TypeOK
<1>6. TypeOK'
  BY Zenon, <1>1, <1>5, QuietStep DEF IInv, TypeOK
<1> QED BY Zenon, <1>1, <1>4, <1>6, QuietStep, Combine DEF StoreKept

-----------------------------------------------------------------------------
(* Terms *)

\* A step that only moves one term.
LEMMA TermStep ==
    ASSUME IInv, NEW r \in Reconcilers, NEW t, t \in Term \cup {None}, rec' = [rec EXCEPT ![r] = t],
           UNCHANGED <<storeVars, etcdVars, indexReady, indexGen, unseen>>, TermOK(r)'
    PROVE  IInv'
<1>1. rec' \in [Reconcilers -> Term \cup {None}]
  BY Zenon DEF IInv, TypeOK
<1>2. TypeOK'
  BY Zenon, <1>1, QuietStep DEF IInv, TypeOK
<1>3. ASSUME NEW q \in Reconcilers
      PROVE  rec'[q] = rec[q] \/ TermOK(q)'
  BY Zenon, <1>3 DEF IInv, TypeOK
<1> QED BY Zenon, <1>2, <1>3, QuietStep, Combine DEF StoreKept

\* A new term starts with empty tables, and an ended one knows nothing.
LEMMA BeginTermKeeps ==
    ASSUME IInv, NEW r \in Reconcilers, BeginTerm(r)
    PROVE  IInv'
<1>1. rec' = [rec EXCEPT ![r] = NewTerm]
      /\ UNCHANGED <<storeVars, etcdVars, indexReady, indexGen, unseen>>
  BY Zenon DEF BeginTerm
<1>2. NewTerm \in Term
  <2>1. [g \in Gates |-> 0] \in [Gates -> 0..2] /\ 0 \in 0..MaxIndexGen
    BY ReconcilerAssumption
  <2> QED BY Zenon, <2>1 DEF NewTerm, Term
<1>3. rec'[r] = NewTerm
  BY Zenon, <1>1 DEF IInv, TypeOK
<1>4. /\ rec'[r].gates = {} /\ rec'[r].round = "check" /\ rec'[r].pass = "idle"
      /\ rec'[r].gen = 0 /\ \A g \in Gates : rec'[r].suspects[g] = 0
  BY <1>3 DEF NewTerm
<1>5. RoundOK(r)' /\ CandidateOK(r)'
  BY <1>4 DEF RoundOK, CandidateOK
<1>6. indexGen' \in Int /\ 0 <= indexGen'
  BY <1>1, ReconcilerAssumption DEF IInv, TypeOK
<1>7. PassOK(r)'
  BY Zenon, <1>4, <1>6 DEF PassOK, Counts, Scanning
<1> QED BY Zenon, <1>1, <1>2, <1>5, <1>7, TermStep DEF TermOK

\* The end of a term.
LEMMA EndTermKeeps ==
    ASSUME IInv, NEW r \in Reconcilers, EndTerm(r)
    PROVE  IInv'
<1>1. rec' = [rec EXCEPT ![r] = None]
      /\ UNCHANGED <<storeVars, etcdVars, indexReady, indexGen, unseen>>
  BY Zenon DEF EndTerm
<1>2. TermOK(r)'
  BY Zenon, <1>1 DEF TermOK, leads, IInv, TypeOK
<1> QED BY Zenon, <1>1, <1>2, TermStep

-----------------------------------------------------------------------------
(* The index loop *)

\* A step that moves only the index loop of one term.
LEMMA RoundStep ==
    ASSUME IInv, NEW r \in Reconcilers, leads(r), NEW t \in Term,
           rec' = [rec EXCEPT ![r] = t], RoundOK(r)',
           UNCHANGED <<storeVars, etcdVars, indexReady, indexGen, unseen>>,
           t.pass = rec[r].pass, t.audit = rec[r].audit, t.gen = rec[r].gen,
           t.restarted = rec[r].restarted, t.todo = rec[r].todo, t.cand = rec[r].cand
    PROVE  IInv'
<1>1. rec'[r] = t
  BY Zenon DEF IInv, TypeOK
<1>2. CandidateOK(r) /\ PassOK(r) /\ rec[r].gen \in Int /\ indexGen \in Int
  BY Zenon, TermTypes DEF IInv, TermOK
<1>3. CandidateOK(r)' /\ PassOK(r)'
  BY Zenon, <1>1, <1>2, PassFrame, QuietStep
<1> QED BY Zenon, <1>3, TermStep DEF TermOK

\* CheckWriters only decides whether to mark.
LEMMA CheckWritersKeeps ==
    ASSUME IInv, NEW r \in Reconcilers, NEW ok \in BOOLEAN, CheckWriters(r, ok)
    PROVE  IInv'
<1> DEFINE t == [rec[r] EXCEPT !.round = IF ok /\ legacy THEN "mark" ELSE "registry"]
<1>1. leads(r) /\ rec[r] \in Term /\ RoundOK(r)
  BY Zenon, TermTypes DEF CheckWriters, IInv, TermOK
<1>2. rec' = [rec EXCEPT ![r] = t] /\ rec'[r] = t
  BY Zenon DEF CheckWriters, IInv, TypeOK
<1>3. /\ t \in Term /\ t.round \in {"mark", "registry"}
      /\ t.suspects = rec[r].suspects /\ t.gates = rec[r].gates
      /\ t.pass = rec[r].pass /\ t.audit = rec[r].audit /\ t.gen = rec[r].gen
      /\ t.restarted = rec[r].restarted /\ t.todo = rec[r].todo /\ t.cand = rec[r].cand
  BY Zenon, <1>1 DEF Term
<1> HIDE DEF t
<1>4. RoundOK(r)'
  BY Zenon, <1>1, <1>2, <1>3 DEF CheckWriters, RoundOK, Known, etcdVars
<1> QED BY Zenon, <1>1, <1>2, <1>3, <1>4, RoundStep DEF CheckWriters

\* ReadRegistry takes a snapshot of gates that are all known.
LEMMA ReadRegistryKeeps ==
    ASSUME IInv, NEW r \in Reconcilers, ReadRegistry(r)
    PROVE  IInv'
<1> DEFINE t == [rec[r] EXCEPT !.round = "live", !.gates = registry]
<1>1. leads(r) /\ rec[r] \in Term /\ RoundOK(r) /\ registry \subseteq Gates
  BY Zenon, TermTypes DEF ReadRegistry, IInv, TermOK, TypeOK, StoreTypeOK
<1>2. rec' = [rec EXCEPT ![r] = t] /\ rec'[r] = t
  BY Zenon DEF ReadRegistry, IInv, TypeOK
<1>3. /\ t \in Term /\ t.round = "live" /\ t.gates = registry
      /\ t.suspects = rec[r].suspects
      /\ t.pass = rec[r].pass /\ t.audit = rec[r].audit /\ t.gen = rec[r].gen
      /\ t.restarted = rec[r].restarted /\ t.todo = rec[r].todo /\ t.cand = rec[r].cand
  BY Zenon, <1>1 DEF Term
<1> HIDE DEF t
<1>4. RoundOK(r)'
  BY Zenon, <1>1, <1>2, <1>3 DEF ReadRegistry, RoundOK, Known, etcdVars, IInv, GatesKnown
<1> QED BY Zenon, <1>1, <1>2, <1>3, <1>4, RoundStep DEF ReadRegistry

\* Marking legacy writers begins a generation that no backfill under way has.
LEMMA MarkStep ==
    ASSUME IInv, markLegacyWriters, UNCHANGED <<storeVars, etcdVars>>
    PROVE  /\ StoreKept /\ EtcdStep /\ IndexStep /\ GatesKnown' /\ indexReady' = FALSE
           /\ indexGen' = indexGen + 1
           /\ rec' \in [Reconcilers -> Term \cup {None}] => TypeOK'
<1>1. StoreKept
  BY Zenon, StoreSame DEF IInv, TypeOK
<1>2. EtcdStep /\ IndexStep
  BY Zenon DEF EtcdStep, Known, etcdVars, IndexStep, markLegacyWriters
<1>3. GatesKnown'
  BY Zenon DEF IInv, GatesKnown, Known, etcdVars, storeVars, indexedGate, InState
<1>4. indexReady' = FALSE /\ unseen' = {} /\ indexGen' = indexGen + 1 /\ indexGen' \in 0..MaxIndexGen
  BY ReconcilerAssumption DEF markLegacyWriters, IInv, TypeOK
<1> QED BY Zenon, <1>1, <1>2, <1>3, <1>4 DEF IInv, TypeOK, StoreKept, etcdVars

\* MarkLegacy, done or failed, leaves the round to go on.
LEMMA MarkLegacyKeeps ==
    ASSUME IInv, NEW r \in Reconcilers, NEW ok \in BOOLEAN, MarkLegacy(r, ok)
    PROVE  IInv'
<1> DEFINE t == [rec[r] EXCEPT !.round = "registry"]
<1>1. /\ leads(r) /\ rec[r] \in Term /\ RoundOK(r) /\ CandidateOK(r) /\ PassOK(r)
      /\ rec[r].gen \in Int /\ indexGen \in Int
  BY Zenon, TermTypes DEF MarkLegacy, IInv, TermOK
<1>2. rec' = [rec EXCEPT ![r] = t] /\ rec'[r] = t
  BY Zenon DEF MarkLegacy, IInv, TypeOK
<1>3. /\ t \in Term /\ t.round = "registry"
      /\ t.suspects = rec[r].suspects /\ t.gates = rec[r].gates
      /\ t.pass = rec[r].pass /\ t.audit = rec[r].audit /\ t.gen = rec[r].gen
      /\ t.restarted = rec[r].restarted /\ t.todo = rec[r].todo /\ t.cand = rec[r].cand
  BY Zenon, <1>1 DEF Term
<1> HIDE DEF t
<1>4. RoundOK(r)'
  BY Zenon, <1>1, <1>2, <1>3 DEF MarkLegacy, RoundOK, Known, etcdVars
<1>5. CASE ok
  <2>1. markLegacyWriters /\ UNCHANGED <<storeVars, etcdVars>>
    BY Zenon, <1>5 DEF MarkLegacy
  <2>2. rec' \in [Reconcilers -> Term \cup {None}]
    BY Zenon, <1>2, <1>3 DEF IInv, TypeOK
  <2>3. CandidateOK(r)' /\ PassOK(r)'
    BY Zenon, <1>1, <1>2, <1>3, <2>1, MarkStep, PassFrame
  <2>4. ASSUME NEW q \in Reconcilers
        PROVE  rec'[q] = rec[q] \/ TermOK(q)'
    BY Zenon, <1>2, <1>4, <2>3 DEF TermOK, IInv, TypeOK
  <2> QED BY Zenon, <2>1, <2>2, <2>4, MarkStep, Combine DEF StoreKept
<1>6. CASE ~ok
  BY Zenon, <1>1, <1>2, <1>3, <1>4, <1>6, RoundStep DEF MarkLegacy
<1> QED BY Zenon, <1>5, <1>6

\* ReadLive counts only gates of the registry that etcd does not have: known
\* gates that are gone.
LEMMA ReadLiveKeeps ==
    ASSUME IInv, NEW r \in Reconcilers, ReadLive(r)
    PROVE  IInv'
<1> DEFINE s == advanceSuspects(rec[r].suspects, rec[r].gates, registered)
           dead == {g \in Gates : s[g] = 2}
           t == [rec[r] EXCEPT !.round = "sweep", !.suspects = s, !.gates = dead]
<1>1. leads(r) /\ rec[r] \in Term /\ RoundOK(r)
  BY Zenon, TermTypes DEF ReadLive, IInv, TermOK
<1>2. rec' = [rec EXCEPT ![r] = t] /\ rec'[r] = t
  BY Zenon DEF ReadLive, IInv, TypeOK
<1>3. s \in [Gates -> 0..2] /\ \A g \in Gates : s[g] > 0 => g \in rec[r].gates \ registered
  <2>1. rec[r].suspects \in [Gates -> 0..2]
    BY Zenon, <1>1 DEF Term
  <2> QED BY <2>1 DEF advanceSuspects
<1> HIDE DEF s
<1>4. \A g \in Gates : s[g] > 0 => g \in lapsed
  BY Zenon, <1>1, <1>3 DEF RoundOK, Known
<1>5. dead \subseteq Gates /\ dead \subseteq lapsed
  BY <1>3, <1>4
<1> HIDE DEF dead
<1>6. /\ t \in Term /\ t.round = "sweep" /\ t.suspects = s /\ t.gates = dead
      /\ t.pass = rec[r].pass /\ t.audit = rec[r].audit /\ t.gen = rec[r].gen
      /\ t.restarted = rec[r].restarted /\ t.todo = rec[r].todo /\ t.cand = rec[r].cand
  BY Zenon, <1>1, <1>3, <1>5 DEF Term
<1> HIDE DEF t
<1>7. RoundOK(r)'
  BY Zenon, <1>2, <1>4, <1>5, <1>6 DEF ReadLive, RoundOK, Known, etcdVars
<1> QED BY Zenon, <1>1, <1>2, <1>6, <1>7, RoundStep DEF ReadLive

\* A round that ends forgets its gates and its member.
LEMMA EndRoundKeeps ==
    ASSUME IInv, NEW r \in Reconcilers, EndRound(r)
    PROVE  IInv'
<1> DEFINE t == [rec[r] EXCEPT !.round = "check", !.gates = {}, !.member = None]
<1>1. leads(r) /\ rec[r] \in Term /\ RoundOK(r)
  BY Zenon, TermTypes DEF EndRound, IInv, TermOK
<1>2. rec' = [rec EXCEPT ![r] = t] /\ rec'[r] = t
  BY Zenon DEF EndRound, IInv, TypeOK
<1>3. /\ t \in Term /\ t.round = "check" /\ t.gates = {}
      /\ t.suspects = rec[r].suspects
      /\ t.pass = rec[r].pass /\ t.audit = rec[r].audit /\ t.gen = rec[r].gen
      /\ t.restarted = rec[r].restarted /\ t.todo = rec[r].todo /\ t.cand = rec[r].cand
  BY Zenon, <1>1 DEF Term
<1> HIDE DEF t
<1>4. RoundOK(r)'
  BY Zenon, <1>1, <1>2, <1>3 DEF EndRound, RoundOK, Known, etcdVars
<1> QED BY Zenon, <1>1, <1>2, <1>3, <1>4, RoundStep DEF EndRound

\* The member a sweep reads is of a gate that is gone.
LEMMA SweepReadKeeps ==
    ASSUME IInv, NEW r \in Reconcilers, NEW g \in Gates, NEW p \in Players, SweepRead(r, g, p)
    PROVE  IInv'
<1> DEFINE m == [gate |-> g, player |-> p, raw |-> session[p]]
           t == [rec[r] EXCEPT !.round = "act", !.member = m]
<1>1. leads(r) /\ rec[r] \in Term /\ RoundOK(r)
  BY Zenon, TermTypes DEF SweepRead, IInv, TermOK
<1>2. rec' = [rec EXCEPT ![r] = t] /\ rec'[r] = t
  BY Zenon DEF SweepRead, IInv, TypeOK
<1>3. m \in Member /\ m.gate = g
  BY Zenon DEF Member, IInv, TypeOK, StoreTypeOK
<1> HIDE DEF m
<1>4. /\ t \in Term /\ t.round = "act" /\ t.gates = rec[r].gates /\ t.member = m
      /\ t.suspects = rec[r].suspects
      /\ t.pass = rec[r].pass /\ t.audit = rec[r].audit /\ t.gen = rec[r].gen
      /\ t.restarted = rec[r].restarted /\ t.todo = rec[r].todo /\ t.cand = rec[r].cand
  BY Zenon, <1>1, <1>3 DEF Term
<1> HIDE DEF t
<1>5. RoundOK(r)'
  BY Zenon, <1>1, <1>2, <1>3, <1>4 DEF SweepRead, RoundOK, Known, etcdVars
<1> QED BY Zenon, <1>1, <1>2, <1>4, <1>5, RoundStep DEF SweepRead

\* A step that moves the store and one term.
LEMMA StoreTermStep ==
    ASSUME IInv, NEW r \in Reconcilers, NEW t \in Term, rec' = [rec EXCEPT ![r] = t],
           StoreKept, Accounted, GatesKnown', unseen' \subseteq unseen,
           UNCHANGED <<etcdVars, indexReady, indexGen>>,
           RoundOK(r)' /\ CandidateOK(r)' /\ PassOK(r)'
    PROVE  IInv'
<1>1. TypeOK'
  BY Zenon DEF IInv, TypeOK, StoreKept, etcdVars
<1>2. EtcdStep /\ IndexStep
  BY Zenon DEF EtcdStep, Known, etcdVars, IndexStep
<1>3. ASSUME NEW q \in Reconcilers
      PROVE  rec'[q] = rec[q] \/ TermOK(q)'
  BY Zenon DEF TermOK, IInv, TypeOK
<1> QED BY Zenon, <1>1, <1>2, <1>3, Combine DEF StoreKept

\* What SweepAct does to the store.
LEMMA SweepActStore ==
    ASSUME IInv, NEW r \in Reconcilers, SweepAct(r)
    PROVE  /\ StoreKept /\ registry' \subseteq registry
           /\ \A p \in Players : session'[p] # session[p] =>
                 /\ indexedGate(session[p]) = rec[r].member.gate
                 /\ InState(session'[p], Disconnecting)
                 /\ ready'[p] = "pending"
<1> DEFINE m == rec[r].member
<1>1. leads(r) /\ RoundOK(r) /\ StoreTypeOK /\ RegistryCoversIndex
  BY Zenon DEF SweepAct, IInv, TermOK, TypeOK
<1>2. m \in Member
  BY Zenon, <1>1 DEF SweepAct, RoundOK
<1>3. CASE classifyIndexedMember(m.raw, m.gate) = "onlineHere"
  <2>1. /\ session[m.player] = m.raw => m.raw.ver < MaxVersion
        /\ transitionToDisconnecting(m.player, m.raw, disconnected(m.raw))
    BY Zenon, <1>3 DEF SweepAct
  <2>2. m.raw \in PlayerSession /\ indexedGate(m.raw) = m.gate /\ m.player \in Players
    BY Zenon, <1>2, <1>3 DEF classifyIndexedMember, Member
  <2>3. CASE session[m.player] # m.raw
    BY Zenon, <1>1, <2>1, <2>3, StoreSame DEF transitionToDisconnecting, storeVars
  <2>4. CASE session[m.player] = m.raw
    <3>1. disconnected(m.raw) \in PlayerSession /\ disconnected(m.raw).state = Disconnecting
      BY Zenon, <2>1, <2>2, <2>4, DisconnectedType
    <3>2. StoreKept /\ registry' \subseteq registry
      BY Zenon, <1>1, <2>1, <2>2, <3>1, DisconnectKeeps
    <3>3. session' = [session EXCEPT ![m.player] = disconnected(m.raw)]
          /\ ready' = [ready EXCEPT ![m.player] = "pending"]
      BY Zenon, <2>1, <2>4 DEF transitionToDisconnecting
    <3>4. ASSUME NEW p \in Players, session'[p] # session[p]
          PROVE  /\ p = m.player /\ session'[p] = disconnected(m.raw)
                 /\ ready'[p] = "pending"
      BY Zenon, <1>1, <3>3, <3>4 DEF StoreTypeOK
    <3> QED BY Zenon, <2>2, <2>4, <3>1, <3>2, <3>4, NoneAssumption DEF InState
  <2> QED BY Zenon, <2>3, <2>4
<1>4. CASE classifyIndexedMember(m.raw, m.gate) # "onlineHere"
  BY Zenon, <1>1, <1>2, <1>4, PruneKeeps DEF SweepAct
<1> QED BY Zenon, <1>3, <1>4

\* SweepAct ends a session or prunes a member, and the sweep goes on.
LEMMA SweepActKeeps ==
    ASSUME IInv, NEW r \in Reconcilers, SweepAct(r)
    PROVE  IInv'
<1> DEFINE t == [rec[r] EXCEPT !.round = "sweep", !.member = None]
<1>1. /\ leads(r) /\ rec[r] \in Term /\ RoundOK(r) /\ CandidateOK(r) /\ PassOK(r)
      /\ rec[r].gen \in Int /\ indexGen \in Int
  BY Zenon, TermTypes DEF SweepAct, IInv, TermOK
<1>2. rec' = [rec EXCEPT ![r] = t] /\ rec'[r] = t
  BY Zenon DEF SweepAct, IInv, TypeOK
<1>3. /\ t \in Term /\ t.round = "sweep" /\ t.gates = rec[r].gates
      /\ t.suspects = rec[r].suspects
      /\ t.pass = rec[r].pass /\ t.audit = rec[r].audit /\ t.gen = rec[r].gen
      /\ t.restarted = rec[r].restarted /\ t.todo = rec[r].todo /\ t.cand = rec[r].cand
  BY Zenon, <1>1 DEF Term
<1> HIDE DEF t
<1>4. rec[r].round = "act" /\ UNCHANGED <<etcdVars, indexReady, indexGen, unseen>>
  BY Zenon DEF SweepAct
<1>5. RoundOK(r)'
  BY Zenon, <1>1, <1>2, <1>3, <1>4 DEF RoundOK, Known, etcdVars
<1>6. StoreKept /\ Accounted /\ EtcdStep /\ IndexStep
  BY Zenon, <1>4, SweepActStore DEF StoreKept, Accounted, EtcdStep, IndexStep, Known, etcdVars
<1>7. CandidateOK(r)' /\ PassOK(r)'
  BY Zenon, <1>1, <1>2, <1>3, <1>6, PassFrame
<1>8. GatesKnown'
  <2>1. ASSUME NEW p \in Players
        PROVE  indexedGate(session'[p]) \in Known \cup {NoGate}
    BY Zenon, SweepActStore DEF indexedGate, InState, Online, Disconnecting, IInv, GatesKnown
  <2>2. up \subseteq Known /\ registry' \subseteq Known
    BY Zenon, SweepActStore DEF IInv, GatesKnown
  <2> QED BY Zenon, <1>4, <2>1, <2>2 DEF GatesKnown, Known, etcdVars, indexedGate, InState
<1> QED BY Zenon, <1>2, <1>3, <1>4, <1>5, <1>6, <1>7, <1>8, StoreTermStep

\* releaseGateIndexIfEmpty: a gate leaves the registry with an empty index.
LEMMA ReleaseKeeps ==
    ASSUME IInv, NEW r \in Reconcilers, NEW g \in Gates, Release(r, g)
    PROVE  IInv'
<1> DEFINE s == [rec[r].suspects EXCEPT ![g] = 0]
           t == [rec[r] EXCEPT !.gates = @ \ {g}, !.suspects = s]
<1>1. /\ leads(r) /\ rec[r] \in Term /\ RoundOK(r) /\ CandidateOK(r) /\ PassOK(r)
      /\ rec[r].gen \in Int /\ indexGen \in Int
  BY Zenon, TermTypes DEF Release, IInv, TermOK
<1>2. rec' = [rec EXCEPT ![r] = t] /\ rec'[r] = t
  BY Zenon, <1>1 DEF Release, IInv, TypeOK, Term
<1>a. s \in [Gates -> 0..2] /\ \A h \in Gates : s[h] > 0 => rec[r].suspects[h] > 0
  <2>1. rec[r].suspects \in [Gates -> 0..2]
    BY Zenon, <1>1 DEF Term
  <2> QED BY <2>1
<1> HIDE DEF s
<1>3. /\ t \in Term /\ t.round = rec[r].round /\ t.gates = rec[r].gates \ {g}
      /\ t.suspects = s /\ t.member = rec[r].member
      /\ t.pass = rec[r].pass /\ t.audit = rec[r].audit /\ t.gen = rec[r].gen
      /\ t.restarted = rec[r].restarted /\ t.todo = rec[r].todo /\ t.cand = rec[r].cand
  BY Zenon, <1>1, <1>a DEF Term
<1> HIDE DEF t
<1>4. /\ index[g] = {} /\ registry' = registry \ {g}
      /\ UNCHANGED <<session, ready, processing, token, payload, index>>
      /\ UNCHANGED <<etcdVars, indexReady, indexGen, unseen>>
  BY Zenon DEF Release
<1>5. RoundOK(r)'
  <2>1. Known' = Known /\ lapsed' = lapsed
    BY Zenon, <1>4 DEF Known, etcdVars
  <2>2. \A h \in Gates : rec'[r].suspects[h] > 0 => h \in lapsed
    BY Zenon, <1>1, <1>2, <1>3, <1>a DEF RoundOK
  <2>3. rec'[r].round # "act"
    BY Zenon, <1>2, <1>3 DEF Release
  <2> QED BY Zenon, <1>1, <1>2, <1>3, <2>1, <2>2, <2>3 DEF RoundOK
<1>6. StoreKept
  BY Zenon, <1>4 DEF StoreKept, StoreTypeOK, RegistryCoversIndex, Missing, indexedGate, InState, IInv, TypeOK
<1>7. Accounted /\ EtcdStep /\ IndexStep
  BY Zenon, <1>4, <1>6 DEF StoreKept, Accounted, EtcdStep, IndexStep, Known, etcdVars
<1>8. CandidateOK(r)' /\ PassOK(r)'
  BY Zenon, <1>1, <1>2, <1>3, <1>7, PassFrame
<1>9. GatesKnown'
  BY Zenon, <1>4 DEF IInv, GatesKnown, Known, etcdVars, indexedGate, InState
<1> QED BY Zenon, <1>2, <1>3, <1>4, <1>5, <1>6, <1>7, <1>8, <1>9, StoreTermStep

-----------------------------------------------------------------------------
(* The repair loop *)

\* A step that moves only the repair loop of one term.
LEMMA PassStep ==
    ASSUME IInv, NEW r \in Reconcilers, leads(r), NEW t \in Term,
           rec' = [rec EXCEPT ![r] = t], CandidateOK(r)' /\ PassOK(r)',
           UNCHANGED <<storeVars, etcdVars, indexReady, indexGen, unseen>>,
           t.suspects = rec[r].suspects, t.round = rec[r].round,
           t.gates = rec[r].gates, t.member = rec[r].member
    PROVE  IInv'
<1>1. rec'[r] = t
  BY Zenon DEF IInv, TypeOK
<1>2. RoundOK(r)'
  BY Zenon, <1>1, RoundFrame, QuietStep DEF IInv, TermOK
<1> QED BY Zenon, <1>2, TermStep DEF TermOK

\* A session missing from the index exists, so a scan that starts has it to do.
LEMMA MissingExists ==
    ASSUME NEW p \in Players, Missing(p)
    PROVE  p \in existing
BY Zenon, StoreAssumption DEF Missing, existing, indexedGate, InState

\* The term a scan starts with, audit or not.
LEMMA StartScanType ==
    ASSUME NEW t \in Term
    PROVE  /\ startScan(t) \in Term
           /\ startScan(t).pass = "scan" /\ startScan(t).todo = existing
           /\ startScan(t).audit = t.audit /\ startScan(t).gen = t.gen
           /\ startScan(t).suspects = t.suspects /\ startScan(t).round = t.round
           /\ startScan(t).gates = t.gates /\ startScan(t).member = t.member
           /\ startScan(t).restarted = FALSE /\ startScan(t).cand = t.cand
<1>1. existing \subseteq Players
  BY Zenon DEF existing
<1> HIDE DEF existing
<1> QED BY Zenon, <1>1 DEF startScan, Term

\* A pass at its start owes nothing yet: every session is still to be scanned.
LEMMA ScanStarts ==
    ASSUME IInv, NEW r \in Reconcilers, leads(r), UNCHANGED <<storeVars, etcdVars>>,
           indexGen' \in {indexGen, indexGen + 1},
           rec'[r].gen = rec[r].gen, rec'[r].pass = "scan", rec'[r].todo = existing
    PROVE  CandidateOK(r)' /\ PassOK(r)'
<1>1. PassOK(r) /\ rec[r].gen \in Int /\ indexGen \in Int
  BY Zenon, TermTypes DEF IInv, TermOK
<1>2. CandidateOK(r)'
  BY Zenon DEF CandidateOK
<1>3. ASSUME NEW p \in Players, Missing(p)'
      PROVE  p \in rec'[r].todo
  <2>1. Missing(p)
    BY Zenon, <1>3 DEF Missing, indexedGate, InState, storeVars
  <2> QED BY Zenon, <2>1, MissingExists
<1>4. rec'[r].gen <= indexGen'
  BY <1>1 DEF PassOK
<1>5. PassOK(r)'
  BY Zenon, <1>3, <1>4 DEF PassOK
<1> QED BY Zenon, <1>2, <1>5

\* An audit scans at once; a backfill first reads the generation.
LEMMA BeginPassKeeps ==
    ASSUME IInv, NEW r \in Reconcilers, BeginPass(r)
    PROVE  IInv'
<1> DEFINE s == startScan(rec[r])
           t == IF indexReady THEN [s EXCEPT !.audit = TRUE]
                ELSE [rec[r] EXCEPT !.pass = "gen", !.audit = FALSE]
<1>1. /\ leads(r) /\ rec[r] \in Term /\ PassOK(r) /\ CandidateOK(r)
      /\ rec[r].gen \in Int /\ indexGen \in Int
      /\ UNCHANGED <<storeVars, etcdVars, indexReady, indexGen, unseen>>
  BY Zenon, TermTypes DEF BeginPass, IInv, TermOK
<1>2. rec' = [rec EXCEPT ![r] = t] /\ rec'[r] = t
  BY Zenon DEF BeginPass, IInv, TypeOK
<1>3. CASE indexReady
  <2>1. /\ t \in Term /\ t.pass = "scan" /\ t.todo = existing /\ t.gen = rec[r].gen
        /\ t.suspects = rec[r].suspects /\ t.round = rec[r].round
        /\ t.gates = rec[r].gates /\ t.member = rec[r].member
    <3>1. /\ s \in Term /\ s.pass = "scan" /\ s.todo = existing /\ s.gen = rec[r].gen
          /\ s.suspects = rec[r].suspects /\ s.round = rec[r].round
          /\ s.gates = rec[r].gates /\ s.member = rec[r].member
      BY Zenon, <1>1, StartScanType
    <3> HIDE DEF s
    <3> QED BY Zenon, <1>3, <3>1 DEF Term
  <2> HIDE DEF t
  <2>2. CandidateOK(r)' /\ PassOK(r)'
    BY Zenon, <1>1, <1>2, <2>1, ScanStarts
  <2> QED BY Zenon, <1>1, <1>2, <2>1, <2>2, PassStep
<1>4. CASE ~indexReady
  <2>1. /\ t \in Term /\ t.pass = "gen" /\ t.gen = rec[r].gen
        /\ t.suspects = rec[r].suspects /\ t.round = rec[r].round
        /\ t.gates = rec[r].gates /\ t.member = rec[r].member
    BY Zenon, <1>1, <1>4 DEF Term
  <2> HIDE DEF t
  <2>2. CandidateOK(r)' /\ PassOK(r)'
    BY Zenon, <1>1, <1>2, <2>1 DEF CandidateOK, PassOK, Counts, Scanning
  <2> QED BY Zenon, <1>1, <1>2, <2>1, <2>2, PassStep
<1> QED BY Zenon, <1>3, <1>4

\* ReadGen: the generation of a backfill is never ahead of Redis.
LEMMA ReadGenKeeps ==
    ASSUME IInv, NEW r \in Reconcilers, ReadGen(r)
    PROVE  IInv'
<1> DEFINE t == [rec[r] EXCEPT !.pass = "check", !.gen = indexGen]
<1>1. /\ leads(r) /\ rec[r] \in Term /\ indexGen \in Int /\ indexGen \in 0..MaxIndexGen
      /\ UNCHANGED <<storeVars, etcdVars, indexReady, indexGen, unseen>>
  BY Zenon, TermTypes DEF ReadGen, IInv, TypeOK
<1>2. rec' = [rec EXCEPT ![r] = t] /\ rec'[r] = t
  BY Zenon DEF ReadGen, IInv, TypeOK
<1>3. /\ t \in Term /\ t.pass = "check" /\ t.gen = indexGen
      /\ t.suspects = rec[r].suspects /\ t.round = rec[r].round
      /\ t.gates = rec[r].gates /\ t.member = rec[r].member
  BY Zenon, <1>1 DEF Term
<1> HIDE DEF t
<1>4. CandidateOK(r)' /\ PassOK(r)'
  <2>1. rec'[r].gen <= indexGen'
    BY <1>1, <1>2, <1>3
  <2> QED BY Zenon, <1>2, <1>3, <2>1 DEF CandidateOK, PassOK, Counts, Scanning
<1> QED BY Zenon, <1>1, <1>2, <1>3, <1>4, PassStep

\* The check of the writers before a backfill: scan, or mark first.
LEMMA CheckBeforePassKeeps ==
    ASSUME IInv, NEW r \in Reconcilers, CheckBeforePass(r)
    PROVE  IInv'
<1>1. /\ leads(r) /\ rec[r] \in Term /\ PassOK(r) /\ rec[r].pass = "check"
      /\ rec[r].gen \in Int /\ indexGen \in Int
      /\ UNCHANGED <<storeVars, etcdVars, indexReady, indexGen, unseen>>
  BY Zenon, TermTypes DEF CheckBeforePass, IInv, TermOK
<1>2. CASE ~legacy
  <2> DEFINE t == startScan(rec[r])
  <2>1. rec' = [rec EXCEPT ![r] = t] /\ rec'[r] = t
    BY Zenon, <1>2 DEF CheckBeforePass, IInv, TypeOK
  <2>2. /\ t \in Term /\ t.pass = "scan" /\ t.todo = existing /\ t.gen = rec[r].gen
        /\ t.suspects = rec[r].suspects /\ t.round = rec[r].round
        /\ t.gates = rec[r].gates /\ t.member = rec[r].member
    BY Zenon, <1>1, StartScanType
  <2> HIDE DEF t
  <2>3. CandidateOK(r)' /\ PassOK(r)'
    BY Zenon, <1>1, <2>1, <2>2, ScanStarts
  <2> QED BY Zenon, <1>1, <2>1, <2>2, <2>3, PassStep
<1>3. CASE legacy
  <2> DEFINE t == [rec[r] EXCEPT !.pass = "mark"]
  <2>1. rec' = [rec EXCEPT ![r] = t] /\ rec'[r] = t
    BY Zenon, <1>3 DEF CheckBeforePass, IInv, TypeOK
  <2>2. /\ t \in Term /\ t.pass = "mark" /\ t.gen = rec[r].gen
        /\ t.suspects = rec[r].suspects /\ t.round = rec[r].round
        /\ t.gates = rec[r].gates /\ t.member = rec[r].member
    BY Zenon, <1>1 DEF Term
  <2> HIDE DEF t
  <2>3. CandidateOK(r)' /\ PassOK(r)'
    BY Zenon, <1>1, <2>1, <2>2 DEF CandidateOK, PassOK, Counts, Scanning
  <2> QED BY Zenon, <1>1, <2>1, <2>2, <2>3, PassStep
<1> QED BY Zenon, <1>2, <1>3

\* A backfill that marked legacy writers itself has an old generation.
LEMMA MarkBeforePassKeeps ==
    ASSUME IInv, NEW r \in Reconcilers, MarkBeforePass(r)
    PROVE  IInv'
<1> DEFINE t == startScan(rec[r])
<1>1. leads(r) /\ rec[r] \in Term /\ markLegacyWriters /\ UNCHANGED <<storeVars, etcdVars>>
  BY Zenon, TermTypes DEF MarkBeforePass, IInv
<1>2. rec' = [rec EXCEPT ![r] = t] /\ rec'[r] = t
  BY Zenon DEF MarkBeforePass, IInv, TypeOK
<1>3. /\ t \in Term /\ t.pass = "scan" /\ t.todo = existing /\ t.gen = rec[r].gen
      /\ t.suspects = rec[r].suspects /\ t.round = rec[r].round
      /\ t.gates = rec[r].gates /\ t.member = rec[r].member
  BY Zenon, <1>1, StartScanType
<1> HIDE DEF t
<1>4. CandidateOK(r)' /\ PassOK(r)'
  BY Zenon, <1>1, <1>2, <1>3, MarkStep, ScanStarts
<1>5. RoundOK(r)'
  BY Zenon, <1>1, <1>2, <1>3, MarkStep, RoundFrame DEF IInv, TermOK
<1>6. rec' \in [Reconcilers -> Term \cup {None}]
  BY Zenon, <1>2, <1>3 DEF IInv, TypeOK
<1>7. ASSUME NEW q \in Reconcilers
      PROVE  rec'[q] = rec[q] \/ TermOK(q)'
  BY Zenon, <1>2, <1>4, <1>5 DEF TermOK, IInv, TypeOK
<1> QED BY Zenon, <1>1, <1>6, <1>7, MarkStep, Combine DEF StoreKept

\* An abandoned pass holds nothing.
LEMMA AbandonPassKeeps ==
    ASSUME IInv, NEW r \in Reconcilers, AbandonPass(r)
    PROVE  IInv'
<1> DEFINE t == [rec[r] EXCEPT !.pass = "idle", !.todo = {}, !.cand = None]
<1>1. /\ leads(r) /\ rec[r] \in Term /\ PassOK(r)
      /\ UNCHANGED <<storeVars, etcdVars, indexReady, indexGen, unseen>>
  BY Zenon, TermTypes DEF AbandonPass, IInv, TermOK
<1>2. rec' = [rec EXCEPT ![r] = t] /\ rec'[r] = t
  BY Zenon DEF AbandonPass, IInv, TypeOK
<1>3. /\ t \in Term /\ t.pass = "idle" /\ t.gen = rec[r].gen
      /\ t.suspects = rec[r].suspects /\ t.round = rec[r].round
      /\ t.gates = rec[r].gates /\ t.member = rec[r].member
  BY Zenon, <1>1 DEF Term
<1> HIDE DEF t
<1>4. CandidateOK(r)' /\ PassOK(r)'
  BY Zenon, <1>1, <1>2, <1>3 DEF CandidateOK, PassOK, Counts, Scanning
<1> QED BY Zenon, <1>1, <1>2, <1>3, <1>4, PassStep

\* With the store and the generation at rest, what is missing stays the same.
LEMMA MissingSame ==
    ASSUME UNCHANGED storeVars
    PROVE  \A p \in Players : Missing(p)' <=> Missing(p)
BY Zenon DEF Missing, indexedGate, InState, storeVars

\* MGET: a session that is ONLINE becomes the candidate, with its own gate.
LEMMA ScanReadKeeps ==
    ASSUME IInv, NEW r \in Reconcilers, NEW p \in Players, ScanRead(r, p)
    PROVE  IInv'
<1> DEFINE g == indexedGate(session[p])
           c == [gate |-> g, player |-> p, raw |-> session[p]]
<1>1. /\ leads(r) /\ rec[r] \in Term /\ PassOK(r) /\ rec[r].pass = "scan"
      /\ rec[r].gen \in Int /\ indexGen \in Int
      /\ UNCHANGED <<storeVars, etcdVars, indexReady, indexGen, unseen>>
  BY Zenon, TermTypes DEF ScanRead, IInv, TermOK
<1>2. CASE g = NoGate
  <2> DEFINE t == [rec[r] EXCEPT !.todo = rec[r].todo \ {p}]
  <2>1. rec' = [rec EXCEPT ![r] = t] /\ rec'[r] = t
    BY Zenon, <1>2 DEF ScanRead, IInv, TypeOK
  <2>2. /\ t \in Term /\ t.pass = "scan" /\ t.todo = rec[r].todo \ {p} /\ t.gen = rec[r].gen
        /\ t.audit = rec[r].audit /\ t.restarted = rec[r].restarted
        /\ t.suspects = rec[r].suspects /\ t.round = rec[r].round
        /\ t.gates = rec[r].gates /\ t.member = rec[r].member
    BY Zenon, <1>1 DEF Term
  <2> HIDE DEF t
  <2>3. ~Missing(p)
    BY Zenon, <1>2, StoreAssumption DEF Missing
  <2>4. CandidateOK(r)' /\ PassOK(r)'
    BY Zenon, <1>1, <2>1, <2>2, <2>3, MissingSame DEF CandidateOK, PassOK, Counts
  <2> QED BY Zenon, <1>1, <2>1, <2>2, <2>4, PassStep
<1>3. CASE g # NoGate
  <2> DEFINE t == [rec[r] EXCEPT !.todo = rec[r].todo \ {p}, !.pass = "member", !.cand = c]
  <2>1. rec' = [rec EXCEPT ![r] = t] /\ rec'[r] = t
    BY Zenon, <1>3 DEF ScanRead, IInv, TypeOK
  <2>2. c \in Member /\ c.gate = g /\ c.player = p /\ c.raw = session[p] /\ c.gate \in Known
    BY Zenon, <1>3 DEF Member, IInv, TypeOK, StoreTypeOK, PlayerSession, indexedGate, InState, GatesKnown
  <2>3. indexedGate(c.raw) = c.gate
    BY Zenon
  <2> HIDE DEF c
  <2>4. /\ t \in Term /\ t.pass = "member" /\ t.todo = rec[r].todo \ {p} /\ t.gen = rec[r].gen
        /\ t.audit = rec[r].audit /\ t.restarted = rec[r].restarted /\ t.cand = c
        /\ t.suspects = rec[r].suspects /\ t.round = rec[r].round
        /\ t.gates = rec[r].gates /\ t.member = rec[r].member
    BY Zenon, <1>1, <2>2 DEF Term
  <2> HIDE DEF t
  <2>5. CandidateOK(r)'
    BY Zenon, <1>1, <2>1, <2>2, <2>3, <2>4 DEF CandidateOK, Known, etcdVars, indexedGate, InState
  <2>6. PassOK(r)'
    BY Zenon, <1>1, <2>1, <2>2, <2>4, MissingSame DEF PassOK, Counts, Scanning, storeVars
  <2> QED BY Zenon, <1>1, <2>1, <2>4, <2>5, <2>6, PassStep
<1> QED BY Zenon, <1>2, <1>3

\* SISMEMBER: the candidate is in its index now, or is to be repaired.
LEMMA ScanMemberKeeps ==
    ASSUME IInv, NEW r \in Reconcilers, ScanMember(r)
    PROVE  IInv'
<1> DEFINE c == rec[r].cand
           t == [rec[r] EXCEPT !.pass = IF c.player \in index[c.gate] THEN "ensure" ELSE "repair"]
<1>1. /\ leads(r) /\ rec[r] \in Term /\ PassOK(r) /\ CandidateOK(r) /\ rec[r].pass = "member"
      /\ rec[r].gen \in Int /\ indexGen \in Int
      /\ UNCHANGED <<storeVars, etcdVars, indexReady, indexGen, unseen>>
  BY Zenon, TermTypes DEF ScanMember, IInv, TermOK
<1>2. rec' = [rec EXCEPT ![r] = t] /\ rec'[r] = t
  BY Zenon DEF ScanMember, IInv, TypeOK
<1>3. /\ t \in Term /\ t.todo = rec[r].todo /\ t.gen = rec[r].gen
      /\ t.pass = IF c.player \in index[c.gate] THEN "ensure" ELSE "repair"
      /\ t.audit = rec[r].audit /\ t.restarted = rec[r].restarted /\ t.cand = c
      /\ t.suspects = rec[r].suspects /\ t.round = rec[r].round
      /\ t.gates = rec[r].gates /\ t.member = rec[r].member
  BY Zenon, <1>1 DEF Term
<1> HIDE DEF t
<1>4. CandidateOK(r)'
  BY Zenon, <1>1, <1>2, <1>3 DEF CandidateOK, Known, etcdVars, indexedGate, InState
<1>5. t.pass = "ensure" => \A p \in Players : Missing(p) => ~(c.player = p /\ c.raw = session[p])
  BY Zenon, <1>1, <1>3 DEF CandidateOK, Missing
<1>6. PassOK(r)'
  <2>1. Counts(r)' => Counts(r)
    BY Zenon, <1>1, <1>2, <1>3 DEF Counts, Scanning
  <2>2. ASSUME NEW p \in Players, Missing(p)', Counts(r)'
        PROVE  \/ p \in unseen' \cup rec'[r].todo
               \/ /\ rec'[r].pass \in {"member", "repair"}
                  /\ rec'[r].cand.player = p /\ rec'[r].cand.raw = session'[p]
    <3>1. Missing(p) /\ Counts(r) /\ session' = session
      BY Zenon, <1>1, <2>1, <2>2, MissingSame DEF storeVars
    <3>2. p \in unseen \cup rec[r].todo \/ (c.player = p /\ c.raw = session[p])
      BY Zenon, <1>1, <3>1 DEF PassOK
    <3> QED BY Zenon, <1>1, <1>2, <1>3, <1>5, <3>1, <3>2
  <2> QED BY Zenon, <1>1, <1>2, <1>3, <2>2 DEF PassOK
<1> QED BY Zenon, <1>1, <1>2, <1>3, <1>4, <1>6, PassStep

\* SADD to the registry of a gate the scan saw a session of.
LEMMA EnsureRegisteredKeeps ==
    ASSUME IInv, NEW r \in Reconcilers, EnsureRegistered(r)
    PROVE  IInv'
<1> DEFINE t == [rec[r] EXCEPT !.pass = "scan", !.cand = None]
<1>1. /\ leads(r) /\ rec[r] \in Term /\ RoundOK(r) /\ PassOK(r) /\ CandidateOK(r)
      /\ rec[r].pass = "ensure" /\ rec[r].gen \in Int /\ indexGen \in Int
  BY Zenon, TermTypes DEF EnsureRegistered, IInv, TermOK
<1>2. rec' = [rec EXCEPT ![r] = t] /\ rec'[r] = t
  BY Zenon DEF EnsureRegistered, IInv, TypeOK
<1>3. /\ t \in Term /\ t.todo = rec[r].todo /\ t.gen = rec[r].gen /\ t.pass = "scan"
      /\ t.audit = rec[r].audit /\ t.restarted = rec[r].restarted
      /\ t.suspects = rec[r].suspects /\ t.round = rec[r].round
      /\ t.gates = rec[r].gates /\ t.member = rec[r].member
  BY Zenon, <1>1 DEF Term
<1> HIDE DEF t
<1>4. /\ registry' = registry \cup {rec[r].cand.gate}
      /\ UNCHANGED <<session, ready, processing, token, payload, index>>
      /\ UNCHANGED <<etcdVars, indexReady, indexGen, unseen>>
  BY Zenon DEF EnsureRegistered
<1>5. rec[r].cand.gate \in Known /\ rec[r].cand.gate \in Gates
  BY Zenon, <1>1 DEF CandidateOK, Member
<1>6. StoreKept
  BY Zenon, <1>4, <1>5 DEF StoreKept, StoreTypeOK, RegistryCoversIndex, Missing, indexedGate, InState, IInv, TypeOK
<1>7. Accounted /\ EtcdStep
  BY Zenon, <1>4, <1>6 DEF StoreKept, Accounted, EtcdStep, Known, etcdVars
<1>8. RoundOK(r)'
  BY Zenon, <1>1, <1>2, <1>3, <1>7, RoundFrame
<1>9. CandidateOK(r)'
  BY Zenon, <1>2, <1>3 DEF CandidateOK
<1>10. PassOK(r)'
  BY Zenon, <1>1, <1>2, <1>3, <1>4, <1>6 DEF PassOK, Counts, Scanning, StoreKept
<1>11. GatesKnown'
  BY Zenon, <1>4, <1>5 DEF IInv, GatesKnown, Known, etcdVars, indexedGate, InState
<1> QED BY Zenon, <1>2, <1>3, <1>4, <1>6, <1>7, <1>8, <1>9, <1>10, <1>11, StoreTermStep

\* The repair script settles its candidate: indexed, or written again since.
LEMMA RepairMemberKeeps ==
    ASSUME IInv, NEW r \in Reconcilers, RepairMember(r)
    PROVE  IInv'
<1> DEFINE c == rec[r].cand
           t == [rec[r] EXCEPT !.pass = "scan", !.cand = None]
<1>1. /\ leads(r) /\ rec[r] \in Term /\ RoundOK(r) /\ PassOK(r) /\ CandidateOK(r)
      /\ rec[r].pass = "repair" /\ rec[r].gen \in Int /\ indexGen \in Int
  BY Zenon, TermTypes DEF RepairMember, IInv, TermOK
<1>2. rec' = [rec EXCEPT ![r] = t] /\ rec'[r] = t
  BY Zenon DEF RepairMember, IInv, TypeOK
<1>3. /\ t \in Term /\ t.todo = rec[r].todo /\ t.gen = rec[r].gen /\ t.pass = "scan"
      /\ t.audit = rec[r].audit /\ t.restarted = rec[r].restarted
      /\ t.suspects = rec[r].suspects /\ t.round = rec[r].round
      /\ t.gates = rec[r].gates /\ t.member = rec[r].member
  BY Zenon, <1>1 DEF Term
<1> HIDE DEF t
<1>4. /\ repairGateIndexMember(c) /\ UNCHANGED <<etcdVars, indexReady, indexGen>>
      /\ unseen' = IF session[c.player] = c.raw THEN unseen \ {c.player} ELSE unseen
  BY Zenon DEF RepairMember
<1>5. c \in Member /\ indexedGate(c.raw) = c.gate /\ c.gate \in Known
  BY Zenon, <1>1 DEF CandidateOK
<1>6. /\ StoreKept /\ session' = session
      /\ registry' \subseteq registry \cup {c.gate}
      /\ \A q \in Players : q = c.player /\ session[q] = c.raw => ~Missing(q)'
  BY Zenon, <1>4, <1>5, RepairKeeps DEF IInv, TypeOK
<1>7. Accounted
  BY Zenon, <1>4, <1>6 DEF StoreKept, Accounted
<1>8. EtcdStep
  BY Zenon, <1>4 DEF EtcdStep, Known, etcdVars
<1>9. RoundOK(r)'
  BY Zenon, <1>1, <1>2, <1>3, <1>8, RoundFrame
<1>10. CandidateOK(r)'
  BY Zenon, <1>2, <1>3 DEF CandidateOK
<1>11. PassOK(r)'
  <2>1. ASSUME NEW p \in Players, Missing(p)', Counts(r)'
        PROVE  p \in unseen' \cup rec'[r].todo
    <3>1. Missing(p) /\ ~(c.player = p /\ c.raw = session[p])
      BY Zenon, <1>6, <2>1 DEF StoreKept
    <3>2. Counts(r)
      BY Zenon, <1>1, <1>2, <1>3, <1>4, <2>1 DEF Counts, Scanning
    <3>3. p \in unseen \cup rec[r].todo
      BY Zenon, <1>1, <3>1, <3>2 DEF PassOK
    <3> QED BY Zenon, <1>2, <1>3, <1>4, <3>1, <3>3
  <2> QED BY Zenon, <1>1, <1>2, <1>3, <1>4, <2>1 DEF PassOK
<1>12. GatesKnown'
  BY Zenon, <1>4, <1>5, <1>6 DEF IInv, GatesKnown, Known, etcdVars, indexedGate, InState
<1>13. unseen' \subseteq unseen
  BY Zenon, <1>4
<1> QED BY Zenon, <1>2, <1>3, <1>4, <1>6, <1>7, <1>9, <1>10, <1>11, <1>12, <1>13, StoreTermStep

\* The prune begins once nothing is left to scan.
LEMMA BeginPruneKeeps ==
    ASSUME IInv, NEW r \in Reconcilers, BeginPrune(r)
    PROVE  IInv'
<1> DEFINE t == [rec[r] EXCEPT !.pass = "prune"]
<1>1. /\ leads(r) /\ rec[r] \in Term /\ PassOK(r) /\ rec[r].pass = "scan" /\ rec[r].todo = {}
      /\ UNCHANGED <<storeVars, etcdVars, indexReady, indexGen, unseen>>
  BY Zenon, TermTypes DEF BeginPrune, IInv, TermOK
<1>2. rec' = [rec EXCEPT ![r] = t] /\ rec'[r] = t
  BY Zenon DEF BeginPrune, IInv, TypeOK
<1>3. /\ t \in Term /\ t.todo = rec[r].todo /\ t.gen = rec[r].gen /\ t.pass = "prune"
      /\ t.audit = rec[r].audit /\ t.restarted = rec[r].restarted
      /\ t.suspects = rec[r].suspects /\ t.round = rec[r].round
      /\ t.gates = rec[r].gates /\ t.member = rec[r].member
  BY Zenon, <1>1 DEF Term
<1> HIDE DEF t
<1>4. CandidateOK(r)' /\ PassOK(r)'
  BY Zenon, <1>1, <1>2, <1>3, MissingSame DEF CandidateOK, PassOK, Counts, Scanning
<1> QED BY Zenon, <1>1, <1>2, <1>3, <1>4, PassStep

\* The prune judges a member by the session it reads.
LEMMA PruneReadKeeps ==
    ASSUME IInv, NEW r \in Reconcilers, NEW g \in Gates, NEW p \in Players, PruneRead(r, g, p)
    PROVE  IInv'
<1> DEFINE c == [gate |-> g, player |-> p, raw |-> session[p]]
           t == [rec[r] EXCEPT !.pass = "pruneAct", !.cand = c]
<1>1. /\ leads(r) /\ rec[r] \in Term /\ PassOK(r) /\ rec[r].pass = "prune"
      /\ UNCHANGED <<storeVars, etcdVars, indexReady, indexGen, unseen>>
      /\ classifyIndexedMember(session[p], g) # "onlineHere"
  BY Zenon, TermTypes DEF PruneRead, IInv, TermOK
<1>2. rec' = [rec EXCEPT ![r] = t] /\ rec'[r] = t
  BY Zenon DEF PruneRead, IInv, TypeOK
<1>3. c \in Member /\ c.gate = g /\ c.raw = session[p]
  BY Zenon DEF Member, IInv, TypeOK, StoreTypeOK
<1> HIDE DEF c
<1>4. /\ t \in Term /\ t.todo = rec[r].todo /\ t.gen = rec[r].gen /\ t.pass = "pruneAct"
      /\ t.audit = rec[r].audit /\ t.restarted = rec[r].restarted /\ t.cand = c
      /\ t.suspects = rec[r].suspects /\ t.round = rec[r].round
      /\ t.gates = rec[r].gates /\ t.member = rec[r].member
  BY Zenon, <1>1, <1>3 DEF Term
<1> HIDE DEF t
<1>5. CandidateOK(r)'
  BY Zenon, <1>1, <1>2, <1>3, <1>4 DEF CandidateOK, classifyIndexedMember, indexedGate, InState
<1>6. PassOK(r)'
  BY Zenon, <1>1, <1>2, <1>4, MissingSame DEF PassOK, Counts, Scanning
<1> QED BY Zenon, <1>1, <1>2, <1>4, <1>5, <1>6, PassStep

\* The prune acts on that judgement only while the session is the same.
LEMMA PruneActKeeps ==
    ASSUME IInv, NEW r \in Reconcilers, PruneAct(r)
    PROVE  IInv'
<1> DEFINE t == [rec[r] EXCEPT !.pass = "prune", !.cand = None]
<1>1. /\ leads(r) /\ rec[r] \in Term /\ RoundOK(r) /\ PassOK(r) /\ CandidateOK(r)
      /\ rec[r].pass = "pruneAct" /\ rec[r].gen \in Int /\ indexGen \in Int
  BY Zenon, TermTypes DEF PruneAct, IInv, TermOK
<1>2. rec' = [rec EXCEPT ![r] = t] /\ rec'[r] = t
  BY Zenon DEF PruneAct, IInv, TypeOK
<1>3. /\ t \in Term /\ t.todo = rec[r].todo /\ t.gen = rec[r].gen /\ t.pass = "prune"
      /\ t.audit = rec[r].audit /\ t.restarted = rec[r].restarted
      /\ t.suspects = rec[r].suspects /\ t.round = rec[r].round
      /\ t.gates = rec[r].gates /\ t.member = rec[r].member
  BY Zenon, <1>1 DEF Term
<1> HIDE DEF t
<1>4. pruneGateIndexMember(rec[r].cand) /\ UNCHANGED <<etcdVars, indexReady, indexGen, unseen>>
  BY Zenon DEF PruneAct
<1>5. StoreKept /\ registry' = registry /\ session' = session
  BY Zenon, <1>1, <1>4, PruneKeeps DEF CandidateOK, IInv, TypeOK
<1>6. Accounted /\ EtcdStep
  BY Zenon, <1>4, <1>5 DEF StoreKept, Accounted, EtcdStep, Known, etcdVars
<1>7. RoundOK(r)'
  BY Zenon, <1>1, <1>2, <1>3, <1>6, RoundFrame
<1>8. CandidateOK(r)'
  BY Zenon, <1>2, <1>3 DEF CandidateOK
<1>9. PassOK(r)'
  BY Zenon, <1>1, <1>2, <1>3, <1>4, <1>5 DEF PassOK, Counts, Scanning, StoreKept
<1>10. GatesKnown'
  BY Zenon, <1>4, <1>5 DEF IInv, GatesKnown, Known, etcdVars, indexedGate, InState
<1> QED BY Zenon, <1>2, <1>3, <1>4, <1>5, <1>6, <1>7, <1>8, <1>9, <1>10, StoreTermStep

\* Only a backfill that no failover met goes on to announce.
LEMMA FinishPassKeeps ==
    ASSUME IInv, NEW r \in Reconcilers, FinishPass(r)
    PROVE  IInv'
<1> DEFINE t == [rec[r] EXCEPT !.pass = IF rec[r].audit \/ rec[r].restarted THEN "idle" ELSE "announce"]
<1>1. /\ leads(r) /\ rec[r] \in Term /\ PassOK(r) /\ rec[r].pass = "prune"
      /\ UNCHANGED <<storeVars, etcdVars, indexReady, indexGen, unseen>>
  BY Zenon, TermTypes DEF FinishPass, IInv, TermOK
<1>2. rec' = [rec EXCEPT ![r] = t] /\ rec'[r] = t
  BY Zenon DEF FinishPass, IInv, TypeOK
<1>3. /\ t \in Term /\ t.todo = rec[r].todo /\ t.gen = rec[r].gen
      /\ t.pass = IF rec[r].audit \/ rec[r].restarted THEN "idle" ELSE "announce"
      /\ t.audit = rec[r].audit /\ t.restarted = rec[r].restarted
      /\ t.suspects = rec[r].suspects /\ t.round = rec[r].round
      /\ t.gates = rec[r].gates /\ t.member = rec[r].member
  BY Zenon, <1>1 DEF Term
<1> HIDE DEF t
<1>4. CandidateOK(r)'
  BY Zenon, <1>2, <1>3 DEF CandidateOK
<1>5. PassOK(r)'
  BY Zenon, <1>1, <1>2, <1>3, MissingSame DEF PassOK, Counts, Scanning
<1> QED BY Zenon, <1>1, <1>2, <1>3, <1>4, <1>5, PassStep

\* setGateIndexReadyIfGen: a backfill of the current generation has nothing left
\* to scan or repair, so what is missing was written behind its back.
LEMMA AnnounceKeeps ==
    ASSUME IInv, NEW r \in Reconcilers, Announce(r)
    PROVE  IInv'
<1> DEFINE t == [rec[r] EXCEPT !.pass = "idle"]
<1>1. /\ leads(r) /\ rec[r] \in Term /\ RoundOK(r) /\ PassOK(r) /\ rec[r].pass = "announce"
      /\ UNCHANGED <<storeVars, etcdVars, indexGen, unseen>>
      /\ indexReady' = (indexReady \/ rec[r].gen = indexGen)
  BY Zenon, TermTypes DEF Announce, IInv, TermOK
<1>2. rec' = [rec EXCEPT ![r] = t] /\ rec'[r] = t
  BY Zenon DEF Announce, IInv, TypeOK
<1>3. /\ t \in Term /\ t.gen = rec[r].gen /\ t.pass = "idle"
      /\ t.suspects = rec[r].suspects /\ t.round = rec[r].round
      /\ t.gates = rec[r].gates /\ t.member = rec[r].member
  BY Zenon, <1>1 DEF Term
<1> HIDE DEF t
<1>4. CandidateOK(r)' /\ PassOK(r)'
  BY Zenon, <1>1, <1>2, <1>3 DEF CandidateOK, PassOK, Counts, Scanning
<1>5. StoreKept /\ EtcdStep /\ IndexStep /\ GatesKnown'
  BY Zenon, <1>1, QuietStep
<1>6. RoundOK(r)'
  BY Zenon, <1>1, <1>2, <1>3, <1>5, RoundFrame
<1>7. TypeOK'
  <2>1. indexReady' \in BOOLEAN
    BY Zenon, <1>1 DEF IInv, TypeOK
  <2>2. rec' \in [Reconcilers -> Term \cup {None}]
    BY Zenon, <1>2, <1>3 DEF IInv, TypeOK
  <2> QED BY Zenon, <1>1, <2>1, <2>2, QuietStep
<1>8. ASSUME NEW q \in Reconcilers
      PROVE  TermOK(q)'
  <2>1. CASE q = r
    BY Zenon, <1>4, <1>6, <2>1 DEF TermOK
  <2>2. CASE q # r
    <3>1. rec'[q] = rec[q]
      BY Zenon, <1>2, <2>2 DEF IInv, TypeOK
    <3> QED BY Zenon, <1>5, <3>1, TermFrame DEF IInv
  <2> QED BY Zenon, <2>1, <2>2
<1>9. ReadyMeansIndexed'
  <2>1. ASSUME indexReady', NEW p \in Players, Missing(p)
        PROVE  p \in unseen
    <3>1. CASE indexReady
      BY Zenon, <2>1, <3>1 DEF IInv, ReadyMeansIndexed, Missing
    <3>2. CASE rec[r].gen = indexGen
      BY Zenon, <1>1, <2>1, <3>2 DEF PassOK, Counts, Scanning
    <3> QED BY Zenon, <1>1, <2>1, <3>1, <3>2
  <2>2. ASSUME indexReady', NEW p \in Players, NEW g \in Gates,
               indexedGate(session'[p]) = g, p \notin index'[g]
        PROVE  p \in unseen'
    <3>1. Missing(p)
      BY Zenon, <1>1, <2>2 DEF Missing, storeVars
    <3> QED BY Zenon, <1>1, <2>1, <2>2, <3>1
  <2> QED BY Zenon, <2>2 DEF ReadyMeansIndexed, indexedGate, InState
<1> QED BY Zenon, <1>5, <1>7, <1>8, <1>9 DEF IInv, StoreKept

-----------------------------------------------------------------------------
(* The theorems *)

\* The initial state satisfies the invariant.
LEMMA InitOK == Init => IInv
<1> SUFFICES ASSUME Init PROVE IInv
  BY Zenon
<1>1. TypeOK
  <2>1. StoreTypeOK
    BY Zenon DEF Init, StoreTypeOK, Deadline
  <2>2. indexGen \in 0..MaxIndexGen /\ rec \in [Reconcilers -> Term \cup {None}]
    BY ReconcilerAssumption DEF Init
  <2>3. legacy \in BOOLEAN /\ indexReady \in BOOLEAN
    BY Zenon DEF Init
  <2> QED BY Zenon, <2>1, <2>2, <2>3 DEF Init, TypeOK
<1>2. GatesKnown
  BY Zenon DEF Init, GatesKnown, indexedGate, InState
<1>3. RegistryCoversIndex /\ ReadyMeansIndexed
  BY Zenon DEF Init, RegistryCoversIndex, ReadyMeansIndexed
<1>4. \A r \in Reconcilers : TermOK(r)
  BY Zenon DEF Init, TermOK, leads
<1> QED BY Zenon, <1>1, <1>2, <1>3, <1>4 DEF IInv

\* Every step of a term keeps the invariant.
LEMMA ReconcileKeeps ==
    ASSUME IInv, NEW r \in Reconcilers, Reconcile(r)
    PROVE  IInv'
<1>1. CASE BeginTerm(r) \/ EndTerm(r)
  BY Zenon, <1>1, BeginTermKeeps, EndTermKeeps
<1>2. CASE IndexLoop(r)
  BY Zenon, <1>2, CheckWritersKeeps, MarkLegacyKeeps, ReadRegistryKeeps, ReadLiveKeeps,
     SweepReadKeeps, SweepActKeeps, ReleaseKeeps, EndRoundKeeps DEF IndexLoop
<1>3. CASE RepairLoop(r)
  BY Zenon, <1>3, BeginPassKeeps, ReadGenKeeps, CheckBeforePassKeeps, MarkBeforePassKeeps,
     ScanReadKeeps, ScanMemberKeeps, EnsureRegisteredKeeps, RepairMemberKeeps,
     BeginPruneKeeps, PruneReadKeeps, PruneActKeeps, FinishPassKeeps, AnnounceKeeps,
     AbandonPassKeeps DEF RepairLoop
<1> QED BY Zenon, <1>1, <1>2, <1>3 DEF Reconcile

\* Every step keeps the invariant.
LEMMA NextKeeps == IInv /\ [Next]_vars => IInv'
<1> SUFFICES ASSUME IInv, [Next]_vars PROVE IInv'
  BY Zenon
<1>1. CASE \E p \in Players : Write(p)
  BY Zenon, <1>1, SetSessionKeeps, SetDisconnectingKeeps, EndSessionKeeps, LegacyWriteKeeps DEF Write
<1>2. CASE Surroundings
  BY Zenon, <1>2, SurroundingsKeep
<1>3. CASE ReadyExpires
  BY Zenon, <1>3, ReadyExpiresKeeps
<1>4. CASE RedisFailover
  BY Zenon, <1>4, RedisFailoverKeeps
<1>5. CASE \E r \in Reconcilers : Reconcile(r)
  BY Zenon, <1>5, ReconcileKeeps
<1>6. CASE UNCHANGED vars
  <2>1. UNCHANGED <<storeVars, etcdVars, indexReady, indexGen, unseen, rec>>
    BY Zenon, <1>6 DEF vars, storeVars, etcdVars
  <2>2. TypeOK'
    BY Zenon, <2>1, QuietStep DEF IInv, TypeOK
  <2> QED BY Zenon, <2>1, <2>2, QuietStep, Combine DEF StoreKept
<1> QED BY Zenon, <1>1, <1>2, <1>3, <1>4, <1>5, <1>6 DEF Next

\* The inductive invariant holds in every reachable state: each term knows only
\* what was true when it read it, and that is enough for its guarded scripts.
THEOREM ReconcilerInvariance == Spec => []IInv
BY InitOK, NextKeeps, PTL DEF Spec

\* Type correctness of the store, of etcd's view and of every term.
THEOREM ReconcilerTypes == Spec => []TypeOK
<1>1. IInv => TypeOK
  BY Zenon DEF IInv
<1> QED BY <1>1, ReconcilerInvariance, PTL

\* I2: a gate whose index has members is in the registry, for any number of
\* gates, players, backfills and releases (gate_session_index.go:98-106).
THEOREM RegistryCovers == Spec => []RegistryCoversIndex
<1>1. IInv => RegistryCoversIndex
  BY Zenon DEF IInv
<1> QED BY <1>1, ReconcilerInvariance, PTL

\* While the ready marker stands, only a legacy write that no writer check has
\* caught since is missing from the index (session_reconciler.go:60-61, 845-848).
THEOREM ReadyIndexIsComplete == Spec => []ReadyMeansIndexed
<1>1. IInv => ReadyMeansIndexed
  BY Zenon DEF IInv
<1> QED BY <1>1, ReconcilerInvariance, PTL

\* Among the steps of a term only SweepAct changes sessions.
LEMMA OnlySweepActEnds ==
    ASSUME NEW r \in Reconcilers, IInv, Reconcile(r), session' # session
    PROVE  SweepAct(r)
<1>1. CASE BeginTerm(r) \/ EndTerm(r)
  BY Zenon, <1>1 DEF BeginTerm, EndTerm, storeVars
<1>2. CASE IndexLoop(r)
  BY Zenon, <1>2 DEF IndexLoop, CheckWriters, MarkLegacy, ReadRegistry, ReadLive, SweepRead,
              Release, EndRound, storeVars
<1>3. CASE RepairLoop(r)
  BY Zenon, <1>3 DEF RepairLoop, BeginPass, ReadGen, CheckBeforePass, MarkBeforePass, ScanRead,
              ScanMember, EnsureRegistered, RepairMember, repairGateIndexMember, BeginPrune,
              PruneRead, PruneAct, pruneGateIndexMember, FinishPass, Announce, AbandonPass, storeVars
<1> QED BY Zenon, <1>1, <1>2, <1>3 DEF Reconcile

\* The reconciler ends only ONLINE sessions of gates that have been missing from
\* etcd, with a lease, however stale what it read (session_reconciler.go:33-45).
THEOREM RegisteredGatesAreSpared == Spec => SparesRegistered
<1>1. IInv /\ [Next]_vars => [SparesRegisteredStep]_vars
  <2> SUFFICES ASSUME IInv, Next, NEW q \in Reconcilers, rec'[q] # rec[q],
                      NEW p \in Players, session'[p] # session[p]
               PROVE  /\ InState(session[p], Online)
                      /\ session[p].gate \in lapsed
                      /\ ready'[p] = "pending"
    BY Zenon DEF SparesRegisteredStep
  <2>1. PICK r \in Reconcilers : Reconcile(r)
    BY Zenon DEF Next, Write, SetSession, SetDisconnecting, EndSession, LegacyWrite, Surroundings,
           ReadyExpires, RedisFailover, storeVars
  <2>2. SweepAct(r)
    BY Zenon, <2>1, OnlySweepActEnds
  <2>3. indexedGate(session[p]) = rec[r].member.gate /\ ready'[p] = "pending"
    BY Zenon, <2>2, SweepActStore
  <2>4. rec[r].member \in Member /\ rec[r].member.gate \in lapsed
    BY Zenon, <2>2 DEF SweepAct, IInv, TermOK, RoundOK
  <2>5. rec[r].member.gate \in Gates
    BY Zenon, <2>4 DEF Member
  <2> QED BY Zenon, <2>3, <2>4, <2>5, StoreAssumption DEF indexedGate
<1> QED BY <1>1, ReconcilerInvariance, PTL DEF Spec, SparesRegistered
================================================================================
