------------------------ MODULE SessionCleanupProofs ------------------------
(***************************************************************************)
(* TLAPS proofs about SessionCleanup: player_locator and the locations of  *)
(* scene_manager, for any number of players, handlers and monitors; the    *)
(* last part, that no location is left behind, for session RPCs that do    *)
(* not overlap.                                                            *)
(***************************************************************************)
EXTENDS SessionCleanup, LocatorServiceProofs

-----------------------------------------------------------------------------
(* The inductive invariant *)

PlaceTypeOK ==
    /\ SceneTypeOK
    /\ entering \in [Players -> SUBSET placementIdentity]
    /\ overtaken \subseteq Calls \cup Monitors
    /\ minted \in [Players -> 0..MaxGeneration]
    /\ lost \in [Players -> BOOLEAN]

\* A login of p whose SetSession or Reconnect is on its way with a generation
\* of its own.
Fresh(d, p) ==
    /\ call[d].op = "replace" /\ call[d].player = p
    /\ call[d].next # call[d].expected /\ call[d].next.gen # 0

\* The generations minted for p before every login that is under way.
PastGens(p) ==
    {x \in 0..MaxGeneration :
        x <= minted[p] /\ \A d \in Calls : Fresh(d, p) => x < call[d].next.gen}

\* The player lock, what the logins under way carry, and idle handlers.
Logins ==
    /\ \A d \in Calls : call[d].op = "idle" => call[d] = IdleCall
    /\ \A c, d \in Calls :
          call[c].op = "replace" /\ call[d].op = "replace" /\ call[c].player = call[d].player
          => c = d
    /\ \A d \in Calls, p \in Players : Fresh(d, p) => call[d].next.gen <= minted[p]

\* Every generation that is stored or remembered somewhere is past.
SessionsPast == \A p \in Players : session[p] # None => session[p].gen \in PastGens(p)
PlacesPast == \A p \in Players : \A id \in placements(p) : id.gen \in PastGens(p)
PayloadsPast == \A p \in Players : payload[p] # None => payload[p].gen \in PastGens(p)
CallsPast ==
    \A c \in Calls, p \in Players :
        call[c].op \in {"disconnect", "delete", "leave", "enqueue"} /\ call[c].player = p =>
            /\ call[c].next.sid = call[c].expected.sid
            /\ call[c].next.gen = call[c].expected.gen
            /\ call[c].expected.gen \in PastGens(p)
BatchesPast ==
    \A m \in Monitors : \A b \in monitor[m].batch :
        b.payload # None => b.payload.gen \in PastGens(b.player)

\* The generations below that of the present session of p.
OlderGens(p) ==
    {x \in 0..MaxGeneration : session[p] # None /\ session[p].gen # 0 => x < session[p].gen}

\* Whoever calls LeaveScene does so for a session older than the present one.
CallersOlder ==
    \A c \in Calls, p \in Players :
        call[c].op \in {"leave", "enqueue"} /\ call[c].player = p =>
            call[c].expected.gen \in OlderGens(p)
NotifiersOlder ==
    \A m \in Monitors, p \in Players :
        monitor[m].pc = "notify" /\ monitor[m].claim.player = p =>
            /\ monitor[m].claim.payload # None
            /\ monitor[m].claim.payload.gen \in OlderGens(p)

\* A record with a generation covers the placements it will have to clean up.
Covered ==
    \A p \in Players :
        session[p] # None /\ session[p].gen # 0 =>
            \A id \in placements(p) : deletes(id, identityOf(session[p]))

StoredPast == SessionsPast /\ PlacesPast /\ PayloadsPast /\ CallsPast /\ BatchesPast

CInv ==
    /\ IInv /\ PlaceTypeOK /\ Logins /\ StoredPast
    /\ CallersOlder /\ NotifiersOlder /\ Covered

-----------------------------------------------------------------------------
(* Steps of player_locator *)

\* Every step of the composition is one of player_locator, or leaves it alone.
LEMMA LocatorSteps == ASSUME CleanupNext PROVE [Next]_vars
<1>1. ASSUME NEW c \in Calls, NEW p \in Players, BeginCall(c, p) PROVE Next
  BY Zenon, <1>1 DEF BeginCall, RpcStep, Rpc, Next
<1>2. ASSUME NEW c \in Calls, CommitLogin(c) \/ CommitCall(c) PROVE Next
  BY Zenon, <1>2 DEF CommitLogin, CommitCall, RpcStep, Rpc, Next
<1>3. ASSUME NEW c \in Calls, NEW ok \in BOOLEAN, LeaveCall(c, ok) PROVE Next
  BY Zenon, <1>3 DEF LeaveCall, RpcStep, Rpc, Next
<1>4. ASSUME NEW c \in Calls, DropCall(c) PROVE Next
  BY Zenon, <1>4 DEF DropCall, RpcStep, Rpc, Next
<1>5. ASSUME NEW m \in Monitors, QuietMonitor(m) PROVE Next
  BY Zenon, <1>5 DEF QuietMonitor, MonitorStep, Monitoring, Next
<1>6. ASSUME NEW m \in Monitors, NEW published \in BOOLEAN, NEW ok \in BOOLEAN,
             NotifyScene(m, published, ok)
      PROVE  Next
  BY Zenon, <1>6 DEF NotifyScene, MonitorStep, Monitoring, Next
<1>7. ASSUME NEW p \in Players,
             (\E id \in entering[p] : Enter(p, id)) \/ ChangeScene(p) \/ Holder(p)
      PROVE  UNCHANGED vars
  BY Zenon, <1>7 DEF Enter, ChangeScene, Holder
<1>8. ASSUME Time PROVE Next
  BY Zenon, <1>8 DEF Next
<1> QED BY Zenon, <1>1, <1>2, <1>3, <1>4, <1>5, <1>6, <1>7, <1>8 DEF CleanupNext

\* Nothing of player q changes in Redis, apart from the gate index.
Same(q) ==
    /\ session'[q] = session[q] /\ ready'[q] = ready[q] /\ processing'[q] = processing[q]
    /\ token'[q] = token[q] /\ payload'[q] = payload[q]

\* The record of p becomes s, its lease r, and its claim is dropped.
Written(p, s, r) ==
    /\ session'[p] = s /\ ready'[p] = r /\ processing'[p] = "none"
    /\ token'[p] = NoToken /\ payload'[p] = None
    /\ \A q \in Players \ {p} : Same(q)

\* replaceSessionAndCancelLease writes over the record it expects, or nothing.
LEMMA ReplaceEffect ==
    ASSUME StoreTypeOK, NEW p \in Players, NEW e, NEW n, replaceSessionAndCancelLease(p, e, n)
    PROVE  \/ \A q \in Players : Same(q)
           \/ /\ session[p] = e /\ (e = None => ~CleanupPending(p))
              /\ Written(p, n, "none")
BY DEF StoreTypeOK, replaceSessionAndCancelLease, replaceSessionResult, storeVars, dropClaim,
       Same, Written

\* transitionToDisconnecting writes over the record it expects, or nothing.
LEMMA DisconnectEffect ==
    ASSUME StoreTypeOK, NEW p \in Players, NEW e, NEW n, transitionToDisconnecting(p, e, n)
    PROVE  \/ \A q \in Players : Same(q)
           \/ session[p] = e /\ Written(p, n, "pending")
BY DEF StoreTypeOK, transitionToDisconnecting, storeVars, dropClaim, Same, Written

\* deleteSessionIfUnchanged deletes the record it expects, or nothing.
LEMMA DeleteEffect ==
    ASSUME StoreTypeOK, NEW p \in Players, NEW e, deleteSessionIfUnchanged(p, e)
    PROVE  \/ session[p] # e /\ \A q \in Players : Same(q)
           \/ session[p] = e /\ Written(p, None, "none")
BY DEF StoreTypeOK, deleteSessionIfUnchanged, storeVars, dropClaim, Same, Written

\* enqueueOfflineCleanup queues the snapshot while there is no session.
LEMMA EnqueueEffect ==
    ASSUME StoreTypeOK, NEW p \in Players, NEW s, enqueueOfflineCleanup(p, s)
    PROVE  \/ session[p] # None /\ \A q \in Players : Same(q)
           \/ /\ session' = session /\ token' = token /\ processing' = processing
              /\ session[p] = None /\ payload'[p] = s /\ ready'[p] # "none"
              /\ \A q \in Players \ {p} : Same(q)
BY Zenon DEF StoreTypeOK, enqueueOfflineCleanup, storeVars, Same

\* An unchanged store is unchanged for every player.
LEMMA StoreSame == ASSUME UNCHANGED storeVars PROVE \A q \in Players : Same(q)
BY Zenon DEF storeVars, Same

-----------------------------------------------------------------------------
(* Generations *)

\* While no login begins, what is past stays past, and so does the player lock.
LEMMA PastKept ==
    ASSUME Logins, UNCHANGED minted,
           \A d \in Calls : \/ call'[d] \in {call[d], IdleCall}
                            \/ call'[d].op \in {"leave", "enqueue"}
    PROVE  Logins' /\ \A p \in Players : PastGens(p) \subseteq PastGens(p)'
<1>1. \A d \in Calls, p \in Players : Fresh(d, p)' => Fresh(d, p) /\ call'[d] = call[d]
  BY DEF Fresh, IdleCall
<1>2. \A p \in Players : PastGens(p) \subseteq PastGens(p)'
  BY Zenon, <1>1 DEF PastGens
<1>3. Logins'
  <2>1. \A c, d \in Calls :
          call'[c].op = "replace" /\ call'[d].op = "replace" /\ call'[c].player = call'[d].player
          => c = d
    BY DEF Logins, IdleCall
  <2>0. \A d \in Calls : call'[d].op = "idle" => call'[d] = IdleCall
    BY Zenon DEF Logins
  <2>2. \A d \in Calls, p \in Players : Fresh(d, p)' => call'[d].next.gen <= minted'[p]
    BY Zenon, <1>1 DEF Logins
  <2> QED BY Zenon, <2>0, <2>1, <2>2 DEF Logins
<1> QED BY Zenon, <1>2, <1>3

\* The generation that a login commits is past from then on: the lock keeps
\* every other login of the player out.
LEMMA CommittedIsPast ==
    ASSUME CInv, UNCHANGED minted, NEW c \in Calls, NEW p \in Players,
           Fresh(c, p), finish(c)
    PROVE  call[c].next.gen \in PastGens(p)'
<1>1. call[c].next \in PlayerSession
  BY Zenon DEF CInv, IInv, CallCoherent, Fresh
<1>2. call[c].next.gen \in 0..MaxGeneration /\ call[c].next.gen <= minted'[p]
  BY Zenon, <1>1 DEF CInv, Logins, PlayerSession
<1>3. \A d \in Calls : ~Fresh(d, p)'
  BY Zenon DEF CInv, IInv, TypeOK, Logins, Fresh, finish, IdleCall
<1> QED BY Zenon, <1>2, <1>3 DEF PastGens

\* A past generation is below that of a login under way.
LEMMA FreshIsNewer ==
    ASSUME NEW c \in Calls, NEW p \in Players, Fresh(c, p), NEW x \in PastGens(p)
    PROVE  x < call[c].next.gen
BY Zenon DEF PastGens

\* What is older than the session stays older, unless a login brings a
\* generation that is not above it.
LEMMA OlderKept ==
    ASSUME NEW p \in Players, NEW x \in OlderGens(p),
           \/ session'[p] \in {session[p], None}
           \/ session'[p].gen = 0
           \/ session[p] # None /\ session'[p].gen = session[p].gen
           \/ x < session'[p].gen
    PROVE  x \in OlderGens(p)'
BY Zenon DEF OlderGens

\* What is kept as it is, or taken away, stays past.
LEMMA StoresKept ==
    ASSUME StoredPast, \A p \in Players : PastGens(p) \subseteq PastGens(p)'
    PROVE  /\ \A p \in Players : session'[p] \in {session[p], None} /\ session'[p] # None
                                 => session'[p].gen \in PastGens(p)'
           /\ \A p \in Players : \A id \in placements(p) : id.gen \in PastGens(p)'
           /\ \A p \in Players : payload'[p] \in {payload[p], session[p], None} /\ payload'[p] # None
                                 => payload'[p].gen \in PastGens(p)'
<1>1. ASSUME NEW p \in Players, session'[p] \in {session[p], None}, session'[p] # None
      PROVE  session'[p].gen \in PastGens(p)'
  BY Zenon, <1>1 DEF StoredPast, SessionsPast
<1>2. ASSUME NEW p \in Players, NEW id \in placements(p) PROVE id.gen \in PastGens(p)'
  BY Zenon, <1>2 DEF StoredPast, PlacesPast
<1>3. ASSUME NEW p \in Players, payload'[p] \in {payload[p], session[p], None}, payload'[p] # None
      PROVE  payload'[p].gen \in PastGens(p)'
  BY Zenon, <1>3 DEF StoredPast, PayloadsPast, SessionsPast
<1> QED BY Zenon, <1>1, <1>2, <1>3

\* Batches that monitors keep stay past.
LEMMA BatchesKept ==
    ASSUME BatchesPast, monitor \in [Monitors -> Monitor],
           \A m \in Monitors : monitor'[m].batch \subseteq monitor[m].batch,
           \A p \in Players : PastGens(p) \subseteq PastGens(p)'
    PROVE  BatchesPast'
<1> SUFFICES ASSUME NEW m \in Monitors, NEW b \in monitor'[m].batch, b.payload # None
             PROVE  b.payload.gen \in PastGens(b.player)'
  BY Zenon DEF BatchesPast
<1>1. b \in monitor[m].batch
  BY Zenon
<1>2. b.player \in Players
  BY Zenon, <1>1, BatchTypes
<1> QED BY Zenon, <1>1, <1>2 DEF BatchesPast

-----------------------------------------------------------------------------
(* Steps of a handler *)

\* The call of a handler: whose it is and what it carries.
LEMMA CallFacts ==
    ASSUME IInv, NEW c \in Calls, call[c].op # "idle"
    PROVE  /\ call[c].player \in Players
           /\ call[c].next \in PlayerSession
           /\ call[c].expected \in PlayerSession \cup {None}
           /\ call[c].op # "replace" => call[c].expected \in PlayerSession
BY Zenon DEF IInv, TypeOK, CallCoherent, Call

\* A handler that begins: its call is for a player whose record it has read,
\* a login carries a new generation under the lock, the others the one they
\* read.
LEMMA BeginFacts ==
    ASSUME CInv, IInv', NEW c \in Calls, NEW p \in Players, BeginCall(c, p)
    PROVE  /\ UNCHANGED storeVars
           /\ \A d \in Calls \ {c} : call'[d] = call[d]
           /\ call'[c].player = p /\ call'[c].expected = session[p]
           /\ call'[c].op \in {"replace", "disconnect", "delete"}
           /\ call'[c].op # "replace" =>
                /\ call'[c].expected # None
                /\ call'[c].next.sid = session[p].sid /\ call'[c].next.gen = session[p].gen
           /\ call'[c].op = "delete" => call'[c].next.state = Disconnecting
<1>t. call \in [Calls -> Call] /\ session[p] \in PlayerSession \cup {None}
  BY Zenon DEF CInv, IInv, TypeOK, StoreTypeOK
<1>1. ASSUME NEW s \in PlayerSession, SetSession(c, p, s)
      PROVE  \E n : begin(c, "replace", p, n)
  BY Zenon, <1>1 DEF SetSession
<1>2. ASSUME NEW sid, NEW gate, NEW account, NEW gen, Reconnect(c, p, sid, gate, account, gen)
      PROVE  \E n : begin(c, "replace", p, n)
  BY Zenon, <1>2 DEF Reconnect
<1>3. ASSUME NEW sid, NEW gate, SetDisconnecting(c, p, sid, gate)
      PROVE  \E n : /\ begin(c, "disconnect", p, n) /\ session[p] # None
                    /\ n.sid = session[p].sid /\ n.gen = session[p].gen
  <2>1. session[p] \in PlayerSession
    BY Zenon, <1>t, <1>3 DEF SetDisconnecting, InState
  <2> DEFINE n == [session[p] EXCEPT !.state = Disconnecting, !.ver = @ + 1]
  <2>2. n.sid = session[p].sid /\ n.gen = session[p].gen
    BY Zenon, <2>1 DEF PlayerSession
  <2>3. begin(c, "disconnect", p, n)
    BY Zenon, <1>3 DEF SetDisconnecting
  <2> HIDE DEF n
  <2> QED BY Zenon, <2>1, <2>2, <2>3, NoneAssumption
<1>4. ASSUME NEW sid, NEW ver, NEW gate, MarkOffline(c, p, sid, ver, gate)
      PROVE  \E n : /\ begin(c, "delete", p, n) /\ session[p] # None
                    /\ n.state = Disconnecting
                    /\ n.sid = session[p].sid /\ n.gen = session[p].gen
  <2>1. session[p] \in PlayerSession
    BY Zenon, <1>t, <1>4 DEF MarkOffline
  <2> DEFINE n == retrySession(session[p])
  <2>2. n.sid = session[p].sid /\ n.gen = session[p].gen /\ n.state = Disconnecting
    BY Zenon, <2>1 DEF retrySession, PlayerSession
  <2>3. begin(c, "delete", p, n)
    BY Zenon, <1>4 DEF MarkOffline
  <2> HIDE DEF n
  <2> QED BY Zenon, <2>1, <2>2, <2>3, NoneAssumption
<1>5. ASSUME NEW op, NEW n, begin(c, op, p, n)
      PROVE  /\ UNCHANGED storeVars
             /\ \A d \in Calls \ {c} : call'[d] = call[d]
             /\ call'[c].op = op /\ call'[c].player = p
             /\ call'[c].expected = session[p] /\ call'[c].next = n
  BY Zenon, <1>t, <1>5 DEF begin
<1>6. \E op, n : /\ begin(c, op, p, n) /\ op \in {"replace", "disconnect", "delete"}
                 /\ op # "replace" => /\ session[p] # None
                                      /\ n.sid = session[p].sid /\ n.gen = session[p].gen
                 /\ op = "delete" => n.state = Disconnecting
  BY Zenon, <1>1, <1>2, <1>3, <1>4 DEF BeginCall, BeginRpc
<1> QED BY Zenon, <1>5, <1>6

\* A beginning handler: a login's generation is above all that were minted.
LEMMA BeginPlace ==
    ASSUME CInv, IInv', NEW c \in Calls, NEW p \in Players, BeginCall(c, p)
    PROVE  CInv'
<1>f. /\ UNCHANGED storeVars
      /\ \A d \in Calls \ {c} : call'[d] = call[d]
      /\ call'[c].player = p /\ call'[c].expected = session[p]
      /\ call'[c].op \in {"replace", "disconnect", "delete"}
      /\ call'[c].op # "replace" =>
           /\ call'[c].expected # None
           /\ call'[c].next.sid = session[p].sid /\ call'[c].next.gen = session[p].gen
  BY Zenon, BeginFacts
<1>u. UNCHANGED <<monitor, location, released, entering, overtaken, lost, session, payload>>
  BY Zenon, <1>f DEF BeginCall, placeVars, flightVars, storeVars
<1>p. \A q \in Players : placements(q)' = placements(q)
  BY Zenon, <1>u DEF placements
<1>n. call'[c].next \in PlayerSession
  BY Zenon, <1>f DEF IInv, CallCoherent
<1> DEFINE gen == call'[c].next.gen
<1>g. gen \in 0..MaxGeneration
  BY Zenon, <1>n DEF PlayerSession
<1>m. /\ minted \in [Players -> 0..MaxGeneration]
      /\ call'[c].op = "replace" /\ call'[c].next # call'[c].expected /\ gen # 0 => gen > minted[p]
      /\ minted' = [minted EXCEPT ![p] = IF call'[c].op = "replace" /\ gen > @ THEN gen ELSE @]
  BY Zenon, <1>f DEF BeginCall, mint, CInv, PlaceTypeOK
<1> HIDE DEF gen
<1>1. PlaceTypeOK'
  BY Zenon, <1>u, <1>m, <1>g DEF CInv, PlaceTypeOK, SceneTypeOK
<1>2. \A q \in Players : minted[q] \in Nat /\ minted'[q] \in Nat /\ minted[q] <= minted'[q]
  BY <1>m, <1>g, StoreAssumption
<1>3. \A d \in Calls, q \in Players : Fresh(d, q)' =>
          \/ d = c /\ q = p /\ gen > minted[p] /\ minted'[p] = gen
          \/ d # c /\ Fresh(d, q) /\ call'[d] = call[d]
  <2>1. ASSUME NEW q \in Players, Fresh(c, q)'
        PROVE  q = p /\ gen > minted[p] /\ minted'[p] = gen
    BY Zenon, <2>1, <1>f, <1>m DEF Fresh, gen
  <2>2. ASSUME NEW d \in Calls, NEW q \in Players, Fresh(d, q)', d # c
        PROVE  Fresh(d, q) /\ call'[d] = call[d]
    BY Zenon, <2>2, <1>f DEF Fresh
  <2> QED BY Zenon, <2>1, <2>2
<1>4. \A q \in Players : PastGens(q) \subseteq PastGens(q)'
  <2> SUFFICES ASSUME NEW q \in Players, NEW x \in PastGens(q)
               PROVE  x \in PastGens(q)'
    BY Zenon
  <2>1. x \in 0..MaxGeneration /\ x <= minted[q] /\ x <= minted'[q]
    BY <1>2, StoreAssumption DEF PastGens
  <2>2. ASSUME NEW d \in Calls, Fresh(d, q)' PROVE x < call'[d].next.gen
    <3>1. CASE d = c
      BY <2>1, <2>2, <3>1, <1>2, <1>3, <1>g DEF gen
    <3>2. CASE d # c
      BY Zenon, <2>2, <3>2, <1>3 DEF PastGens
    <3> QED BY Zenon, <3>1, <3>2
  <2> QED BY Zenon, <2>1, <2>2 DEF PastGens
<1>5. Logins'
  <2>1. call'[c].op = "replace" => playerLockFree(p)
    BY Zenon DEF BeginCall
  <2>2. ASSUME NEW d \in Calls, NEW e \in Calls, call'[d].op = "replace",
               call'[e].op = "replace", call'[d].player = call'[e].player
        PROVE  d = e
    BY <2>1, <2>2, <1>f DEF playerLockFree, CInv, Logins
  <2>3. ASSUME NEW d \in Calls, NEW q \in Players, Fresh(d, q)'
        PROVE  call'[d].next.gen <= minted'[q]
    <3>1. CASE d = c
      BY <2>3, <3>1, <1>3, <1>g DEF gen
    <3>2. CASE d # c
      <4>1. call'[d] = call[d] /\ call[d].next.gen <= minted[q]
        BY Zenon, <2>3, <3>2, <1>3 DEF CInv, Logins
      <4>2. call[d].next \in PlayerSession
        BY Zenon, <2>3, <3>2, <1>3, CallFacts DEF Fresh, CInv
      <4>3. call[d].next.gen \in Nat
        BY <4>2 DEF PlayerSession
      <4> QED BY <4>1, <4>3, <1>2
    <3> QED BY Zenon, <3>1, <3>2
  <2>4. \A d \in Calls : call'[d].op = "idle" => call'[d] = IdleCall
    BY Zenon, <1>f DEF CInv, Logins
  <2> QED BY Zenon, <2>2, <2>3, <2>4 DEF Logins
<1>6. SessionsPast' /\ PlacesPast' /\ PayloadsPast'
  BY Zenon, <1>4, <1>u, <1>p, StoresKept DEF CInv, SessionsPast, PlacesPast, PayloadsPast
<1>7. BatchesPast'
  BY Zenon, <1>4, <1>u, BatchesKept DEF CInv, StoredPast, IInv, TypeOK
<1>8. CallsPast'
  BY <1>4, <1>f DEF CInv, StoredPast, SessionsPast, CallsPast
<1>9. CallersOlder' /\ NotifiersOlder' /\ Covered'
  <2>1. \A q \in Players : OlderGens(q)' = OlderGens(q)
    BY Zenon, <1>u DEF OlderGens
  <2>2. CallersOlder'
    BY Zenon, <2>1, <1>f DEF CInv, CallersOlder
  <2>3. NotifiersOlder' /\ Covered'
    BY Zenon, <2>1, <1>u, <1>p DEF CInv, NotifiersOlder, Covered
  <2> QED BY Zenon, <2>2, <2>3
<1> QED BY Zenon, <1>1, <1>5, <1>6, <1>7, <1>8, <1>9 DEF CInv, StoredPast

\* What a script writes: a login's own generation, none, or the one that is there.
WritesFrom(c, p) ==
    /\ finish(c) /\ session'[p] = call[c].next /\ call[c].next \in PlayerSession
    /\ \/ Fresh(c, p)
       \/ call[c].next.gen = 0
       \/ /\ session[p] # None
          /\ call[c].next.sid = session[p].sid /\ call[c].next.gen = session[p].gen

\* A handler's step after its first: it writes at most the session and the
\* payload of its own player, and ends, or turns to the cleanup of the session
\* it has deleted.
HandlerMoves(c, p) ==
    /\ UNCHANGED <<monitor, minted>>
    /\ \A d \in Calls \ {c} : call'[d] = call[d]
    /\ \/ call'[c] = IdleCall
       \/ /\ call[c].op \in {"delete", "leave"} /\ call'[c].op \in {"leave", "enqueue"}
          /\ call'[c].player = call[c].player
          /\ call'[c].expected = call[c].expected /\ call'[c].next = call[c].next
          /\ call[c].op = "delete" => session'[p] = None
    /\ \A q \in Players : \A id \in placements(q)' :
          id \in placements(q) \/ (session'[q] # None /\ id = identityOf(session'[q]))
    /\ \A q \in Players \ {p} : session'[q] = session[q] /\ payload'[q] = payload[q]
    /\ session'[p] \in {session[p], None} \/ WritesFrom(c, p)
    /\ \/ payload'[p] \in {payload[p], None}
       \/ payload'[p] = call[c].next /\ call[c].op = "enqueue"

\* The end of a session with a generation deletes the session's own placement.
LEMMA DeletesOwn ==
    ASSUME NEW r, NEW s \in PlayerSession, s.gen # 0, r = identityOf(s)
    PROVE  deletes(r, r)
<1>1. r.gen = s.gen /\ s.gen \in Nat
  BY StoreAssumption DEF PlayerSession, identityOf
<1> QED BY <1>1 DEF deletes, decideLeaveIdentity

\* Such a step preserves the invariant.
LEMMA HandlerPlace ==
    ASSUME CInv, IInv', PlaceTypeOK', NEW c \in Calls, NEW p \in Players,
           call[c].op # "idle", call[c].player = p, HandlerMoves(c, p)
    PROVE  CInv'
<1>k. Logins' /\ \A q \in Players : PastGens(q) \subseteq PastGens(q)'
  <2>1. \A d \in Calls : \/ call'[d] \in {call[d], IdleCall}
                         \/ call'[d].op \in {"leave", "enqueue"}
    BY Zenon DEF HandlerMoves
  <2> QED BY Zenon, <2>1, PastKept DEF CInv, HandlerMoves
<1>w. ASSUME WritesFrom(c, p)
      PROVE  /\ session'[p].gen \in PastGens(p)'
             /\ \A x \in PastGens(p) : \/ session'[p].gen = 0
                                       \/ session[p] # None /\ session'[p].gen = session[p].gen
                                       \/ x < session'[p].gen
             /\ session'[p].gen # 0 =>
                   \A id \in placements(p) : deletes(id, identityOf(session'[p]))
  <2>0. session'[p] = call[c].next /\ finish(c) /\ session'[p].gen \in 0..MaxGeneration
    BY Zenon, <1>w DEF WritesFrom, PlayerSession
  <2>1. CASE Fresh(c, p)
    <3>1. session'[p].gen \in PastGens(p)'
      BY Zenon, <2>0, <2>1, CommittedIsPast DEF HandlerMoves
    <3>2. \A x \in PastGens(p) : x < session'[p].gen
      BY Zenon, <2>0, <2>1, FreshIsNewer
    <3>3. ASSUME NEW id \in placements(p) PROVE deletes(id, identityOf(session'[p]))
      <4>1. id.gen \in PastGens(p) /\ id.gen \in Nat
        BY <3>3 DEF CInv, StoredPast, PlacesPast, PastGens
      <4> QED BY <2>0, <2>1, <3>2, <4>1 DEF Fresh, deletes, decideLeaveIdentity, identityOf
    <3> QED BY Zenon, <3>1, <3>2, <3>3
  <2>2. CASE session'[p].gen = 0
    <3>1. 0 \in PastGens(p)'
      <4>1. \A d \in Calls : Fresh(d, p)' => 0 < call'[d].next.gen
        <5> SUFFICES ASSUME NEW d \in Calls, Fresh(d, p)' PROVE 0 < call'[d].next.gen
          BY Zenon
        <5>1. call'[d].next \in PlayerSession /\ call'[d].next.gen # 0
          BY Zenon DEF Fresh, IInv, CallCoherent
        <5> QED BY <5>1, StoreAssumption DEF PlayerSession
      <4> QED BY <4>1, StoreAssumption DEF PastGens, PlaceTypeOK
    <3> QED BY Zenon, <2>2, <3>1
  <2>3. CASE /\ session[p] # None
             /\ call[c].next.sid = session[p].sid /\ call[c].next.gen = session[p].gen
    <3>1. session'[p].gen \in PastGens(p)'
      BY Zenon, <2>0, <2>3, <1>k DEF CInv, StoredPast, SessionsPast
    <3>2. identityOf(session'[p]) = identityOf(session[p]) /\ session'[p].gen = session[p].gen
      BY Zenon, <2>0, <2>3 DEF identityOf
    <3>3. session'[p].gen # 0 => \A id \in placements(p) : deletes(id, identityOf(session'[p]))
      BY Zenon, <2>3, <3>2 DEF CInv, Covered
    <3> QED BY Zenon, <2>0, <2>3, <3>1, <3>3
  <2> QED BY Zenon, <1>w, <2>0, <2>1, <2>2, <2>3 DEF WritesFrom
<1>1. SessionsPast'
  BY Zenon, <1>k, <1>w, StoresKept DEF CInv, HandlerMoves, SessionsPast
<1>2. PlacesPast'
  <2> SUFFICES ASSUME NEW q \in Players, NEW id \in placements(q)'
               PROVE  id.gen \in PastGens(q)'
    BY Zenon DEF PlacesPast
  <2>1. CASE id \in placements(q)
    BY Zenon, <1>k, <2>1, StoresKept DEF CInv
  <2>2. CASE session'[q] # None /\ id = identityOf(session'[q])
    BY Zenon, <1>1, <2>2 DEF SessionsPast, identityOf
  <2> QED BY Zenon, <2>1, <2>2 DEF HandlerMoves
<1>3. PayloadsPast'
  <2>1. call[c].op = "enqueue" => call[c].next.gen \in PastGens(p)'
    BY Zenon, <1>k DEF CInv, StoredPast, CallsPast
  <2> QED BY Zenon, <1>k, <2>1, StoresKept DEF CInv, HandlerMoves, PayloadsPast
<1>4. CallsPast'
  BY <1>k DEF CInv, StoredPast, HandlerMoves, CallsPast, IdleCall
<1>5. BatchesPast'
  BY Zenon, <1>k, BatchesKept DEF CInv, StoredPast, IInv, TypeOK, HandlerMoves
<1>o. ASSUME NEW q \in Players, NEW x \in PastGens(q), x \in OlderGens(q)
      PROVE  x \in OlderGens(q)'
  BY Zenon, <1>o, <1>w, OlderKept DEF HandlerMoves
<1>6. CallersOlder'
  <2> SUFFICES ASSUME NEW d \in Calls, NEW q \in Players,
                      call'[d].op \in {"leave", "enqueue"}, call'[d].player = q
               PROVE  call'[d].expected.gen \in OlderGens(q)'
    BY Zenon DEF CallersOlder
  <2>1. /\ call'[d].expected = call[d].expected /\ call[d].player = q
        /\ call[d].op \in {"delete", "leave", "enqueue"}
        /\ call[d].op = "delete" => q = p /\ session'[p] = None
    BY DEF HandlerMoves, IdleCall
  <2>2. call[d].expected.gen \in PastGens(q)
    BY Zenon, <2>1 DEF CInv, StoredPast, CallsPast
  <2>3. CASE call[d].op = "delete"
    BY Zenon, <2>1, <2>2, <2>3 DEF PastGens, OlderGens
  <2>4. CASE call[d].op # "delete"
    BY Zenon, <2>1, <2>2, <2>4, <1>o DEF CInv, CallersOlder
  <2> QED BY Zenon, <2>3, <2>4
<1>7. NotifiersOlder'
  <2> SUFFICES ASSUME NEW m \in Monitors, NEW q \in Players,
                      monitor[m].pc = "notify", monitor[m].claim.player = q
               PROVE  /\ monitor[m].claim.payload # None
                      /\ monitor[m].claim.payload.gen \in OlderGens(q)'
    BY Zenon DEF NotifiersOlder, HandlerMoves
  <2>1. /\ monitor[m].claim.payload # None
        /\ monitor[m].claim.payload.gen \in OlderGens(q)
    BY Zenon DEF CInv, NotifiersOlder
  <2>2. monitor[m].claim.payload.gen \in PastGens(q)
    BY Zenon, <2>1 DEF CInv, StoredPast, BatchesPast, IInv, MonitorCoherent
  <2> QED BY Zenon, <2>1, <2>2, <1>o
<1>8. Covered'
  <2> SUFFICES ASSUME NEW q \in Players, session'[q] # None, session'[q].gen # 0,
                      NEW id \in placements(q)'
               PROVE  deletes(id, identityOf(session'[q]))
    BY Zenon DEF Covered, identityOf
  <2>1. CASE id \in placements(q)
    <3>1. CASE session'[q] = session[q]
      BY Zenon, <2>1, <3>1 DEF CInv, Covered
    <3>2. CASE session'[q] # session[q]
      <4>1. q = p /\ WritesFrom(c, p)
        BY Zenon, <3>2 DEF HandlerMoves
      <4> QED BY Zenon, <2>1, <4>1, <1>w
    <3> QED BY Zenon, <3>1, <3>2
  <2>2. CASE id = identityOf(session'[q])
    <3>1. session'[q] \in PlayerSession
      BY Zenon DEF IInv, TypeOK, StoreTypeOK
    <3> QED BY Zenon, <2>2, <3>1, DeletesOwn DEF identityOf
  <2> QED BY Zenon, <2>1, <2>2 DEF HandlerMoves
<1> QED BY Zenon, <1>k, <1>1, <1>2, <1>3, <1>4, <1>5, <1>6, <1>7, <1>8 DEF CInv, StoredPast

\* Steps that leave scene_manager and its requests alone keep the placements.
LEMMA PlacementsStand ==
    ASSUME UNCHANGED placeVars, UNCHANGED flightVars
    PROVE  \A q \in Players : placements(q)' = placements(q)
BY Zenon DEF placements, placeVars, flightVars

\* The login's script: it writes a record whose generation is its own, and
\* sends the login to scene_manager with that record's identity.
LEMMA ReplaceMoves ==
    ASSUME CInv, NEW c \in Calls, NEW p \in Players, call[c].player = p,
           CommitLogin(c)
    PROVE  HandlerMoves(c, p) /\ PlaceTypeOK'
<1>1. call[c].op = "replace" /\ finish(c)
      /\ replaceSessionAndCancelLease(p, call[c].expected, call[c].next)
  BY Zenon DEF CommitLogin, CommitReplace
<1>e. /\ UNCHANGED <<monitor, location, released, overtaken, minted>>
      /\ \A q \in Players : \/ entering'[q] = entering[q]
                            \/ /\ q = p /\ session'[p] = call[c].next
                               /\ entering'[p] = entering[p] \cup {identityOf(call[c].next)}
      /\ lost' \in [Players -> BOOLEAN]
  BY Zenon DEF CommitLogin, placeVars, CInv, PlaceTypeOK
<1>2. call'[c] = IdleCall /\ \A d \in Calls \ {c} : call'[d] = call[d]
  BY Zenon, <1>1 DEF finish, CInv, IInv, TypeOK
<1>3. \/ \A q \in Players : Same(q)
      \/ session[p] = call[c].expected /\ Written(p, call[c].next, "none")
  BY <1>1, ReplaceEffect DEF CInv, IInv, TypeOK
<1>4. call[c].next \in PlayerSession
  BY Zenon, <1>1, CallFacts DEF CInv
<1>5. Fresh(c, p) \/ call[c].next.gen = 0 \/ call[c].next = call[c].expected
  BY Zenon, <1>1 DEF Fresh
<1>6. session[p] = call[c].expected /\ Written(p, call[c].next, "none") => WritesFrom(c, p)
  BY Zenon, <1>1, <1>4, <1>5, NoneAssumption DEF Written, WritesFrom
<1>7. \A q \in Players : \A id \in placements(q)' :
         id \in placements(q) \/ (session'[q] # None /\ id = identityOf(session'[q]))
  <2> SUFFICES ASSUME NEW q \in Players, NEW id \in placements(q)', id \notin placements(q)
               PROVE  session'[q] # None /\ id = identityOf(session'[q])
    BY Zenon DEF identityOf
  <2>1. id \in entering'[q] /\ id \notin entering[q]
    BY Zenon, <1>e DEF placements
  <2>2. q = p /\ session'[p] = call[c].next /\ id = identityOf(call[c].next)
    BY Zenon, <1>e, <2>1
  <2> QED BY Zenon, <1>4, <2>2, NoneAssumption
<1>8. HandlerMoves(c, p)
  BY Zenon, <1>2, <1>3, <1>6, <1>7, <1>e DEF HandlerMoves, Same, Written, IdleCall
<1>9. PlaceTypeOK'
  <2>1. identityOf(call[c].next) \in placementIdentity
    BY Zenon, <1>4 DEF identityOf, placementIdentity, PlayerSession
  <2>2. entering' \in [Players -> SUBSET placementIdentity]
    <3>1. entering \in [Players -> SUBSET placementIdentity]
      BY Zenon DEF CInv, PlaceTypeOK
    <3>2. \/ entering' = entering
          \/ entering' = [entering EXCEPT ![p] = @ \cup {identityOf(call[c].next)}]
      BY Zenon DEF CommitLogin
    <3>3. entering[p] \cup {identityOf(call[c].next)} \in SUBSET placementIdentity
      BY Zenon, <2>1, <3>1
    <3> QED BY Zenon, <3>1, <3>2, <3>3
  <2> QED BY Zenon, <2>2, <1>e DEF CInv, PlaceTypeOK, SceneTypeOK
<1> QED BY Zenon, <1>8, <1>9

\* The disconnect keeps session id and generation of the record.
LEMMA DisconnectMoves ==
    ASSUME CInv, NEW c \in Calls, NEW p \in Players, call[c].player = p,
           CommitDisconnecting(c), UNCHANGED <<monitor, placeVars, flightVars, minted, lost>>
    PROVE  HandlerMoves(c, p)
<1>1. call[c].op = "disconnect" /\ finish(c)
      /\ transitionToDisconnecting(p, call[c].expected, call[c].next)
  BY Zenon DEF CommitDisconnecting
<1>2. call'[c] = IdleCall /\ \A d \in Calls \ {c} : call'[d] = call[d]
  BY Zenon, <1>1 DEF finish, CInv, IInv, TypeOK
<1>3. \/ \A q \in Players : Same(q)
      \/ session[p] = call[c].expected /\ Written(p, call[c].next, "pending")
  BY <1>1, DisconnectEffect DEF CInv, IInv, TypeOK
<1>4. call[c].next \in PlayerSession /\ call[c].expected \in PlayerSession
  BY Zenon, <1>1, CallFacts DEF CInv
<1>5. call[c].next.sid = call[c].expected.sid /\ call[c].next.gen = call[c].expected.gen
  BY Zenon, <1>1 DEF CInv, StoredPast, CallsPast
<1>6. session[p] = call[c].expected /\ Written(p, call[c].next, "pending") => WritesFrom(c, p)
  BY Zenon, <1>1, <1>4, <1>5, NoneAssumption DEF Written, WritesFrom
<1> QED BY Zenon, <1>2, <1>3, <1>6, PlacementsStand DEF HandlerMoves, Same, Written, IdleCall

\* MarkOffline turns to LeaveScene exactly when it has deleted the session.
LEMMA DeleteMoves ==
    ASSUME CInv, NEW c \in Calls, NEW p \in Players, call[c].player = p,
           CommitMarkOffline(c), UNCHANGED <<monitor, placeVars, flightVars, minted, lost>>
    PROVE  HandlerMoves(c, p)
<1>t. call \in [Calls -> Call] /\ StoreTypeOK
  BY Zenon DEF CInv, IInv, TypeOK
<1>1. call[c].op = "delete" /\ deleteSessionIfUnchanged(p, call[c].expected)
  BY Zenon DEF CommitMarkOffline
<1>2. CASE session[p] = call[c].expected
  <2>1. call' = [call EXCEPT ![c].op = "leave"]
    BY Zenon, <1>2 DEF CommitMarkOffline
  <2>2. /\ \A d \in Calls \ {c} : call'[d] = call[d]
        /\ call'[c].op = "leave" /\ call'[c].player = call[c].player
        /\ call'[c].expected = call[c].expected /\ call'[c].next = call[c].next
    BY Zenon, <1>t, <2>1 DEF Call
  <2>3. Written(p, None, "none")
    BY Zenon, <1>t, <1>1, <1>2, DeleteEffect
  <2> QED BY Zenon, <1>1, <2>2, <2>3, PlacementsStand DEF HandlerMoves, Same, Written
<1>3. CASE session[p] # call[c].expected
  <2>1. call'[c] = IdleCall /\ \A d \in Calls \ {c} : call'[d] = call[d]
    BY Zenon, <1>t, <1>3 DEF CommitMarkOffline, finish
  <2>2. \A q \in Players : Same(q)
    BY Zenon, <1>t, <1>1, <1>3, DeleteEffect
  <2> QED BY Zenon, <2>1, <2>2, PlacementsStand DEF HandlerMoves, Same, IdleCall
<1> QED BY Zenon, <1>2, <1>3

\* The queued snapshot has the generation of the deleted session.
LEMMA EnqueueMoves ==
    ASSUME CInv, NEW c \in Calls, NEW p \in Players, call[c].player = p,
           EnqueueCleanup(c), UNCHANGED <<monitor, placeVars, flightVars, minted, lost>>
    PROVE  HandlerMoves(c, p)
<1>1. call[c].op = "enqueue" /\ finish(c) /\ enqueueOfflineCleanup(p, call[c].next)
  BY Zenon DEF EnqueueCleanup
<1>2. call'[c] = IdleCall /\ \A d \in Calls \ {c} : call'[d] = call[d]
  BY Zenon, <1>1 DEF finish, CInv, IInv, TypeOK
<1>3. /\ \A q \in Players : session'[q] = session[q]
      /\ \A q \in Players \ {p} : payload'[q] = payload[q]
      /\ payload'[p] \in {payload[p], call[c].next}
  BY <1>1, EnqueueEffect DEF CInv, IInv, TypeOK, Same
<1> QED BY Zenon, <1>1, <1>2, <1>3, PlacementsStand DEF HandlerMoves, IdleCall

\* LeaveScene deletes a location or leaves it as it is.
LEMMA LeaveEffect ==
    ASSUME SceneTypeOK, NEW p \in Players, NEW id, NEW late, NEW ok \in BOOLEAN,
           LeaveScene(p, id, late, ok)
    PROVE  /\ SceneTypeOK'
           /\ \A q \in Players \ {p} : location'[q] = location[q]
           /\ \/ location'[p] = location[p]
              \/ location'[p] = None /\ location[p] # None /\ deletes(location[p], id)
           /\ ok /\ ~late => location'[p] = None \/ ~deletes(location'[p], id)
<1>1. CASE UNCHANGED <<location, released>>
  <2>1. ok /\ ~late => location[p] = None \/ ~deletes(location[p], id)
    BY Zenon, <1>1 DEF LeaveScene, SceneTypeOK
  <2> QED BY Zenon, <1>1, <2>1 DEF SceneTypeOK
<1>2. CASE /\ location[p] # None /\ deletes(location[p], id)
           /\ location' = [location EXCEPT ![p] = None]
           /\ released' = [released EXCEPT ![p] = FALSE]
  BY Zenon, <1>2 DEF SceneTypeOK
<1> QED BY Zenon, <1>1, <1>2 DEF LeaveScene

\* MarkOffline's LeaveScene, done or to be queued.
LEMMA LeaveMoves ==
    ASSUME CInv, NEW c \in Calls, NEW p \in Players, call[c].player = p,
           NEW ok \in BOOLEAN, LeaveCall(c, ok)
    PROVE  HandlerMoves(c, p) /\ PlaceTypeOK'
<1>t. call \in [Calls -> Call] /\ SceneTypeOK
  BY Zenon DEF CInv, IInv, TypeOK, PlaceTypeOK
<1>1. call[c].op = "leave" /\ UNCHANGED storeVars /\ UNCHANGED <<monitor, entering, minted>>
  BY Zenon DEF LeaveCall, LeaveSceneOrEnqueue
<1>2. LeaveScene(p, identityOf(call[c].expected), c \in overtaken, ok)
  BY Zenon DEF LeaveCall
<1>3. SceneTypeOK' /\ \A q \in Players : location'[q] \in {location[q], None}
  BY Zenon, <1>t, <1>2, LeaveEffect
<1>p. \A q \in Players : placements(q)' \subseteq placements(q)
  BY Zenon, <1>1, <1>3 DEF placements
<1>4. \A d \in Calls \ {c} : call'[d] = call[d]
  BY Zenon, <1>t DEF LeaveCall, LeaveSceneOrEnqueue, finish
<1>5. \/ call'[c] = IdleCall
      \/ /\ call'[c].op = "enqueue" /\ call'[c].player = call[c].player
         /\ call'[c].expected = call[c].expected /\ call'[c].next = call[c].next
  BY Zenon, <1>t DEF LeaveCall, LeaveSceneOrEnqueue, finish, IdleCall, Call
<1>6. overtaken' \subseteq overtaken /\ lost' \in [Players -> BOOLEAN]
  BY Zenon DEF LeaveCall, giveUp, CInv, PlaceTypeOK
<1>7. PlaceTypeOK'
  BY Zenon, <1>1, <1>3, <1>6 DEF CInv, PlaceTypeOK
<1> QED BY Zenon, <1>1, <1>p, <1>4, <1>5, <1>7 DEF HandlerMoves, storeVars

\* A handler that ends without a script.
LEMMA DropMoves ==
    ASSUME CInv, NEW c \in Calls, NEW p \in Players, call[c].player = p, DropCall(c)
    PROVE  HandlerMoves(c, p) /\ PlaceTypeOK'
<1>1. call'[c] = IdleCall /\ \A d \in Calls \ {c} : call'[d] = call[d]
  BY Zenon DEF DropCall, AbortCall, finish, CInv, IInv, TypeOK
<1>p. \A q \in Players : placements(q)' = placements(q)
  BY Zenon DEF DropCall, placements, placeVars
<1>2. HandlerMoves(c, p)
  BY Zenon, <1>1, <1>p DEF DropCall, AbortCall, storeVars, HandlerMoves, IdleCall
<1>3. /\ SceneTypeOK' /\ UNCHANGED <<entering, minted>> /\ lost' \in [Players -> BOOLEAN]
      /\ overtaken' \subseteq overtaken
  BY Zenon DEF DropCall, giveUp, placeVars, CInv, PlaceTypeOK, SceneTypeOK
<1> QED BY Zenon, <1>2, <1>3 DEF CInv, PlaceTypeOK

\* Every step of a handler preserves the invariant.
LEMMA HandlerStep ==
    ASSUME CInv, IInv', NEW c \in Calls,
           \/ \E p \in Players : BeginCall(c, p)
           \/ CommitLogin(c) \/ CommitCall(c)
           \/ \E ok \in BOOLEAN : LeaveCall(c, ok)
           \/ DropCall(c)
    PROVE  CInv'
<1>1. CASE \E p \in Players : BeginCall(c, p)
  BY Zenon, <1>1, BeginPlace
<1>2. CASE ~\E p \in Players : BeginCall(c, p)
  <2>1. call[c].op # "idle"
    <3>1. CASE CommitLogin(c)
      BY Zenon, <3>1 DEF CommitLogin, CommitReplace
    <3>2. CASE CommitCall(c)
      BY Zenon, <3>2 DEF CommitCall, CommitDisconnecting, CommitMarkOffline, EnqueueCleanup
    <3>3. CASE \E ok \in BOOLEAN : LeaveCall(c, ok)
      BY Zenon, <3>3 DEF LeaveCall, LeaveSceneOrEnqueue
    <3>4. CASE DropCall(c)
      BY Zenon, <3>4 DEF DropCall, AbortCall, CInv, Logins
    <3> QED BY Zenon, <1>2, <3>1, <3>2, <3>3, <3>4
  <2>2. PICK p \in Players : call[c].player = p
    BY Zenon, <2>1, CallFacts DEF CInv
  <2>3. CASE CommitCall(c)
    <3>1. HandlerMoves(c, p)
      BY Zenon, <2>2, <2>3, DisconnectMoves, DeleteMoves, EnqueueMoves DEF CommitCall
    <3>2. PlaceTypeOK'
      BY Zenon, <2>3 DEF CommitCall, placeVars, flightVars, CInv, PlaceTypeOK, SceneTypeOK
    <3> QED BY Zenon, <2>1, <2>2, <3>1, <3>2, HandlerPlace
  <2>4. CASE \E ok \in BOOLEAN : LeaveCall(c, ok)
    BY Zenon, <2>1, <2>2, <2>4, LeaveMoves, HandlerPlace
  <2>5. CASE DropCall(c)
    BY Zenon, <2>1, <2>2, <2>5, DropMoves, HandlerPlace
  <2>6. CASE CommitLogin(c)
    BY Zenon, <2>1, <2>2, <2>6, ReplaceMoves, HandlerPlace
  <2> QED BY Zenon, <1>2, <2>3, <2>4, <2>5, <2>6
<1> QED BY Zenon, <1>1, <1>2

-----------------------------------------------------------------------------
(* Steps of a monitor, of scene_manager and of time *)

\* A step that touches no handler and no minted generation, ends sessions at
\* most, and remembers payloads at most: the invariant holds after it if the
\* batches and the notifications do their part.
LEMMA MonitorPlace ==
    ASSUME CInv, IInv', PlaceTypeOK', UNCHANGED <<call, minted>>, BatchesPast',
           \A q \in Players : /\ placements(q)' \subseteq placements(q)
                              /\ session'[q] \in {session[q], None}
                              /\ payload'[q] \in {payload[q], session[q], None},
           \A m \in Monitors : monitor'[m].pc = "notify" =>
              \/ monitor[m].pc = "notify" /\ monitor'[m].claim = monitor[m].claim
              \/ /\ monitor'[m].claim.payload # None
                 /\ session'[monitor'[m].claim.player] = None
    PROVE  CInv'
<1>k. Logins' /\ \A q \in Players : PastGens(q) \subseteq PastGens(q)'
  BY Zenon, PastKept DEF CInv
<1>1. SessionsPast' /\ PlacesPast' /\ PayloadsPast'
  BY Zenon, <1>k, StoresKept DEF CInv, SessionsPast, PlacesPast, PayloadsPast
<1>2. CallsPast'
  BY Zenon, <1>k DEF CInv, StoredPast, CallsPast
<1>o. \A q \in Players : OlderGens(q) \subseteq OlderGens(q)'
  BY Zenon, OlderKept
<1>3. CallersOlder'
  BY Zenon, <1>o DEF CInv, CallersOlder
<1>4. NotifiersOlder'
  <2> SUFFICES ASSUME NEW m \in Monitors, NEW q \in Players,
                      monitor'[m].pc = "notify", monitor'[m].claim.player = q
               PROVE  /\ monitor'[m].claim.payload # None
                      /\ monitor'[m].claim.payload.gen \in OlderGens(q)'
    BY Zenon DEF NotifiersOlder
  <2>1. CASE monitor[m].pc = "notify" /\ monitor'[m].claim = monitor[m].claim
    BY Zenon, <2>1, <1>o DEF CInv, NotifiersOlder
  <2>2. CASE monitor'[m].claim.payload # None /\ session'[q] = None
    <3>1. monitor'[m].claim \in monitor'[m].batch
      BY Zenon DEF IInv, MonitorCoherent
    <3>2. monitor'[m].claim.payload.gen \in PastGens(q)'
      BY Zenon, <3>1, <2>2 DEF BatchesPast
    <3> QED BY Zenon, <2>2, <3>2 DEF PastGens, OlderGens
  <2> QED BY Zenon, <2>1, <2>2
<1>5. Covered'
  BY Zenon DEF CInv, Covered, identityOf
<1> QED BY Zenon, <1>k, <1>1, <1>2, <1>3, <1>4, <1>5 DEF CInv, StoredPast

\* A claimed batch remembers sessions, and payloads that were queued.
LEMMA ClaimBatchPlace ==
    ASSUME CInv, IInv', PlaceTypeOK', NEW m \in Monitors, ClaimBatch(m),
           UNCHANGED <<call, location, entering, minted>>
    PROVE  CInv'
<1>t. monitor \in [Monitors -> Monitor]
  BY Zenon DEF CInv, IInv, TypeOK
<1>1. PICK recovered \in SUBSET Players, claimed \in SUBSET Players, t \in FreshTokens :
        /\ claimExpiredLeases(recovered, claimed, t)
        /\ LET batch == {[player |-> p, token |-> t, payload |-> claimedPayload(p)] :
                            p \in claimed}
           IN  monitor' = [monitor EXCEPT ![m] = [pc |-> "next", batch |-> batch,
                                                  todo |-> batch, claim |-> None]]
  BY ZenonT(40) DEF ClaimBatch
<1> DEFINE batch == {[player |-> p, token |-> t, payload |-> claimedPayload(p)] : p \in claimed}
<1>2. /\ monitor'[m].batch = batch /\ monitor'[m].pc = "next"
      /\ \A n \in Monitors \ {m} : monitor'[n] = monitor[n]
  BY Zenon, <1>t, <1>1
<1>3. session' = session /\ \A q \in Players : payload'[q] \in {payload[q], session[q]}
  BY Zenon, <1>1 DEF claimExpiredLeases, claimedPayload
<1>k. \A q \in Players : PastGens(q) \subseteq PastGens(q)'
  BY Zenon, PastKept DEF CInv
<1>4. \A q \in Players : claimedPayload(q) # None => claimedPayload(q).gen \in PastGens(q)'
  BY Zenon, <1>k DEF claimedPayload, CInv, StoredPast, SessionsPast, PayloadsPast
<1>5. BatchesPast'
  <2> SUFFICES ASSUME NEW n \in Monitors, NEW b \in monitor'[n].batch, b.payload # None
               PROVE  b.payload.gen \in PastGens(b.player)'
    BY Zenon DEF BatchesPast
  <2>1. CASE n = m
    <3>1. PICK q \in claimed : b = [player |-> q, token |-> t, payload |-> claimedPayload(q)]
      BY Zenon, <2>1, <1>2
    <3>2. b.player = q /\ b.payload = claimedPayload(q) /\ q \in Players
      BY Zenon, <3>1
    <3> QED BY Zenon, <3>2, <1>4
  <2>2. CASE n # m
    <3>1. b \in monitor[n].batch
      BY Zenon, <2>2, <1>2
    <3>2. b.player \in Players
      BY Zenon, <3>1, <1>t, BatchTypes
    <3> QED BY Zenon, <3>1, <3>2, <1>k DEF CInv, StoredPast, BatchesPast
  <2> QED BY Zenon, <2>1, <2>2
<1>6. \A n \in Monitors : monitor'[n].pc = "notify" =>
          monitor[n].pc = "notify" /\ monitor'[n].claim = monitor[n].claim
  BY Zenon, <1>2
<1>7. \A q \in Players : placements(q)' = placements(q)
  BY Zenon DEF placements
<1> QED BY Zenon, <1>3, <1>5, <1>6, <1>7, MonitorPlace

\* A monitor that is done with its claim keeps its batch.
LEMMA NextClaimEffect ==
    ASSUME monitor \in [Monitors -> Monitor], NEW m \in Monitors, nextClaim(m)
    PROVE  /\ \A n \in Monitors : monitor'[n].batch = monitor[n].batch
           /\ monitor'[m].pc = "next"
           /\ \A n \in Monitors \ {m} : monitor'[n] = monitor[n]
BY Zenon DEF nextClaim, Monitor

\* A monitor that goes on with its claim keeps claim and batch.
LEMMA GotoEffect ==
    ASSUME monitor \in [Monitors -> Monitor], NEW m \in Monitors, NEW pc, goto(m, pc)
    PROVE  /\ \A n \in Monitors : monitor'[n].batch = monitor[n].batch
           /\ monitor'[m].pc = pc /\ monitor'[m].claim = monitor[m].claim
           /\ \A n \in Monitors \ {m} : monitor'[n] = monitor[n]
BY Zenon DEF goto, Monitor

\* What a monitor does to the store after its claim: it ends sessions and drops
\* claims; only a commit leads it to its notifications.
LEMMA QuietEffect ==
    ASSUME IInv, NEW m \in Monitors,
           \/ Heartbeat(m) \/ EndRound(m)
           \/ \E claim \in monitor[m].todo, readFails \in BOOLEAN,
                 afk \in {"inactive", "active", "unknown"} : Examine(m, claim, readFails, afk)
           \/ Rearm(m) \/ CommitExpiry(m) \/ Ack(m) \/ AbandonClaim(m) \/ AbortRound(m)
    PROVE  /\ \A q \in Players : /\ session'[q] \in {session[q], None}
                                 /\ payload'[q] \in {payload[q], None}
           /\ \A n \in Monitors : monitor'[n].batch \subseteq monitor[n].batch
           /\ \A n \in Monitors : monitor'[n].pc = "notify" =>
                 \/ monitor[n].pc = "notify" /\ monitor'[n].claim = monitor[n].claim
                 \/ /\ monitor'[n].claim.payload # None
                    /\ session'[monitor'[n].claim.player] = None
<1>t. StoreTypeOK /\ monitor \in [Monitors -> Monitor]
  BY Zenon DEF IInv, TypeOK
<1>n. nextClaim(m) => /\ \A n \in Monitors : monitor'[n].batch = monitor[n].batch
                      /\ monitor'[m].pc = "next"
                      /\ \A n \in Monitors \ {m} : monitor'[n] = monitor[n]
  BY Zenon, <1>t, NextClaimEffect
<1>g. \A pc : goto(m, pc) => /\ \A n \in Monitors : monitor'[n].batch = monitor[n].batch
                             /\ monitor'[m].pc = pc /\ monitor'[m].claim = monitor[m].claim
                             /\ \A n \in Monitors \ {m} : monitor'[n] = monitor[n]
  BY Zenon, <1>t, GotoEffect
<1>1. CASE Heartbeat(m)
  BY Zenon, <1>1 DEF Heartbeat, renewLeaseClaims
<1>2. CASE EndRound(m) \/ AbortRound(m)
  <2>1. UNCHANGED <<session, payload>> /\ monitor' = [monitor EXCEPT ![m] = IdleMonitor]
    BY Zenon, <1>2 DEF EndRound, AbortRound, storeVars
  <2>2. /\ monitor'[m] = IdleMonitor
        /\ \A n \in Monitors \ {m} : monitor'[n] = monitor[n]
    BY Zenon, <1>t, <2>1
  <2>3. IdleMonitor.batch = {} /\ IdleMonitor.pc # "notify"
    BY Zenon DEF IdleMonitor
  <2> HIDE DEF IdleMonitor
  <2>4. \A n \in Monitors : /\ monitor'[n].batch \subseteq monitor[n].batch
                            /\ monitor'[n].pc = "notify" => monitor'[n] = monitor[n]
    BY Zenon, <2>2, <2>3
  <2> QED BY Zenon, <2>1, <2>4
<1>3. ASSUME NEW claim \in monitor[m].todo, NEW readFails \in BOOLEAN,
             NEW afk \in {"inactive", "active", "unknown"}, Examine(m, claim, readFails, afk)
      PROVE  /\ UNCHANGED <<session, payload>>
             /\ \A n \in Monitors : monitor'[n].batch = monitor[n].batch
             /\ monitor'[m].pc # "notify"
             /\ \A n \in Monitors \ {m} : monitor'[n] = monitor[n]
  BY ZenonT(40), <1>3, <1>t DEF Examine, storeVars, triage, Monitor
<1>4. CASE Rearm(m)
  BY Zenon, <1>4, <1>n, <1>t DEF Rearm, rearmLeaseClaim, dropClaim, storeVars, StoreTypeOK
<1>5. CASE CommitExpiry(m)
  <2>1. monitor[m].claim \in Claim
    BY Zenon, <1>5, <1>t DEF CommitExpiry, IInv, MonitorCoherent, Monitor
  <2>2. PICK p \in Players, t \in Tokens, s \in PlayerSession \cup {None} :
          monitor[m].claim.player = p /\ monitor[m].claim.token = t /\ monitor[m].claim.payload = s
    BY Zenon, <2>1 DEF Claim
  <2>3. /\ commitLeaseExpiry(p, t, s)
        /\ \/ s = None /\ goto(m, "ack")
           \/ s # None /\ commitLeaseExpiryResult(p, t, s) = "committed" /\ goto(m, "notify")
           \/ nextClaim(m)
    BY ZenonT(40), <1>5, <2>2 DEF CommitExpiry
  <2>4. \A q \in Players : /\ session'[q] \in {session[q], None}
                           /\ payload'[q] \in {payload[q], None}
    BY Zenon, <2>3, <1>t DEF commitLeaseExpiry, dropClaim, StoreTypeOK
  <2>5. commitLeaseExpiryResult(p, t, s) = "committed" => session'[p] = None
    BY Zenon, <2>3, <1>t DEF commitLeaseExpiry, StoreTypeOK
  <2> QED BY <2>2, <2>3, <2>4, <2>5, <1>n, <1>g
<1>6. CASE Ack(m)
  BY Zenon, <1>6, <1>n, <1>t DEF Ack, ackLeaseClaim, dropClaim, storeVars, StoreTypeOK
<1>7. CASE AbandonClaim(m)
  BY Zenon, <1>7, <1>n DEF AbandonClaim, storeVars
<1> QED BY ZenonT(40), <1>1, <1>2, <1>3, <1>4, <1>5, <1>6, <1>7

\* Every step of a monitor preserves the invariant.
LEMMA MonitorStepPlace ==
    ASSUME CInv, IInv', NEW m \in Monitors,
           \/ QuietMonitor(m)
           \/ \E published, ok \in BOOLEAN : NotifyScene(m, published, ok)
    PROVE  CInv'
<1>t. monitor \in [Monitors -> Monitor] /\ SceneTypeOK
  BY Zenon DEF CInv, IInv, TypeOK, PlaceTypeOK
<1>k. UNCHANGED <<call, minted>> => \A q \in Players : PastGens(q) \subseteq PastGens(q)'
  BY Zenon, PastKept DEF CInv
<1>1. CASE QuietMonitor(m)
  <2>1. PlaceTypeOK' /\ UNCHANGED <<call, location, entering, minted>>
    BY Zenon, <1>1 DEF QuietMonitor, placeVars, CInv, PlaceTypeOK, SceneTypeOK
  <2>p. \A q \in Players : placements(q)' = placements(q)
    BY Zenon, <2>1 DEF placements
  <2>2. CASE ClaimBatch(m)
    BY Zenon, <2>1, <2>2, ClaimBatchPlace
  <2>3. CASE ~ClaimBatch(m)
    <3>1. /\ \A q \in Players : /\ session'[q] \in {session[q], None}
                                /\ payload'[q] \in {payload[q], None}
          /\ \A n \in Monitors : monitor'[n].batch \subseteq monitor[n].batch
          /\ \A n \in Monitors : monitor'[n].pc = "notify" =>
                \/ monitor[n].pc = "notify" /\ monitor'[n].claim = monitor[n].claim
                \/ /\ monitor'[n].claim.payload # None
                   /\ session'[monitor'[n].claim.player] = None
      BY Zenon, <1>1, <2>3, QuietEffect DEF QuietMonitor, CInv
    <3>2. BatchesPast'
      BY ZenonT(40), <1>t, <1>k, <2>1, <3>1, BatchesKept DEF CInv, StoredPast
    <3> QED BY Zenon, <2>1, <2>p, <3>1, <3>2, MonitorPlace
  <2> QED BY Zenon, <2>2, <2>3
<1>2. ASSUME NEW published \in BOOLEAN, NEW ok \in BOOLEAN, NotifyScene(m, published, ok)
      PROVE  CInv'
  <2>1. /\ monitor[m].pc = "notify" /\ UNCHANGED storeVars
        /\ UNCHANGED <<call, entering, minted>>
        /\ goto(m, "ack") \/ nextClaim(m)
    BY Zenon, <1>2 DEF NotifyScene, Notify
  <2>2. monitor[m].claim.player \in Players
    <3>1. monitor[m].claim \in monitor[m].batch
      BY Zenon, <2>1 DEF CInv, IInv, MonitorCoherent
    <3> QED BY Zenon, <1>t, <3>1, BatchTypes
  <2>3. SceneTypeOK' /\ \A q \in Players : location'[q] \in {location[q], None}
    BY ZenonT(40), <1>t, <1>2, <2>2, LeaveEffect DEF NotifyScene
  <2>p. \A q \in Players : placements(q)' \subseteq placements(q)
    BY Zenon, <2>1, <2>3 DEF placements
  <2>4. /\ \A n \in Monitors : monitor'[n].batch \subseteq monitor[n].batch
        /\ \A n \in Monitors : monitor'[n].pc = "notify" =>
              monitor[n].pc = "notify" /\ monitor'[n].claim = monitor[n].claim
    <3>1. CASE goto(m, "ack")
      BY Zenon, <1>t, <3>1, GotoEffect
    <3>2. CASE nextClaim(m)
      BY Zenon, <1>t, <3>2, NextClaimEffect
    <3> QED BY Zenon, <2>1, <3>1, <3>2
  <2>5. BatchesPast'
    BY Zenon, <1>t, <1>k, <2>1, <2>4, BatchesKept DEF CInv, StoredPast
  <2>6. overtaken' \subseteq overtaken /\ lost' \in [Players -> BOOLEAN]
    BY Zenon, <1>2 DEF NotifyScene, giveUp, CInv, PlaceTypeOK
  <2>7. PlaceTypeOK'
    BY Zenon, <2>1, <2>3, <2>6 DEF CInv, PlaceTypeOK
  <2> QED BY Zenon, <2>1, <2>p, <2>4, <2>5, <2>7, MonitorPlace DEF storeVars
<1> QED BY Zenon, <1>1, <1>2

\* EnterScene writes the identity it is asked for, or keeps the one that is
\* there: of two with the same session id the younger.
LEMMA EnterVerdict ==
    ASSUME NEW cur \in placementIdentity \cup {None}, NEW req \in placementIdentity, NEW r,
           r = decidePlacementIdentity(cur, req), r # None
    PROVE  r = req \/ (cur # None /\ r = cur)
<1>1. CASE cur = None
  BY Zenon, <1>1 DEF decidePlacementIdentity
<1>2. CASE cur # None /\ req.sid = cur.sid
  <2>1. cur = [sid |-> cur.sid, gen |-> cur.gen] /\ req = [sid |-> cur.sid, gen |-> req.gen]
    BY <1>2 DEF placementIdentity
  <2>2. r = [cur EXCEPT !.gen = IF req.gen > cur.gen THEN req.gen ELSE cur.gen]
    BY Zenon, <1>2 DEF decidePlacementIdentity
  <2>3. r = [cur EXCEPT !.gen = req.gen] \/ r = [cur EXCEPT !.gen = cur.gen]
    BY Zenon, <2>2
  <2>4. r = [sid |-> cur.sid, gen |-> req.gen] \/ r = [sid |-> cur.sid, gen |-> cur.gen]
    BY <1>2, <2>3 DEF placementIdentity
  <2> QED BY <1>2, <2>1, <2>4
<1>3. CASE cur # None /\ req.sid # cur.sid
  BY Zenon, <1>3 DEF decidePlacementIdentity
<1> QED BY Zenon, <1>1, <1>2, <1>3

\* Steps that leave player_locator alone and write no location but one that is
\* there or on its way preserve the invariant.
LEMMA RestPlace ==
    ASSUME CInv, IInv', PlaceTypeOK',
           UNCHANGED <<session, payload, call, monitor, minted>>,
           \A q \in Players : placements(q)' \subseteq placements(q)
    PROVE  CInv'
BY Zenon, BatchesKept, MonitorPlace DEF CInv, StoredPast, BatchesPast, PastGens, Fresh

\* An EnterScene that arrives, in time or late, preserves the invariant.
LEMMA EnterPlace ==
    ASSUME CInv, IInv', NEW p \in Players, NEW id \in entering[p], Enter(p, id)
    PROVE  CInv'
<1> DEFINE record == decidePlacementIdentity(location[p], id)
<1>t. /\ location \in [Players -> placementIdentity \cup {None}]
      /\ released \in [Players -> BOOLEAN] /\ lost \in [Players -> BOOLEAN]
      /\ entering \in [Players -> SUBSET placementIdentity]
      /\ overtaken \subseteq Calls \cup Monitors
  BY Zenon DEF CInv, PlaceTypeOK, SceneTypeOK
<1>1. /\ record # None /\ location' = [location EXCEPT ![p] = record]
      /\ released' = [released EXCEPT ![p] = FALSE]
      /\ entering' = [entering EXCEPT ![p] = @ \ {id}]
      /\ UNCHANGED <<session, payload, call, monitor, minted>>
  BY Zenon DEF Enter, EnterScene, vars
<1>2. overtaken' \subseteq Calls \cup Monitors /\ lost' \in [Players -> BOOLEAN]
  BY Zenon, <1>t DEF Enter, LeaveCallers, giveUp
<1>3. record = id \/ (location[p] # None /\ record = location[p])
  BY Zenon, <1>t, <1>1, EnterVerdict
<1> HIDE DEF record
<1>4. \A q \in Players : placements(q)' \subseteq placements(q)
  BY Zenon, <1>t, <1>1, <1>3 DEF placements
<1>5. record \in placementIdentity
  BY Zenon, <1>t, <1>3
<1>6. location' \in [Players -> placementIdentity \cup {None}] /\ released' \in [Players -> BOOLEAN]
  BY Zenon, <1>t, <1>1, <1>5
<1>7. entering' \in [Players -> SUBSET placementIdentity]
  BY Zenon, <1>t, <1>1
<1>8. PlaceTypeOK'
  BY Zenon, <1>1, <1>2, <1>6, <1>7 DEF CInv, PlaceTypeOK, SceneTypeOK
<1> QED BY Zenon, <1>1, <1>4, <1>8, RestPlace

\* The holder's request for another scene has the identity it was placed with.
LEMMA ChangePlace ==
    ASSUME CInv, IInv', NEW p \in Players, ChangeScene(p)
    PROVE  CInv'
<1>1. /\ location[p] # None /\ entering' = [entering EXCEPT ![p] = @ \cup {location[p]}]
      /\ UNCHANGED <<session, payload, call, monitor, location, released, overtaken, minted, lost>>
  BY Zenon DEF ChangeScene, vars, placeVars
<1>2. PlaceTypeOK'
  BY Zenon, <1>1 DEF CInv, PlaceTypeOK, SceneTypeOK
<1>3. \A q \in Players : placements(q)' \subseteq placements(q)
  BY Zenon, <1>1 DEF placements, CInv, PlaceTypeOK
<1> QED BY Zenon, <1>1, <1>2, <1>3, RestPlace

\* Every step of the composition preserves the invariant.
LEMMA CleanupPreserves ==
    ASSUME CInv, [CleanupNext]_cleanupVars
    PROVE  CInv'
<1>u. ASSUME UNCHANGED cleanupVars PROVE CInv'
  <2>1. UNCHANGED <<vars, placeVars, flightVars, minted, lost>>
    BY Zenon, <1>u DEF cleanupVars
  <2>2. PlaceTypeOK' /\ IInv'
    BY Zenon, <2>1, NextPreserves DEF CInv, PlaceTypeOK, SceneTypeOK, placeVars, flightVars
  <2> QED BY Zenon, <2>1, <2>2, RestPlace, PlacementsStand DEF vars
<1>n. ASSUME CleanupNext PROVE CInv'
  <2>i. IInv'
    BY Zenon, <1>n, LocatorSteps, NextPreserves DEF CInv
  <2>1. ASSUME NEW p \in Players, Holder(p) PROVE CInv'
    <3>1. PlaceTypeOK'
      BY Zenon, <2>1 DEF Holder, HolderReleases, flightVars, CInv, PlaceTypeOK, SceneTypeOK
    <3>2. \A q \in Players : placements(q)' = placements(q)
      BY Zenon, <2>1 DEF Holder, HolderReleases, flightVars, placements
    <3> QED BY Zenon, <2>i, <2>1, <3>1, <3>2, RestPlace DEF Holder, vars
  <2>2. ASSUME Time /\ UNCHANGED <<placeVars, flightVars, minted, lost>> PROVE CInv'
    <3>1. PlaceTypeOK'
      BY Zenon, <2>2 DEF placeVars, flightVars, CInv, PlaceTypeOK, SceneTypeOK
    <3>2. UNCHANGED <<session, payload, call, monitor>>
      BY Zenon, <2>2 DEF Time, LeaseFallsDue, ClaimFallsDue
    <3> QED BY Zenon, <2>i, <2>2, <3>1, <3>2, RestPlace, PlacementsStand
  <2> QED BY Zenon, <1>n, <2>i, <2>1, <2>2, HandlerStep, MonitorStepPlace, EnterPlace, ChangePlace
          DEF CleanupNext
<1> QED BY Zenon, <1>u, <1>n

\* The service starts over records without a generation, and over no placement.
LEMMA CleanupStart == ASSUME CleanupInit PROVE CInv
<1>1. IInv
  BY Zenon, InitEstablishes DEF CleanupInit
<1>3. /\ \A c \in Calls : call[c] = IdleCall
      /\ \A m \in Monitors : monitor[m] = IdleMonitor
      /\ \A p \in Players : location[p] = None /\ payload[p] = None /\ minted[p] = 0
      /\ \A p \in Players : session[p] # None => session[p].gen = 0
  BY Zenon DEF CleanupInit, Init, SceneInit
<1>e. \A p \in Players : \A id \in placements(p) :
         session[p] \in PlayerSession /\ id = identityOf(session[p]) /\ id.gen = 0
  <2> SUFFICES ASSUME NEW p \in Players, NEW id \in placements(p)
               PROVE  session[p] \in PlayerSession /\ id = identityOf(session[p]) /\ id.gen = 0
    BY Zenon
  <2>1. entering[p] = IF session[p] = None THEN {} ELSE {identityOf(session[p])}
    BY Zenon DEF CleanupInit
  <2>2. session[p] # None /\ id = identityOf(session[p])
    BY Zenon, <1>3, <2>1 DEF placements
  <2>3. session[p] \in PlayerSession
    BY Zenon, <1>1, <2>2 DEF IInv, TypeOK, StoreTypeOK
  <2> QED BY Zenon, <1>3, <2>2, <2>3 DEF identityOf
<1>2. PlaceTypeOK
  <2>1. \A p \in Players : entering[p] \subseteq placementIdentity
    <3> SUFFICES ASSUME NEW p \in Players, NEW id \in entering[p] PROVE id \in placementIdentity
      BY Zenon
    <3>1. session[p] \in PlayerSession /\ id = identityOf(session[p])
      BY Zenon, <1>e DEF placements
    <3> QED BY Zenon, <3>1 DEF identityOf, placementIdentity, PlayerSession
  <2>2. entering \in [Players -> SUBSET placementIdentity]
    BY <2>1 DEF CleanupInit
  <2> QED BY <2>2, StoreAssumption DEF CleanupInit, SceneInit, PlaceTypeOK, SceneTypeOK
<1>4. Logins
  BY <1>3 DEF Logins, Fresh, IdleCall
<1>5. \A p \in Players : 0 \in PastGens(p)
  BY <1>3, StoreAssumption DEF PastGens, Fresh, IdleCall
<1>p. PlacesPast
  BY Zenon, <1>e, <1>5 DEF PlacesPast
<1>6. StoredPast
  BY <1>3, <1>5, <1>p DEF StoredPast, SessionsPast, PayloadsPast, CallsPast, BatchesPast,
                          IdleCall, IdleMonitor
<1>7. CallersOlder /\ NotifiersOlder /\ Covered
  BY <1>3 DEF CallersOlder, NotifiersOlder, Covered, IdleCall, IdleMonitor
<1> QED BY Zenon, <1>1, <1>2, <1>4, <1>6, <1>7 DEF CInv

-----------------------------------------------------------------------------
(* Theorems *)

\* The inductive invariant: generations grow under the player lock, and every
\* one that is stored or remembered was minted before the logins under way.
THEOREM CleanupInvariance == CleanupSpec => []CInv
<1>1. CleanupInit => CInv
  BY Zenon, CleanupStart
<1>2. CInv /\ [CleanupNext]_cleanupVars => CInv'
  BY Zenon, CleanupPreserves
<1> QED BY <1>1, <1>2, PTL DEF CleanupSpec

\* For any number of handlers and monitors, and EnterScene requests that arrive
\* whenever they like: the record of a session with a generation is never older
\* than a placement its end has to delete, there or still on its way, so
\* LeaveScene's keep_newer verdict leaks no location
\* (placement_identity.go:211-212).
THEOREM RecordsCoverPlacements == CleanupSpec => []RecordCoversPlacement
<1>1. CInv => RecordCoversPlacement
  BY ZenonT(40) DEF CInv, IInv, PlaceTypeOK, Covered, RecordCoversPlacement, CleanupTypeOK
<1> QED BY <1>1, CleanupInvariance, PTL

\* A LeaveScene for an older session leaves the location of the present session
\* alone, with a generation of its own or without.
LEMMA OlderLeaves ==
    ASSUME CInv, NEW p \in Players, NEW s \in PlayerSession, s.gen \in OlderGens(p),
           session[p] # None, session[p].gen # 0, location[p].gen = session[p].gen
    PROVE  ~deletes(location[p], identityOf(s))
<1>1. session[p].gen \in Nat /\ s.gen \in Nat
  BY StoreAssumption DEF CInv, IInv, TypeOK, StoreTypeOK, PlayerSession
<1>2. s.gen < session[p].gen
  BY Zenon DEF OlderGens
<1> QED BY <1>1, <1>2 DEF deletes, decideLeaveIdentity, identityOf

\* Every step leaves the location of an ONLINE player who has entered.
LEMMA LocationsKept == ASSUME CInv, [CleanupNext]_cleanupVars PROVE OnlineKeepsLocationStep
<1> SUFFICES ASSUME NEW p \in Players, InState(session[p], Online), location[p] # None,
                    session[p].gen # 0, location[p].gen = session[p].gen,
                    location'[p] = None
             PROVE  FALSE
  BY Zenon DEF OnlineKeepsLocationStep
<1>t. SceneTypeOK /\ monitor \in [Monitors -> Monitor] /\ session[p] # None
  BY Zenon DEF CInv, PlaceTypeOK, IInv, TypeOK, InState
<1>1. ASSUME NEW c \in Calls, NEW ok \in BOOLEAN, LeaveCall(c, ok) PROVE FALSE
  <2>1. /\ call[c].op = "leave"
        /\ LeaveScene(call[c].player, identityOf(call[c].expected), c \in overtaken, ok)
    BY Zenon, <1>1 DEF LeaveCall, LeaveSceneOrEnqueue
  <2>2. call[c].player \in Players /\ call[c].expected \in PlayerSession
    BY Zenon, <2>1, CallFacts DEF CInv
  <2>3. call[c].player = p /\ deletes(location[p], identityOf(call[c].expected))
    BY Zenon, <1>t, <2>1, <2>2, LeaveEffect
  <2>4. call[c].expected.gen \in OlderGens(p)
    BY Zenon, <2>1, <2>3 DEF CInv, CallersOlder
  <2> QED BY Zenon, <1>t, <2>2, <2>3, <2>4, OlderLeaves
<1>2. ASSUME NEW m \in Monitors, NEW published \in BOOLEAN, NEW ok \in BOOLEAN,
             NotifyScene(m, published, ok)
      PROVE  FALSE
  <2>1. /\ monitor[m].pc = "notify"
        /\ LeaveScene(monitor[m].claim.player, identityOf(monitor[m].claim.payload),
                      m \in overtaken, ok)
    BY Zenon, <1>2 DEF NotifyScene, Notify
  <2>2. monitor[m].claim \in monitor[m].batch
    BY Zenon, <2>1 DEF CInv, IInv, MonitorCoherent
  <2>3. monitor[m].claim \in Claim
    BY Zenon, <1>t, <2>2 DEF Monitor
  <2>4. monitor[m].claim.player = p /\ deletes(location[p], identityOf(monitor[m].claim.payload))
    BY <1>t, <2>1, <2>3, LeaveEffect DEF Claim
  <2>5. /\ monitor[m].claim.payload # None
        /\ monitor[m].claim.payload.gen \in OlderGens(p)
    BY Zenon, <2>1, <2>4 DEF CInv, NotifiersOlder
  <2> QED BY ZenonT(40), <1>t, <2>3, <2>4, <2>5, OlderLeaves DEF Claim
<1>3. ASSUME NEW q \in Players, NEW id, Enter(q, id) PROVE FALSE
  BY Zenon, <1>t, <1>3 DEF Enter, EnterScene, SceneTypeOK
<1>4. \/ \E c \in Calls, ok \in BOOLEAN : LeaveCall(c, ok)
      \/ \E m \in Monitors, published, ok \in BOOLEAN : NotifyScene(m, published, ok)
      \/ \E q \in Players : \E id \in entering[q] : Enter(q, id)
  BY Zenon DEF CleanupNext, cleanupVars, BeginCall, CommitLogin, CommitCall, DropCall,
               QuietMonitor, ChangeScene, Holder, HolderReleases, placeVars
<1> QED BY Zenon, <1>1, <1>2, <1>3, <1>4

\* For any number of handlers and monitors, no late cleanup of an earlier
\* session takes the location of an ONLINE player who has entered
\* (leavescenelogic.go:181-188, 227-230).
THEOREM OnlinePlayersKeepLocations == CleanupSpec => OnlineKeepsLocation
<1>1. CInv /\ [CleanupNext]_cleanupVars => [OnlineKeepsLocationStep]_cleanupVars
  BY Zenon, LocationsKept
<1> QED BY <1>1, CleanupInvariance, PTL DEF CleanupSpec, OnlineKeepsLocation

-----------------------------------------------------------------------------
(* No location is left behind: one whose session is gone has its cleanup   *)
(* on the way                                                              *)

\* One session RPC at a time, over all replicas: what a queued cleanup needs in
\* order not to be overwritten by another handler's.
OneHandler == \A c, d \in Calls : c = d

\* The payload of a player with a session is that session, and one under a
\* claim has it; without a session it is a cleanup.
Matched(p) ==
    /\ session[p] # None /\ payload[p] # None => payload[p] = session[p]
    /\ session[p] # None /\ token[p] # NoToken => payload[p] = session[p]
    /\ session[p] = None /\ payload[p] # None => payload[p].state = Disconnecting

\* A monitor whose claim stands knows the payload of it.
ClaimsMatch ==
    \A m \in Monitors : \A b \in monitor[m].batch :
        token[b.player] = b.token => payload[b.player] = b.payload

\* A cleanup is acknowledged once there is nothing left for it to delete, or
\* nobody has to any more.
AcksAreDone ==
    \A m \in Monitors : \A b \in monitor[m].batch :
        /\ monitor[m].pc = "ack" /\ monitor[m].claim = b /\ token[b.player] = b.token
        /\ b.payload # None /\ b.payload.state = Disconnecting
        => /\ session[b.player] = None
           /\ location[b.player] # None /\ ~lost[b.player]
              => ~settles(location[b.player], identityOf(b.payload))

\* A LeaveScene that was overtaken by an EnterScene: there was no session then,
\* so the location that it leaves behind is one nobody has to delete.
OvertakenCalls ==
    \A c \in Calls, p \in Players :
        c \in overtaken => /\ call[c].op = "leave"
                           /\ call[c].player = p => lost[p]
OvertakenMonitors ==
    \A m \in Monitors, p \in Players :
        m \in overtaken =>
            /\ monitor[m].pc = "notify"
            /\ monitor[m].claim.player = p /\ token[p] = monitor[m].claim.token => lost[p]

\* Nothing is stored or queued for p.
Alone(p) ==
    /\ session[p] = None /\ payload[p] = None /\ token[p] = NoToken
    /\ ready[p] = "none" /\ processing[p] = "none"

CleanersAreAlone ==
    \A c \in Calls, p \in Players :
        call[c].op \in {"leave", "enqueue"} /\ call[c].player = p => Alone(p)

\* The snapshot a handler may queue is a cleanup.
SnapshotsAreCleanups ==
    \A c \in Calls : call[c].op \in {"delete", "leave", "enqueue"} =>
        call[c].next.state = Disconnecting

NoGhost(p) == location[p] # None /\ session[p] = None /\ ~lost[p] => CleanupUnderway(p)

GInv ==
    /\ \A p \in Players : Matched(p) /\ NoGhost(p)
    /\ ClaimsMatch /\ AcksAreDone /\ OvertakenCalls /\ OvertakenMonitors
    /\ CleanersAreAlone /\ SnapshotsAreCleanups

\* Whom a step gives a cleanup up for, and whom it does not, once there is a
\* session to answer for the location again.
LostKept(q) == lost[q] => lost'[q] \/ session[q] # None

\* The claims in monitors' hands stay as they should be while the monitors stand
\* still and a script keeps a player's claim and placement or drops the claim.
LEMMA ClaimsKept ==
    ASSUME CInv, GInv, UNCHANGED monitor, overtaken' \subseteq overtaken,
           \A q \in Players :
              \/ token'[q] = NoToken
              \/ Same(q) /\ location'[q] = location[q] /\ LostKept(q)
    PROVE  ClaimsMatch' /\ AcksAreDone' /\ OvertakenMonitors'
<1>t. \A m \in Monitors : \A b \in monitor[m].batch :
         b.player \in Players /\ b.token \in Tokens /\ b.token # NoToken
  BY Zenon, BatchTypes, StoreAssumption DEF CInv, IInv, TypeOK
<1>1. ClaimsMatch'
  BY <1>t DEF GInv, ClaimsMatch, Same
<1>2. AcksAreDone'
  <2> SUFFICES ASSUME NEW m \in Monitors, NEW b \in monitor[m].batch,
                      monitor[m].pc = "ack", monitor[m].claim = b, token'[b.player] = b.token,
                      b.payload # None, b.payload.state = Disconnecting
               PROVE  /\ session'[b.player] = None
                      /\ location'[b.player] # None /\ ~lost'[b.player]
                         => ~settles(location'[b.player], identityOf(b.payload))
    BY ZenonT(30) DEF AcksAreDone
  <2>1. Same(b.player) /\ location'[b.player] = location[b.player] /\ LostKept(b.player)
    BY Zenon, <1>t
  <2>2. /\ session[b.player] = None
        /\ location[b.player] # None /\ ~lost[b.player]
           => ~settles(location[b.player], identityOf(b.payload))
    BY Zenon, <2>1 DEF GInv, AcksAreDone, Same
  <2> QED BY Zenon, <2>1, <2>2 DEF Same, LostKept
<1>3. OvertakenMonitors'
  <2> SUFFICES ASSUME NEW m \in Monitors, NEW p \in Players, m \in overtaken'
               PROVE  /\ monitor[m].pc = "notify"
                      /\ monitor[m].claim.player = p /\ token'[p] = monitor[m].claim.token
                         => lost'[p]
    BY Zenon DEF OvertakenMonitors
  <2>1. monitor[m].pc = "notify" /\ monitor[m].claim \in monitor[m].batch
    BY Zenon DEF GInv, OvertakenMonitors, CInv, IInv, MonitorCoherent
  <2>2. ASSUME monitor[m].claim.player = p, token'[p] = monitor[m].claim.token
        PROVE  lost'[p]
    <3>1. Same(p) /\ LostKept(p)
      BY Zenon, <1>t, <2>1, <2>2
    <3>2. token[p] = monitor[m].claim.token /\ lost[p]
      BY ZenonT(30), <2>2, <3>1 DEF Same, GInv, OvertakenMonitors
    <3>3. session[p] = None
      BY Zenon, <2>1, <2>2, <3>2 DEF CInv, IInv, NotifyOnlyWithoutSession
    <3> QED BY Zenon, <3>1, <3>2, <3>3 DEF LostKept
  <2> QED BY Zenon, <2>1, <2>2
<1> QED BY Zenon, <1>1, <1>2, <1>3

\* A player whom a step leaves alone stays matched, and free of ghosts if the
\* step keeps its cleaner.
LEMMA PlayerKept ==
    ASSUME NEW q \in Players, Matched(q), NoGhost(q), Same(q),
           location'[q] \in {location[q], None}, lost[q] => lost'[q],
           \A c \in Calls : call[c].op \in {"leave", "enqueue"} /\ call[c].player = q =>
              /\ call'[c].op \in {"leave", "enqueue"} /\ call'[c].player = q
              /\ call'[c].expected = call[c].expected
              /\ c \in overtaken' => c \in overtaken
    PROVE  Matched(q)' /\ NoGhost(q)'
<1>1. Matched(q)'
  BY Zenon DEF Matched, Same
<1>2. NoGhost(q)'
  <2> SUFFICES ASSUME location'[q] # None, session'[q] = None, ~lost'[q]
               PROVE  CleanupUnderway(q)'
    BY Zenon DEF NoGhost
  <2>1. CleanupUnderway(q) /\ location'[q] = location[q]
    BY ZenonT(40) DEF NoGhost, Same
  <2>2. CASE payload[q] # None /\ settles(location[q], identityOf(payload[q]))
    BY Zenon, <2>1, <2>2 DEF CleanupUnderway, Same, identityOf
  <2>3. ASSUME NEW c \in Calls \ overtaken,
               call[c].op \in {"leave", "enqueue"}, call[c].player = q,
               settles(location[q], identityOf(call[c].expected))
        PROVE  CleanupUnderway(q)'
    BY Zenon, <2>1, <2>3 DEF CleanupUnderway, identityOf
  <2> QED BY Zenon, <2>1, <2>2, <2>3 DEF CleanupUnderway
<1> QED BY ZenonT(40), <1>1, <1>2

\* A step of the only handler, after its first.
LEMMA HandlerGhost ==
    ASSUME CInv, GInv, OneHandler, NEW c \in Calls, NEW p \in Players, call[c].player = p,
           UNCHANGED monitor, overtaken' \subseteq overtaken \ {c},
           \A q \in Players \ {p} : Same(q) /\ location'[q] = location[q] /\ lost'[q] = lost[q],
           (Same(p) /\ location'[p] = location[p] /\ LostKept(p)) \/ token'[p] = NoToken,
           Matched(p)', NoGhost(p)',
           \/ call'[c] = IdleCall
           \/ /\ call[c].op \in {"delete", "leave"} /\ call'[c].op \in {"leave", "enqueue"}
              /\ call'[c].player = p /\ call'[c].next = call[c].next /\ Alone(p)'
    PROVE  GInv'
<1>1. ClaimsMatch' /\ AcksAreDone' /\ OvertakenMonitors'
  BY Zenon, ClaimsKept DEF LostKept
<1>2. \A d \in Calls : d = c
  BY Zenon DEF OneHandler
<1>o. OvertakenCalls'
  BY Zenon, <1>2 DEF OvertakenCalls
<1>3. \A q \in Players \ {p} : Matched(q)' /\ NoGhost(q)'
  BY Zenon, <1>2, PlayerKept DEF GInv
<1>4. CleanersAreAlone'
  BY <1>2 DEF CleanersAreAlone, IdleCall
<1>5. SnapshotsAreCleanups'
  BY <1>2 DEF GInv, SnapshotsAreCleanups, IdleCall
<1> QED BY Zenon, <1>1, <1>o, <1>3, <1>4, <1>5 DEF GInv

\* A handler begins: store, placements and monitors stand still.
LEMMA BeginGhost ==
    ASSUME CInv, IInv', GInv, NEW c \in Calls, NEW p \in Players, BeginCall(c, p)
    PROVE  GInv'
<1>1. /\ UNCHANGED storeVars
      /\ \A d \in Calls \ {c} : call'[d] = call[d]
      /\ call'[c].op \in {"replace", "disconnect", "delete"}
      /\ call'[c].op = "delete" => call'[c].next.state = Disconnecting
  BY Zenon, BeginFacts
<1>2. call[c] = IdleCall
  BY Zenon DEF BeginCall, BeginRpc, SetSession, Reconnect, SetDisconnecting, MarkOffline, begin
<1>3. UNCHANGED <<monitor, location, overtaken, lost>>
  BY Zenon DEF BeginCall, placeVars, flightVars
<1>4. \A q \in Players : Same(q)
  BY Zenon, <1>1, StoreSame
<1>5. ClaimsMatch' /\ AcksAreDone' /\ OvertakenMonitors'
  BY Zenon, <1>3, <1>4, ClaimsKept DEF LostKept
<1>6. \A d \in Calls : call[d].op \in {"leave", "enqueue"} => call'[d] = call[d]
  BY <1>1, <1>2 DEF IdleCall
<1>o. OvertakenCalls'
  BY Zenon, <1>3, <1>6 DEF GInv, OvertakenCalls
<1>7. \A q \in Players : Matched(q)' /\ NoGhost(q)'
  BY Zenon, <1>3, <1>4, <1>6, PlayerKept DEF GInv
<1>8. \A q \in Players : Alone(q) => Alone(q)'
  BY ZenonT(40), <1>4 DEF Alone, Same
<1>9. CleanersAreAlone'
  BY Zenon, <1>1, <1>8 DEF GInv, CleanersAreAlone
<1>10. SnapshotsAreCleanups'
  BY Zenon, <1>1 DEF GInv, SnapshotsAreCleanups
<1> QED BY Zenon, <1>5, <1>o, <1>7, <1>9, <1>10 DEF GInv

\* A script that writes a record drops the player's claim and payload with it.
LEMMA WriteGhost ==
    ASSUME CInv, GInv, OneHandler, NEW c \in Calls, NEW p \in Players, call[c].player = p,
           call[c].op \notin {"leave", "enqueue"},
           UNCHANGED <<monitor, location, overtaken>>, call'[c] = IdleCall,
           \A q \in Players : lost'[q] = lost[q] \/ (q = p /\ session'[p] # None),
           NEW s \in PlayerSession, NEW r,
           (\A q \in Players : Same(q)) \/ Written(p, s, r)
    PROVE  GInv'
<1>o. overtaken' \subseteq overtaken \ {c}
  BY Zenon DEF GInv, OvertakenCalls
<1>1. CASE \A q \in Players : Same(q)
  <2>1. \A d \in Calls : d = c
    BY Zenon DEF OneHandler
  <2>2. Matched(p)' /\ NoGhost(p)'
    <3>1. CASE lost'[p] = lost[p]
      BY Zenon, <1>1, <2>1, <3>1, PlayerKept DEF GInv
    <3>2. CASE session'[p] # None
      BY Zenon, <1>1, <3>2 DEF GInv, Matched, NoGhost, Same
    <3> QED BY Zenon, <3>1, <3>2
  <2>3. LostKept(p)
    BY Zenon, <1>1 DEF LostKept, Same
  <2> QED BY Zenon, <1>o, <1>1, <2>2, <2>3, HandlerGhost
<1>2. CASE Written(p, s, r)
  <2>1. Matched(p)' /\ NoGhost(p)'
    BY Zenon, <1>2, NoneAssumption DEF Written, Matched, NoGhost
  <2> QED BY Zenon, <1>o, <1>2, <2>1, HandlerGhost DEF Written
<1> QED BY Zenon, <1>1, <1>2

\* The scripts of SetSession, Reconnect and SetDisconnecting.
LEMMA ReplaceGhost ==
    ASSUME CInv, GInv, OneHandler, NEW c \in Calls,
           \/ CommitLogin(c)
           \/ CommitDisconnecting(c) /\ UNCHANGED <<monitor, placeVars, flightVars, minted, lost>>
    PROVE  GInv'
<1>t. StoreTypeOK /\ call \in [Calls -> Call] /\ lost \in [Players -> BOOLEAN]
  BY Zenon DEF CInv, IInv, TypeOK, PlaceTypeOK
<1>1. call[c].op \in {"replace", "disconnect"} /\ finish(c)
  BY Zenon DEF CommitLogin, CommitReplace, CommitDisconnecting
<1>2. call[c].player \in Players /\ call[c].next \in PlayerSession
  BY Zenon, <1>1, CallFacts DEF CInv
<1>3. PICK p \in Players, s \in PlayerSession : call[c].player = p /\ call[c].next = s
  BY Zenon, <1>2
<1>4. (\A q \in Players : Same(q)) \/ \E r : Written(p, s, r)
  BY <1>t, <1>3, ReplaceEffect, DisconnectEffect
     DEF CommitLogin, CommitReplace, CommitDisconnecting
<1>5. call'[c] = IdleCall /\ UNCHANGED <<monitor, location, overtaken>>
  BY Zenon, <1>t, <1>1 DEF CommitLogin, finish, placeVars, flightVars
<1>6. \A q \in Players : lost'[q] = lost[q] \/ (q = p /\ session'[p] # None)
  <2>1. CASE CommitLogin(c)
    <3>1. lost' = lost \/ (session'[p] = s /\ lost' = [lost EXCEPT ![p] = @ /\ s.gen = 0])
      BY Zenon, <1>3, <2>1 DEF CommitLogin
    <3> QED BY Zenon, <1>t, <3>1, NoneAssumption
  <2> QED BY Zenon, <2>1
<1> QED BY Zenon, <1>1, <1>3, <1>4, <1>5, <1>6, WriteGhost

\* The end of the recorded session settles the location.
LEMMA RecordSettles ==
    ASSUME CInv, NEW p \in Players, session[p] # None, location[p] # None
    PROVE  settles(location[p], identityOf(session[p]))
<1>1. location[p] \in placements(p)
  BY Zenon DEF placements
<1>2. CASE session[p].gen # 0
  BY Zenon, <1>1, <1>2 DEF CInv, Covered, settles
<1>3. CASE session[p].gen = 0
  BY Zenon, <1>3 DEF settles, identityOf
<1> QED BY Zenon, <1>2, <1>3

\* MarkOffline deletes the record, and is from then on who will clean up.
LEMMA DeleteGhost ==
    ASSUME CInv, GInv, OneHandler, NEW c \in Calls, CommitMarkOffline(c),
           UNCHANGED <<monitor, placeVars, flightVars, minted, lost>>
    PROVE  GInv'
<1>t. StoreTypeOK /\ call \in [Calls -> Call]
  BY Zenon DEF CInv, IInv, TypeOK
<1>1. call[c].op = "delete"
  BY Zenon DEF CommitMarkOffline
<1>2. /\ call[c].player \in Players
      /\ call[c].expected \in PlayerSession /\ call[c].next \in PlayerSession
  BY Zenon, <1>1, CallFacts DEF CInv
<1>3. PICK p \in Players : call[c].player = p
  BY Zenon, <1>2
<1>4. deleteSessionIfUnchanged(p, call[c].expected)
  BY Zenon, <1>3 DEF CommitMarkOffline
<1>u. /\ UNCHANGED <<monitor, location, overtaken, lost>>
      /\ c \notin overtaken /\ overtaken' \subseteq overtaken \ {c}
  BY Zenon, <1>1, <1>3 DEF placeVars, flightVars, GInv, OvertakenCalls
<1>5. CASE session[p] = call[c].expected
  <2>1. call' = [call EXCEPT ![c].op = "leave"]
    BY Zenon, <1>3, <1>5 DEF CommitMarkOffline
  <2>2. /\ call'[c].op = "leave" /\ call'[c].player = p
        /\ call'[c].expected = call[c].expected /\ call'[c].next = call[c].next
    BY Zenon, <1>t, <1>3, <2>1 DEF Call
  <2>3. Written(p, None, "none")
    BY ZenonT(40), <1>t, <1>4, <1>5, DeleteEffect
  <2>4. Alone(p)' /\ Matched(p)'
    BY Zenon, <2>3 DEF Written, Alone, Matched
  <2>5. NoGhost(p)'
    <3>1. location[p] # None => settles(location[p], identityOf(call[c].expected))
      BY Zenon, <1>2, <1>5, RecordSettles, NoneAssumption
    <3> QED BY Zenon, <1>u, <2>2, <3>1 DEF NoGhost, CleanupUnderway, identityOf
  <2> QED BY Zenon, <1>1, <1>3, <1>u, <2>2, <2>3, <2>4, <2>5, HandlerGhost DEF Written
<1>6. CASE session[p] # call[c].expected
  <2>1. call'[c] = IdleCall
    BY Zenon, <1>t, <1>3, <1>6 DEF CommitMarkOffline, finish
  <2>2. \A q \in Players : Same(q)
    BY Zenon, <1>t, <1>4, <1>6, DeleteEffect
  <2> QED BY Zenon, <1>1, <1>2, <1>3, <1>u, <2>1, <2>2, WriteGhost
<1> QED BY Zenon, <1>5, <1>6

\* LeaveScene succeeds when nothing is left for it to delete, or when nobody has
\* to delete what is; otherwise the handler goes on to queue the cleanup.
LEMMA LeaveGhost ==
    ASSUME CInv, GInv, OneHandler, NEW c \in Calls, NEW ok \in BOOLEAN, LeaveCall(c, ok)
    PROVE  GInv'
<1> DEFINE id == identityOf(call[c].expected)
<1>t. SceneTypeOK /\ call \in [Calls -> Call] /\ lost \in [Players -> BOOLEAN]
  BY Zenon DEF CInv, PlaceTypeOK, IInv, TypeOK
<1>1. /\ call[c].op = "leave" /\ UNCHANGED storeVars /\ UNCHANGED <<monitor, minted>>
      /\ LeaveScene(call[c].player, id, c \in overtaken, ok)
      /\ overtaken' = overtaken \ {c} /\ giveUp(call[c].player, ok /\ id.gen = 0)
  BY Zenon DEF LeaveCall, LeaveSceneOrEnqueue
<1>2. call[c].player \in Players
  BY Zenon, <1>1, CallFacts DEF CInv
<1>3. PICK p \in Players : call[c].player = p
  BY Zenon, <1>2
<1> DEFINE late == c \in overtaken
<1>s. LeaveScene(p, id, late, ok)
  BY Zenon, <1>1, <1>3
<1> HIDE DEF id, late
<1>4. /\ \A q \in Players \ {p} : location'[q] = location[q]
      /\ location'[p] \in {location[p], None}
      /\ ok /\ ~late => location'[p] = None \/ ~deletes(location'[p], id)
  <2>1. /\ \A q \in Players \ {p} : location'[q] = location[q]
        /\ \/ location'[p] = location[p]
           \/ location'[p] = None /\ location[p] # None /\ deletes(location[p], id)
        /\ ok /\ ~late => location'[p] = None \/ ~deletes(location'[p], id)
    BY <1>t, <1>s, LeaveEffect
  <2> QED BY Zenon, <2>1
<1>5. \A q \in Players : Same(q)
  BY Zenon, <1>1, StoreSame
<1>6. Alone(p) /\ Alone(p)'
  BY <1>1, <1>3, <1>5 DEF GInv, CleanersAreAlone, Alone, Same
<1>7. Matched(p)' /\ token'[p] = NoToken
  BY Zenon, <1>6 DEF Alone, Matched
<1>l. /\ \A q \in Players \ {p} : lost'[q] = lost[q]
      /\ lost[p] => lost'[p]
      /\ ok /\ id.gen = 0 => lost'[p]
  BY Zenon, <1>t, <1>1, <1>3, <1>6 DEF giveUp, Alone
<1>o. late => lost[p]
  BY Zenon, <1>3 DEF GInv, OvertakenCalls, late
<1>w. location[p] # None /\ ~lost[p] => settles(location[p], id)
  <2>1. \A d \in Calls : d = c
    BY Zenon DEF OneHandler
  <2> QED BY Zenon, <1>6, <2>1 DEF GInv, NoGhost, CleanupUnderway, Alone, id
<1>8. CASE ok
  <2>1. call'[c] = IdleCall
    BY Zenon, <1>t, <1>8 DEF LeaveCall, LeaveSceneOrEnqueue, finish
  <2>2. location'[p] = None \/ lost'[p]
    BY ZenonT(40), <1>4, <1>8, <1>l, <1>o, <1>w DEF settles
  <2>3. NoGhost(p)'
    BY Zenon, <2>2 DEF NoGhost
  <2> QED BY Zenon, <1>1, <1>l, <1>3, <1>4, <1>5, <1>7, <2>1, <2>3, HandlerGhost
<1>9. CASE ~ok
  <2>1. call' = [call EXCEPT ![c].op = "enqueue"]
    BY Zenon, <1>9 DEF LeaveCall, LeaveSceneOrEnqueue
  <2>2. /\ call'[c].op = "enqueue" /\ call'[c].player = p
        /\ call'[c].expected = call[c].expected /\ call'[c].next = call[c].next
    BY Zenon, <1>t, <1>3, <2>1 DEF Call
  <2>3. /\ location'[p] # None /\ ~lost'[p] => settles(location'[p], identityOf(call'[c].expected))
        /\ c \in Calls \ overtaken'
    BY Zenon, <1>1, <1>4, <1>l, <1>w, <2>2 DEF id, identityOf
  <2>4. NoGhost(p)'
    BY ZenonT(40), <2>2, <2>3 DEF NoGhost, CleanupUnderway, identityOf
  <2> QED BY Zenon, <1>1, <1>l, <1>3, <1>4, <1>5, <1>6, <1>7, <2>2, <2>4, HandlerGhost
<1> QED BY Zenon, <1>8, <1>9

\* The queued snapshot will delete what the handler was to delete.
LEMMA EnqueueGhost ==
    ASSUME CInv, GInv, OneHandler, NEW c \in Calls, EnqueueCleanup(c),
           UNCHANGED <<monitor, placeVars, flightVars, minted, lost>>
    PROVE  GInv'
<1>t. StoreTypeOK /\ call \in [Calls -> Call]
  BY Zenon DEF CInv, IInv, TypeOK
<1>1. call[c].op = "enqueue" /\ finish(c)
  BY Zenon DEF EnqueueCleanup
<1>2. call[c].player \in Players /\ call[c].next \in PlayerSession
  BY Zenon, <1>1, CallFacts DEF CInv
<1>3. PICK p \in Players : call[c].player = p
  BY Zenon, <1>2
<1>4. Alone(p)
  BY Zenon, <1>1, <1>3 DEF GInv, CleanersAreAlone
<1>5. /\ session' = session /\ token' = token
      /\ payload'[p] = call[c].next
      /\ \A q \in Players \ {p} : Same(q)
  BY Zenon, <1>t, <1>3, <1>4, EnqueueEffect DEF EnqueueCleanup, Alone
<1>6. /\ call'[c] = IdleCall /\ UNCHANGED <<monitor, location, lost>>
      /\ overtaken' \subseteq overtaken \ {c}
  BY Zenon, <1>t, <1>1, <1>3 DEF finish, placeVars, flightVars, GInv, OvertakenCalls
<1>7. Matched(p)' /\ token'[p] = NoToken
  BY Zenon, <1>1, <1>4, <1>5 DEF GInv, SnapshotsAreCleanups, Alone, Matched
<1>8. NoGhost(p)'
  <2>1. location[p] # None /\ ~lost[p] => settles(location[p], identityOf(call[c].expected))
    <3>1. \A d \in Calls : d = c
      BY Zenon DEF OneHandler
    <3> QED BY Zenon, <1>4, <3>1 DEF GInv, NoGhost, CleanupUnderway, Alone
  <2>2. identityOf(call[c].expected) = identityOf(call[c].next)
    BY Zenon, <1>1, <1>3 DEF identityOf, CInv, StoredPast, CallsPast
  <2>3. location'[p] # None /\ ~lost'[p] => settles(location'[p], identityOf(payload'[p]))
    BY ZenonT(40), <1>5, <1>6, <2>1, <2>2
  <2>4. payload'[p] # None
    BY Zenon, <1>2, <1>5, NoneAssumption
  <2> QED BY ZenonT(40), <2>3, <2>4 DEF NoGhost, CleanupUnderway, identityOf
<1> QED BY Zenon, <1>3, <1>5, <1>6, <1>7, <1>8, HandlerGhost

\* A handler that gives up its cleanup says so.
LEMMA DropGhost ==
    ASSUME CInv, GInv, OneHandler, NEW c \in Calls, DropCall(c)
    PROVE  GInv'
<1>1. /\ call'[c] = IdleCall /\ UNCHANGED storeVars /\ UNCHANGED <<monitor, location>>
      /\ call[c] # IdleCall /\ overtaken' = overtaken \ {c}
  BY Zenon DEF DropCall, AbortCall, finish, placeVars, CInv, IInv, TypeOK
<1>2. call[c].op # "idle" /\ call[c].player \in Players
  BY Zenon, <1>1, CallFacts DEF CInv, Logins
<1>3. PICK p \in Players : call[c].player = p
  BY Zenon, <1>2
<1>4. \A q \in Players : Same(q)
  BY Zenon, <1>1, StoreSame
<1>5. /\ \A q \in Players \ {p} : lost'[q] = lost[q]
      /\ lost[p] => lost'[p]
      /\ call[c].op \in {"leave", "enqueue"} => lost'[p]
  <2>1. call[c].op \in {"leave", "enqueue"} => session[p] = None
    BY Zenon, <1>3 DEF GInv, CleanersAreAlone, Alone
  <2> QED BY Zenon, <1>3, <2>1 DEF DropCall, giveUp, CInv, PlaceTypeOK
<1>k. LostKept(p)
  BY Zenon, <1>5 DEF LostKept
<1>6. Matched(p)' /\ NoGhost(p)'
  <2>1. \A d \in Calls : d = c
    BY Zenon DEF OneHandler
  <2>2. CASE call[c].op \in {"leave", "enqueue"}
    BY ZenonT(30), <1>4, <1>5, <2>2 DEF GInv, Matched, NoGhost, Same
  <2>3. CASE call[c].op \notin {"leave", "enqueue"}
    BY Zenon, <1>1, <1>4, <1>5, <2>1, <2>3, PlayerKept DEF GInv
  <2> QED BY Zenon, <2>2, <2>3
<1> QED BY Zenon, <1>1, <1>3, <1>4, <1>5, <1>k, <1>6, HandlerGhost

\* Every step of the only handler.
LEMMA HandlerStepGhost ==
    ASSUME CInv, IInv', GInv, OneHandler, NEW c \in Calls,
           \/ \E p \in Players : BeginCall(c, p)
           \/ CommitLogin(c) \/ CommitCall(c)
           \/ \E ok \in BOOLEAN : LeaveCall(c, ok)
           \/ DropCall(c)
    PROVE  GInv'
<1>1. CASE CommitCall(c)
  BY Zenon, <1>1, ReplaceGhost, DeleteGhost, EnqueueGhost DEF CommitCall
<1> QED BY Zenon, <1>1, ReplaceGhost, BeginGhost, LeaveGhost, DropGhost

\* A monitor's claim in hand.
LEMMA ClaimInHand ==
    ASSUME CInv, NEW m \in Monitors, monitor[m].pc \in {"rearm", "commit", "notify", "ack"}
    PROVE  \E b \in Claim : monitor[m].claim = b /\ b \in monitor[m].batch
<1>1. monitor[m].claim \in monitor[m].batch
  BY Zenon DEF CInv, IInv, MonitorCoherent
<1>2. monitor[m].batch \in SUBSET Claim
  BY Zenon DEF CInv, IInv, TypeOK, Monitor
<1> QED BY Zenon, <1>1, <1>2

\* A monitor's step, as far as the claims are concerned: it leaves players
\* alone, ends a session, or drops the claim of a player.
LEMMA MonitorGhost ==
    ASSUME CInv, GInv, UNCHANGED call, NEW m \in Monitors,
           \A n \in Monitors \ {m} : monitor'[n] = monitor[n],
           monitor'[m].batch \subseteq monitor[m].batch,
           overtaken' \subseteq overtaken,
           m \in overtaken' => monitor'[m].pc = "notify" /\ monitor'[m].claim = monitor[m].claim,
           \A q \in Players : lost[q] => lost'[q],
           \A b \in monitor'[m].batch :
              /\ monitor'[m].pc = "ack" /\ monitor'[m].claim = b /\ token'[b.player] = b.token
              /\ b.payload # None /\ b.payload.state = Disconnecting
              => /\ session'[b.player] = None
                 /\ location'[b.player] # None /\ ~lost'[b.player]
                    => ~settles(location'[b.player], identityOf(b.payload)),
           \A q \in Players :
              /\ location'[q] \in {location[q], None}
              /\ session'[q] \in {session[q], None}
              /\ token'[q] = NoToken \/ (token'[q] = token[q] /\ payload'[q] = payload[q]),
           \A q \in Players : Matched(q)' /\ NoGhost(q)',
           \A q \in Players : Alone(q) => Alone(q)'
    PROVE  GInv'
<1>t. \A n \in Monitors : \A b \in monitor[n].batch :
         b.player \in Players /\ b.token \in Tokens /\ b.token # NoToken
  BY Zenon, BatchTypes, StoreAssumption DEF CInv, IInv, TypeOK
<1>b. \A n \in Monitors : monitor'[n].batch \subseteq monitor[n].batch
  BY Zenon
<1>1. ClaimsMatch'
  BY SMTT(30), <1>t, <1>b DEF GInv, ClaimsMatch
<1>2. AcksAreDone'
  <2> SUFFICES ASSUME NEW n \in Monitors, NEW b \in monitor'[n].batch,
                      monitor'[n].pc = "ack", monitor'[n].claim = b, token'[b.player] = b.token,
                      b.payload # None, b.payload.state = Disconnecting
               PROVE  /\ session'[b.player] = None
                      /\ location'[b.player] # None /\ ~lost'[b.player]
                         => ~settles(location'[b.player], identityOf(b.payload))
    BY Zenon DEF AcksAreDone
  <2>1. CASE n = m
    BY Zenon, <2>1
  <2>2. CASE n # m
    <3>1. b \in monitor[n].batch /\ monitor[n].pc = "ack" /\ monitor[n].claim = b
      BY Zenon, <2>2
    <3>2. token[b.player] = b.token
      BY Zenon, <3>1, <1>t
    <3>3. /\ session[b.player] = None
          /\ location[b.player] # None /\ ~lost[b.player]
             => ~settles(location[b.player], identityOf(b.payload))
      BY Zenon, <3>1, <3>2 DEF GInv, AcksAreDone
    <3> QED BY Zenon, <3>1, <3>3, <1>t
  <2> QED BY Zenon, <2>1, <2>2
<1>3. CleanersAreAlone' /\ SnapshotsAreCleanups'
  BY Zenon DEF GInv, CleanersAreAlone, SnapshotsAreCleanups
<1>4. OvertakenCalls'
  BY Zenon DEF GInv, OvertakenCalls
<1>5. OvertakenMonitors'
  <2> SUFFICES ASSUME NEW n \in Monitors, NEW p \in Players, n \in overtaken'
               PROVE  /\ monitor'[n].pc = "notify"
                      /\ monitor'[n].claim.player = p /\ token'[p] = monitor'[n].claim.token
                         => lost'[p]
    BY Zenon DEF OvertakenMonitors
  <2>1. monitor[n].pc = "notify" /\ monitor[n].claim \in monitor[n].batch
    BY Zenon DEF GInv, OvertakenMonitors, CInv, IInv, MonitorCoherent
  <2>2. monitor'[n].pc = "notify" /\ monitor'[n].claim = monitor[n].claim
    BY Zenon, <2>1
  <2>3. ASSUME monitor[n].claim.player = p, token'[p] = monitor[n].claim.token
        PROVE  lost'[p]
    <3>0. monitor[n].claim.token # NoToken
      BY Zenon, <1>t, <2>1
    <3>1. token'[p] = token[p]
      BY Zenon, <2>3, <3>0
    <3>2. n \in overtaken /\ token[p] = monitor[n].claim.token
      BY Zenon, <2>3, <3>1
    <3>3. lost[p]
      BY Zenon, <2>3, <3>2 DEF GInv, OvertakenMonitors
    <3> QED BY Zenon, <3>3
  <2> QED BY Zenon, <2>2, <2>3
<1> QED BY Zenon, <1>1, <1>2, <1>3, <1>4, <1>5 DEF GInv

\* Steps in which a monitor changes its own memory only, or renews its claims.
LEMMA IdleGhost ==
    ASSUME CInv, GInv, NEW m \in Monitors, UNCHANGED <<call, location>>,
           \A q \in Players : lost[q] => lost'[q],
           overtaken' = overtaken \ {n \in Monitors : monitor'[n].pc # "notify"},
           \/ Heartbeat(m) \/ EndRound(m)
           \/ \E claim \in monitor[m].todo, readFails \in BOOLEAN,
                 afk \in {"inactive", "active", "unknown"} : Examine(m, claim, readFails, afk)
           \/ AbandonClaim(m) \/ AbortRound(m)
    PROVE  GInv'
<1>t. StoreTypeOK /\ monitor \in [Monitors -> Monitor]
  BY Zenon DEF CInv, IInv, TypeOK
<1>1. UNCHANGED <<session, ready, token, payload>>
  BY Zenon DEF Heartbeat, renewLeaseClaims, EndRound, Examine, AbandonClaim, AbortRound, storeVars
<1>2. \A q \in Players : Alone(q) => Alone(q)'
  <2>1. CASE UNCHANGED storeVars
    BY Zenon, <2>1 DEF Alone, storeVars
  <2>2. CASE Heartbeat(m)
    <3>1. \A b \in monitor[m].batch : b.token # NoToken
      BY Zenon, <1>t, BatchTypes, StoreAssumption
    <3> QED BY Zenon, <1>1, <2>2, <3>1 DEF Heartbeat, renewLeaseClaims, Alone
  <2> QED BY ZenonT(40), <2>1, <2>2 DEF EndRound, Examine, AbandonClaim, AbortRound
<1>3. \A q \in Players : Matched(q)' /\ NoGhost(q)'
  BY Zenon, <1>1 DEF GInv, Matched, NoGhost, CleanupUnderway, identityOf
<1>4. /\ \A n \in Monitors \ {m} : monitor'[n] = monitor[n]
      /\ monitor'[m].batch \subseteq monitor[m].batch
      /\ monitor'[m].pc = "ack" =>
            \/ monitor'[m] = monitor[m]
            \/ monitor'[m].claim.payload # None /\ monitor'[m].claim.payload.state # Disconnecting
      /\ monitor'[m].pc = "notify" => monitor'[m].claim = monitor[m].claim
  <2>1. CASE Heartbeat(m)
    BY Zenon, <2>1 DEF Heartbeat
  <2>2. CASE EndRound(m) \/ AbortRound(m)
    <3>1. monitor' = [monitor EXCEPT ![m] = IdleMonitor]
      BY Zenon, <2>2 DEF EndRound, AbortRound
    <3>2. monitor'[m] = IdleMonitor /\ \A n \in Monitors \ {m} : monitor'[n] = monitor[n]
      BY Zenon, <3>1, <1>t
    <3>3. IdleMonitor.batch = {} /\ IdleMonitor.pc \notin {"ack", "notify"}
      BY DEF IdleMonitor
    <3> QED BY Zenon, <3>2, <3>3
  <2>3. CASE AbandonClaim(m)
    BY Zenon, <2>3, <1>t, NextClaimEffect DEF AbandonClaim
  <2>4. ASSUME NEW claim \in monitor[m].todo, NEW readFails \in BOOLEAN,
               NEW afk \in {"inactive", "active", "unknown"}, Examine(m, claim, readFails, afk)
        PROVE  /\ \A n \in Monitors \ {m} : monitor'[n] = monitor[n]
               /\ monitor'[m].batch = monitor[m].batch
               /\ monitor'[m].pc = triage(claim.payload, session[claim.player] # None \/ readFails, afk)
               /\ monitor'[m].claim = claim
    BY Zenon, <2>4, <1>t DEF Examine, Monitor
  <2> QED BY Zenon, <2>1, <2>2, <2>3, <2>4 DEF triage
<1>5. \A b \in monitor'[m].batch :
         /\ monitor'[m].pc = "ack" /\ monitor'[m].claim = b /\ token'[b.player] = b.token
         /\ b.payload # None /\ b.payload.state = Disconnecting
         => /\ session'[b.player] = None
            /\ location'[b.player] # None /\ ~lost'[b.player]
               => ~settles(location'[b.player], identityOf(b.payload))
  <2> SUFFICES ASSUME NEW b \in monitor'[m].batch,
                      monitor'[m].pc = "ack", monitor'[m].claim = b, token[b.player] = b.token,
                      b.payload # None, b.payload.state = Disconnecting
               PROVE  /\ session[b.player] = None
                      /\ location[b.player] # None /\ ~lost'[b.player]
                         => ~settles(location[b.player], identityOf(b.payload))
    BY ZenonT(30), <1>1
  <2>1. monitor'[m] = monitor[m]
    BY Zenon, <1>4
  <2>2. /\ session[b.player] = None
        /\ location[b.player] # None /\ ~lost[b.player]
           => ~settles(location[b.player], identityOf(b.payload))
    BY Zenon, <2>1 DEF GInv, AcksAreDone
  <2>3. b.player \in Players
    BY Zenon, <1>t, <2>1, BatchTypes
  <2> QED BY Zenon, <2>2, <2>3
<1>6. /\ overtaken' \subseteq overtaken
      /\ m \in overtaken' => monitor'[m].pc = "notify" /\ monitor'[m].claim = monitor[m].claim
  BY Zenon, <1>4
<1> QED BY Zenon, <1>1, <1>2, <1>3, <1>4, <1>5, <1>6, MonitorGhost

\* A claim that is dropped: its player is as before but for the claim and
\* possibly the lease.
Dropped(p) ==
    /\ session' = session /\ processing'[p] = "none" /\ token'[p] = NoToken /\ payload'[p] = None
    /\ \A q \in Players \ {p} : Same(q)

\* A monitor drops a claim that stands: the player has a session, or nothing is
\* left for the payload to delete, or the cleanup is given up.
LEMMA DropClaimGhost ==
    ASSUME CInv, GInv, NEW m \in Monitors, UNCHANGED <<call, location>>, nextClaim(m),
           \A q \in Players : lost[q] => lost'[q],
           overtaken' = overtaken \ {n \in Monitors : monitor'[n].pc # "notify"},
           NEW p \in Players, token[p] # NoToken, Dropped(p),
           \/ session[p] # None
           \/ lost'[p]
           \/ payload[p] = None
           \/ location[p] # None /\ ~lost[p] => ~settles(location[p], identityOf(payload[p]))
    PROVE  GInv'
<1>1. /\ \A n \in Monitors : monitor'[n].batch = monitor[n].batch
      /\ monitor'[m].pc = "next"
      /\ \A n \in Monitors \ {m} : monitor'[n] = monitor[n]
  BY Zenon, NextClaimEffect DEF CInv, IInv, TypeOK
<1>o. overtaken' \subseteq overtaken /\ m \notin overtaken'
  BY Zenon, <1>1
<1>2. \A q \in Players \ {p} : Matched(q)' /\ NoGhost(q)'
  BY Zenon, PlayerKept DEF GInv, Dropped
<1>3. Matched(p)' /\ NoGhost(p)'
  <2>1. Matched(p)'
    BY Zenon DEF Dropped, Matched
  <2>2. ASSUME location'[p] # None, session'[p] = None, ~lost'[p]
        PROVE  CleanupUnderway(p)'
    <3>1. CleanupUnderway(p) /\ session[p] = None /\ location[p] # None
      BY ZenonT(40), <2>2 DEF GInv, NoGhost, Dropped
    <3>2. payload[p] # None => ~settles(location[p], identityOf(payload[p]))
      BY Zenon, <2>2, <3>1
    <3>3. \E c \in Calls \ overtaken :
             /\ call[c].op \in {"leave", "enqueue"} /\ call[c].player = p
             /\ settles(location[p], identityOf(call[c].expected))
      BY Zenon, <3>1, <3>2 DEF CleanupUnderway
    <3> QED BY Zenon, <3>3 DEF CleanupUnderway, identityOf
  <2> QED BY Zenon, <2>1, <2>2 DEF NoGhost
<1>4. \A q \in Players : Alone(q) => Alone(q)'
  BY ZenonT(40) DEF Dropped, Alone, Same
<1>5. \A q \in Players : /\ session'[q] \in {session[q], None}
                         /\ \/ token'[q] = NoToken
                            \/ token'[q] = token[q] /\ payload'[q] = payload[q]
  BY Zenon DEF Dropped, Same
<1> QED BY Zenon, <1>1, <1>o, <1>2, <1>3, <1>4, <1>5, MonitorGhost

\* A script that finds the token changed does nothing.
LEMMA NotOwnedGhost ==
    ASSUME CInv, GInv, NEW m \in Monitors, UNCHANGED <<call, location>>, nextClaim(m),
           \A q \in Players : lost[q] => lost'[q], \A q \in Players : Same(q),
           overtaken' = overtaken \ {n \in Monitors : monitor'[n].pc # "notify"}
    PROVE  GInv'
<1>1. /\ \A n \in Monitors : monitor'[n].batch = monitor[n].batch
      /\ monitor'[m].pc = "next"
      /\ \A n \in Monitors \ {m} : monitor'[n] = monitor[n]
  BY Zenon, NextClaimEffect DEF CInv, IInv, TypeOK
<1>o. overtaken' \subseteq overtaken /\ m \notin overtaken'
  BY Zenon, <1>1
<1>2. \A q \in Players : Matched(q)' /\ NoGhost(q)'
  BY Zenon, PlayerKept DEF GInv
<1>3. \A q \in Players : Alone(q) => Alone(q)'
  BY ZenonT(40) DEF Alone, Same
<1> QED BY ZenonT(40), <1>1, <1>o, <1>2, <1>3, MonitorGhost DEF Same

\* Re-arming gives up the cleanup of a player without a session; acknowledging
\* ends it when it is done.
LEMMA RearmAckGhost ==
    ASSUME CInv, GInv, NEW m \in Monitors, QuietMonitor(m), Rearm(m) \/ Ack(m)
    PROVE  GInv'
<1>t. StoreTypeOK
  BY Zenon DEF CInv, IInv, TypeOK
<1>u. /\ UNCHANGED <<call, location>> /\ nextClaim(m)
      /\ \A q \in Players : lost[q] => lost'[q]
      /\ overtaken' = overtaken \ {n \in Monitors : monitor'[n].pc # "notify"}
      /\ monitor[m].pc \in {"rearm", "ack"}
  BY ZenonT(40) DEF QuietMonitor, placeVars, Rearm, Ack
<1>1. PICK b \in Claim : monitor[m].claim = b /\ b \in monitor[m].batch
  BY Zenon, <1>u, ClaimInHand
<1>p. b.player \in Players /\ b.token # NoToken
  BY Zenon, StoreAssumption DEF Claim
<1>2. (\A q \in Players : Same(q)) \/ (token[b.player] = b.token /\ Dropped(b.player))
  BY ZenonT(30), <1>t, <1>1, <1>p DEF Rearm, Ack, rearmLeaseClaim, ackLeaseClaim, dropClaim, storeVars,
                          StoreTypeOK, Same, Dropped
<1>3. CASE \A q \in Players : Same(q)
  BY ZenonT(40), <1>u, <1>3, NotOwnedGhost
<1>4. CASE token[b.player] = b.token /\ Dropped(b.player)
  <2>1. payload[b.player] = b.payload
    BY Zenon, <1>1, <1>4 DEF GInv, ClaimsMatch
  <2>2. CASE monitor[m].pc = "rearm"
    <3>1. session[b.player] # None \/ payload[b.player] = None \/ lost'[b.player]
      BY Zenon, <1>4, <1>p, <2>2 DEF QuietMonitor, Dropped
    <3> QED BY Zenon, <1>u, <1>p, <1>4, <3>1, DropClaimGhost
  <2>3. CASE monitor[m].pc = "ack"
    <3>1. \/ session[b.player] # None \/ payload[b.player] = None
          \/ location[b.player] # None /\ ~lost[b.player]
             => ~settles(location[b.player], identityOf(payload[b.player]))
      BY Zenon, <1>1, <1>4, <1>p, <2>1, <2>3 DEF GInv, AcksAreDone, Matched
    <3> QED BY Zenon, <1>u, <1>p, <1>4, <3>1, DropClaimGhost
  <2> QED BY Zenon, <1>u, <2>2, <2>3
<1> QED BY Zenon, <1>2, <1>3, <1>4

\* The commit ends the session the claim is about; its payload is what will
\* clean up, as the record would have.
LEMMA CommitGhost ==
    ASSUME CInv, GInv, NEW m \in Monitors, QuietMonitor(m), CommitExpiry(m)
    PROVE  GInv'
<1>t. StoreTypeOK /\ monitor \in [Monitors -> Monitor]
  BY Zenon DEF CInv, IInv, TypeOK
<1>u. /\ UNCHANGED <<call, location>> /\ monitor[m].pc = "commit"
      /\ \A q \in Players : lost[q] => lost'[q]
      /\ overtaken' \subseteq overtaken
  BY ZenonT(40) DEF QuietMonitor, placeVars, CommitExpiry
<1>1. PICK b \in Claim : monitor[m].claim = b /\ b \in monitor[m].batch
  BY Zenon, <1>u, ClaimInHand
<1>p. b.player \in Players /\ b.token # NoToken
  BY Zenon, StoreAssumption DEF Claim
<1> DEFINE p == b.player
           result == commitLeaseExpiryResult(p, b.token, b.payload)
<1>2. /\ commitLeaseExpiry(p, b.token, b.payload)
      /\ \/ b.payload = None /\ goto(m, "ack")
         \/ b.payload # None /\ result = "committed" /\ goto(m, "notify")
         \/ b.payload # None /\ result # "committed" /\ nextClaim(m)
  BY Zenon, <1>1 DEF CommitExpiry
<1>3. /\ \A n \in Monitors : monitor'[n].batch = monitor[n].batch
      /\ \A n \in Monitors \ {m} : monitor'[n] = monitor[n]
      /\ monitor'[m].pc = "ack" => b.payload = None /\ monitor'[m].claim = b
  BY <1>t, <1>1, <1>2, NextClaimEffect, GotoEffect
<1>a. \A d \in monitor'[m].batch :
         /\ monitor'[m].pc = "ack" /\ monitor'[m].claim = d /\ token'[d.player] = d.token
         /\ d.payload # None /\ d.payload.state = Disconnecting
         => /\ session'[d.player] = None
            /\ location'[d.player] # None /\ ~lost'[d.player]
               => ~settles(location'[d.player], identityOf(d.payload))
  BY Zenon, <1>3
<1>o. m \notin overtaken'
  BY Zenon, <1>u, <1>p DEF GInv, OvertakenMonitors
<1>4. CASE result = "notOwned"
  <2>1. \A q \in Players : Same(q)
    BY Zenon, <1>2, <1>4 DEF commitLeaseExpiry, Same
  <2>2. \A q \in Players : Matched(q)' /\ NoGhost(q)'
    BY Zenon, <1>u, <2>1, PlayerKept DEF GInv
  <2>3. \A q \in Players : Alone(q) => Alone(q)'
    BY Zenon, <2>1 DEF Alone, Same
  <2>4. \A q \in Players : /\ location'[q] \in {location[q], None}
                           /\ session'[q] \in {session[q], None}
                           /\ token'[q] = token[q] /\ payload'[q] = payload[q]
    BY Zenon, <1>u, <2>1 DEF Same
  <2> QED BY Zenon, <1>u, <1>o, <1>3, <1>a, <2>2, <2>3, <2>4, MonitorGhost
<1>5. CASE result = "superseded"
  <2>1. token[p] = b.token /\ session[p] # None /\ Dropped(p)
    BY Zenon, <1>t, <1>p, <1>2, <1>5 DEF commitLeaseExpiryResult, commitLeaseExpiry, dropClaim, Dropped,
                                  StoreTypeOK, Same
  <2>2. \A q \in Players \ {p} : Matched(q)' /\ NoGhost(q)'
    BY Zenon, <1>u, <2>1, PlayerKept DEF GInv, Dropped
  <2>3. Matched(p)' /\ NoGhost(p)'
    BY Zenon, <2>1 DEF Dropped, Matched, NoGhost
  <2>4. \A q \in Players : Alone(q) => Alone(q)'
    BY Zenon, <2>1 DEF Dropped, Alone, Same
  <2>5. \A q \in Players : /\ location'[q] \in {location[q], None}
                           /\ session'[q] \in {session[q], None}
                           /\ \/ token'[q] = NoToken
                              \/ token'[q] = token[q] /\ payload'[q] = payload[q]
    BY Zenon, <1>u, <2>1 DEF Dropped, Same
  <2>6. \A q \in Players : Matched(q)' /\ NoGhost(q)'
    BY Zenon, <2>2, <2>3
  <2> QED BY Zenon, <1>u, <1>o, <1>3, <1>a, <2>4, <2>5, <2>6, MonitorGhost
<1>6. CASE result = "committed"
  <2>1. /\ token[p] = b.token /\ session[p] \in {None, b.payload}
        /\ session' = [session EXCEPT ![p] = None]
        /\ UNCHANGED <<ready, processing, token, payload>>
    BY Zenon, <1>2, <1>6 DEF commitLeaseExpiryResult, commitLeaseExpiry
  <2>2. payload[p] = b.payload
    BY Zenon, <1>1, <2>1 DEF GInv, ClaimsMatch
  <2>3. b.payload # None => b.payload.state = Disconnecting
    <3>1. ~InState(b.payload, Online)
      BY Zenon, <1>u, <1>1 DEF CInv, IInv, MonitorCoherent
    <3> QED BY Zenon, <3>1 DEF InState, Claim, PlayerSession
  <2>4. \A q \in Players \ {p} : Matched(q)' /\ NoGhost(q)'
    <3>1. \A q \in Players \ {p} : Same(q)
      BY Zenon, <1>t, <2>1 DEF Same, StoreTypeOK
    <3> QED BY Zenon, <1>u, <3>1, PlayerKept DEF GInv
  <2>5. Matched(p)'
    BY Zenon, <1>t, <1>p, <2>1, <2>2, <2>3 DEF Matched, StoreTypeOK
  <2>6. NoGhost(p)'
    <3> SUFFICES ASSUME location[p] # None, ~lost[p] PROVE CleanupUnderway(p)'
      BY Zenon, <1>u, <1>p DEF NoGhost
    <3>1. CASE session[p] = None
      <4>1. CleanupUnderway(p)
        BY Zenon, <1>p, <3>1 DEF GInv, NoGhost
      <4>2. CASE payload[p] # None /\ settles(location[p], identityOf(payload[p]))
        BY Zenon, <1>u, <2>1, <4>2 DEF CleanupUnderway
      <4>3. ASSUME NEW c \in Calls \ overtaken,
                   call[c].op \in {"leave", "enqueue"}, call[c].player = p,
                   settles(location[p], identityOf(call[c].expected))
            PROVE  CleanupUnderway(p)'
        BY Zenon, <1>u, <4>3 DEF CleanupUnderway
      <4> QED BY Zenon, <4>1, <4>2, <4>3 DEF CleanupUnderway
    <3>2. CASE session[p] # None
      <4>1. payload[p] # None /\ settles(location[p], identityOf(payload[p]))
        BY ZenonT(40), <1>p, <2>1, <2>2, <3>2, RecordSettles
      <4> QED BY Zenon, <1>u, <2>1, <4>1 DEF CleanupUnderway
    <3> QED BY Zenon, <3>1, <3>2
  <2>7. \A q \in Players : Alone(q) => Alone(q)'
    BY Zenon, <1>t, <2>1 DEF Alone, StoreTypeOK
  <2>8. \A q \in Players : session'[q] \in {session[q], None}
    BY Zenon, <1>t, <2>1 DEF StoreTypeOK
  <2> QED BY ZenonT(40), <1>u, <1>o, <1>3, <1>a, <2>1, <2>4, <2>5, <2>6, <2>7, <2>8, MonitorGhost
<1> QED BY Zenon, <1>4, <1>5, <1>6 DEF commitLeaseExpiryResult

\* A claim takes over the payload of its player, and never that of a player a
\* handler is cleaning up after.
LEMMA ClaimBatchGhost ==
    ASSUME CInv, GInv, NEW m \in Monitors, QuietMonitor(m), ClaimBatch(m)
    PROVE  GInv'
<1>t. StoreTypeOK /\ monitor \in [Monitors -> Monitor]
  BY Zenon DEF CInv, IInv, TypeOK
<1>u. /\ UNCHANGED <<call, location>> /\ \A q \in Players : lost[q] => lost'[q]
      /\ overtaken' = overtaken \ {n \in Monitors : monitor'[n].pc # "notify"}
  BY Zenon DEF QuietMonitor, placeVars
<1>1. PICK recovered \in SUBSET Players, claimed \in SUBSET Players, t \in FreshTokens :
        /\ claimExpiredLeases(recovered, claimed, t)
        /\ LET batch == {[player |-> p, token |-> t, payload |-> claimedPayload(p)] :
                            p \in claimed}
           IN  monitor' = [monitor EXCEPT ![m] = [pc |-> "next", batch |-> batch,
                                                  todo |-> batch, claim |-> None]]
  BY Zenon DEF ClaimBatch
<1> DEFINE batch == {[player |-> p, token |-> t, payload |-> claimedPayload(p)] : p \in claimed}
<1>2. /\ monitor'[m].batch = batch /\ monitor'[m].pc = "next"
      /\ \A n \in Monitors \ {m} : monitor'[n] = monitor[n]
  BY Zenon, <1>t, <1>1
<1>3. /\ t \in Tokens /\ t # NoToken
      /\ \A n \in Monitors : \A b \in monitor[n].batch : b.token # t
  BY Zenon, StoreAssumption DEF FreshTokens
<1>4. /\ session' = session
      /\ \A q \in Players :
            \/ q \in claimed /\ token'[q] = t /\ payload'[q] = claimedPayload(q)
            \/ q \notin claimed /\ token'[q] \in {token[q], NoToken} /\ payload'[q] = payload[q]
  BY Zenon, <1>1 DEF claimExpiredLeases
<1>5. \A q \in Players : Matched(q)' /\ NoGhost(q)'
  <2> SUFFICES ASSUME NEW q \in Players PROVE Matched(q)' /\ NoGhost(q)'
    BY Zenon
  <2>0. Matched(q) /\ NoGhost(q)
    BY Zenon DEF GInv
  <2>1. Matched(q)'
    BY ZenonT(40), <1>4, <2>0 DEF Matched, claimedPayload
  <2>2. session[q] = None => payload'[q] = payload[q]
    BY Zenon, <1>4 DEF claimedPayload
  <2>3. NoGhost(q)'
    <3> SUFFICES ASSUME location'[q] # None, session'[q] = None, ~lost'[q]
                 PROVE  CleanupUnderway(q)'
      BY Zenon DEF NoGhost
    <3>1. CleanupUnderway(q) /\ payload'[q] = payload[q]
      BY ZenonT(40), <1>u, <1>4, <2>0, <2>2 DEF NoGhost
    <3>2. \A c \in Calls \ overtaken : c \in Calls \ overtaken'
      BY Zenon, <1>u
    <3> QED BY Zenon, <1>u, <3>1, <3>2 DEF CleanupUnderway
  <2> QED BY Zenon, <2>1, <2>3
<1>b. \A n \in Monitors : \A b \in monitor[n].batch : b.player \in Players /\ b.token # NoToken
  BY Zenon, <1>t, BatchTypes, StoreAssumption
<1>6. ClaimsMatch'
  <2> SUFFICES ASSUME NEW n \in Monitors, NEW b \in monitor'[n].batch, token'[b.player] = b.token
               PROVE  payload'[b.player] = b.payload
    BY Zenon DEF ClaimsMatch
  <2>1. CASE n = m
    <3>1. PICK q \in claimed : b = [player |-> q, token |-> t, payload |-> claimedPayload(q)]
      BY Zenon, <2>1, <1>2
    <3>2. b.player = q /\ b.payload = claimedPayload(q) /\ q \in Players
      BY Zenon, <3>1
    <3> QED BY Zenon, <3>2, <1>4
  <2>2. CASE n # m
    <3>1. b \in monitor[n].batch
      BY Zenon, <2>2, <1>2
    <3>2. b.player \in Players /\ b.token # NoToken /\ b.token # t
      BY Zenon, <3>1, <1>3, <1>b
    <3>3. token[b.player] = b.token /\ payload'[b.player] = payload[b.player]
      BY Zenon, <3>2, <1>4
    <3> QED BY ZenonT(40), <3>1, <3>3 DEF GInv, ClaimsMatch
  <2> QED BY Zenon, <2>1, <2>2
<1>7. AcksAreDone'
  <2> SUFFICES ASSUME NEW n \in Monitors, NEW b \in monitor'[n].batch,
                      monitor'[n].pc = "ack", monitor'[n].claim = b, token'[b.player] = b.token,
                      b.payload # None, b.payload.state = Disconnecting
               PROVE  /\ session[b.player] = None
                      /\ location[b.player] # None /\ ~lost'[b.player]
                         => ~settles(location[b.player], identityOf(b.payload))
    BY Zenon, <1>u, <1>4 DEF AcksAreDone
  <2>1. n # m /\ monitor'[n] = monitor[n]
    BY Zenon, <1>2
  <2>2. b.player \in Players /\ b.token # NoToken /\ b.token # t
    BY Zenon, <2>1, <1>3, <1>b
  <2>3. token[b.player] = b.token
    BY Zenon, <2>2, <1>4
  <2>4. /\ session[b.player] = None
        /\ location[b.player] # None /\ ~lost[b.player]
           => ~settles(location[b.player], identityOf(b.payload))
    BY ZenonT(40), <2>1, <2>3 DEF GInv, AcksAreDone
  <2> QED BY Zenon, <1>u, <2>2, <2>4
<1>8. \A q \in Players : Alone(q) => Alone(q)'
  <2>1. /\ recovered \subseteq {q \in Players : processing[q] = "due"}
        /\ claimed \subseteq {q \in Players : ready[q] = "due"} \cup recovered
    BY Zenon, <1>1 DEF claimExpiredLeases, Limited
  <2>2. ASSUME NEW q \in Players, Alone(q) PROVE Alone(q)'
    <3>1. q \notin recovered /\ q \notin claimed
      BY Zenon, <2>1, <2>2 DEF Alone
    <3> QED BY Zenon, <1>1, <2>2, <3>1 DEF claimExpiredLeases, Alone
  <2> QED BY Zenon, <2>2
<1>9. CleanersAreAlone' /\ SnapshotsAreCleanups'
  BY Zenon, <1>u, <1>8 DEF GInv, CleanersAreAlone, SnapshotsAreCleanups
<1>10. OvertakenCalls'
  BY Zenon, <1>u DEF GInv, OvertakenCalls
<1>11. OvertakenMonitors'
  <2> SUFFICES ASSUME NEW n \in Monitors, NEW p \in Players, n \in overtaken'
               PROVE  /\ monitor'[n].pc = "notify"
                      /\ monitor'[n].claim.player = p /\ token'[p] = monitor'[n].claim.token
                         => lost'[p]
    BY Zenon DEF OvertakenMonitors
  <2>1. n # m /\ monitor'[n] = monitor[n] /\ n \in overtaken
    BY Zenon, <1>u, <1>2
  <2>2. monitor[n].pc = "notify" /\ monitor[n].claim \in monitor[n].batch
    BY Zenon, <2>1 DEF GInv, OvertakenMonitors, CInv, IInv, MonitorCoherent
  <2>3. monitor[n].claim.token # t /\ monitor[n].claim.token # NoToken
    BY Zenon, <2>2, <1>3, <1>b
  <2>4. ASSUME monitor[n].claim.player = p, token'[p] = monitor[n].claim.token
        PROVE  lost'[p]
    <3>1. token[p] = monitor[n].claim.token
      BY Zenon, <1>4, <2>3, <2>4
    <3> QED BY Zenon, <1>u, <2>1, <2>4, <3>1 DEF GInv, OvertakenMonitors
  <2> QED BY Zenon, <2>1, <2>2, <2>4
<1> QED BY Zenon, <1>5, <1>6, <1>7, <1>9, <1>10, <1>11 DEF GInv

\* A monitor's LeaveScene: when it succeeds nothing is left for the payload, or
\* nobody has to delete what is.
LEMMA NotifyGhost ==
    ASSUME CInv, GInv, NEW m \in Monitors, NEW published \in BOOLEAN, NEW ok \in BOOLEAN,
           NotifyScene(m, published, ok)
    PROVE  GInv'
<1>t. SceneTypeOK /\ monitor \in [Monitors -> Monitor] /\ lost \in [Players -> BOOLEAN]
  BY Zenon DEF CInv, PlaceTypeOK, IInv, TypeOK
<1>u. /\ UNCHANGED storeVars /\ UNCHANGED call /\ monitor[m].pc = "notify"
      /\ overtaken' = overtaken \ {m}
      /\ (ok /\ goto(m, "ack")) \/ nextClaim(m)
  BY Zenon DEF NotifyScene, Notify
<1>1. PICK b \in Claim : monitor[m].claim = b /\ b \in monitor[m].batch
  BY Zenon, <1>u, ClaimInHand
<1>p. b.player \in Players
  BY Zenon DEF Claim
<1>2. /\ LeaveScene(b.player, identityOf(b.payload), m \in overtaken, ok)
      /\ giveUp(b.player, ok /\ identityOf(b.payload).gen = 0)
  BY Zenon, <1>1 DEF NotifyScene
<1>l. /\ \A q \in Players : lost[q] => lost'[q]
      /\ ok /\ identityOf(b.payload).gen = 0 /\ session[b.player] = None => lost'[b.player]
  BY Zenon, <1>t, <1>p, <1>2 DEF giveUp
<1> DEFINE late == m \in overtaken
<1>s. LeaveScene(b.player, identityOf(b.payload), late, ok)
  BY Zenon, <1>2
<1> HIDE DEF late
<1>3. /\ \A q \in Players : location'[q] \in {location[q], None}
      /\ ok /\ ~late =>
            location'[b.player] = None \/ ~deletes(location'[b.player], identityOf(b.payload))
  <2>1. /\ \A q \in Players \ {b.player} : location'[q] = location[q]
        /\ \/ location'[b.player] = location[b.player]
           \/ /\ location'[b.player] = None /\ location[b.player] # None
              /\ deletes(location[b.player], identityOf(b.payload))
        /\ ok /\ ~late =>
              location'[b.player] = None \/ ~deletes(location'[b.player], identityOf(b.payload))
    <3> DEFINE q == b.player
               id == identityOf(b.payload)
    <3>1. SceneTypeOK /\ q \in Players /\ LeaveScene(q, id, late, ok)
      BY Zenon, <1>t, <1>p, <1>s
    <3> HIDE DEF q, id
    <3>2. /\ \A r \in Players \ {q} : location'[r] = location[r]
          /\ \/ location'[q] = location[q]
             \/ location'[q] = None /\ location[q] # None /\ deletes(location[q], id)
          /\ ok /\ ~late => location'[q] = None \/ ~deletes(location'[q], id)
      BY SMTT(30), <3>1, LeaveEffect
    <3> QED BY Zenon, <3>2 DEF q, id
  <2> QED BY Zenon, <2>1
<1>4. /\ \A n \in Monitors : monitor'[n].batch = monitor[n].batch
      /\ \A n \in Monitors \ {m} : monitor'[n] = monitor[n]
      /\ monitor'[m].pc = "ack" => ok /\ monitor'[m].claim = b
  BY Zenon, <1>t, <1>u, <1>1, NextClaimEffect, GotoEffect
<1>5. \A q \in Players : Same(q)
  BY Zenon, <1>u, StoreSame
<1>6. \A q \in Players : Matched(q)' /\ NoGhost(q)'
  BY Zenon, <1>u, <1>l, <1>3, <1>5, PlayerKept DEF GInv
<1>7. \A q \in Players : Alone(q) => Alone(q)'
  BY Zenon, <1>5 DEF Alone, Same
<1>8. token'[b.player] = b.token => session'[b.player] = None
  BY Zenon, <1>u, <1>1, <1>p, <1>5 DEF Same, CInv, IInv, NotifyOnlyWithoutSession
<1>9. \A q \in Players : session'[q] = session[q] /\ token'[q] = token[q] /\ payload'[q] = payload[q]
  BY Zenon, <1>5 DEF Same
<1>o. ASSUME ok, token'[b.player] = b.token, location'[b.player] # None, ~lost'[b.player]
      PROVE  ~settles(location'[b.player], identityOf(b.payload))
  <2>1. token[b.player] = b.token /\ session[b.player] = None
    BY Zenon, <1>o, <1>8, <1>9, <1>p
  <2>2. ~late
    BY Zenon, <1>o, <1>l, <1>1, <1>p, <2>1 DEF GInv, OvertakenMonitors, late
  <2>3. identityOf(b.payload).gen # 0
    BY Zenon, <1>o, <1>l, <2>1
  <2> QED BY Zenon, <1>o, <1>3, <2>2, <2>3 DEF settles
<1>10. \A d \in monitor'[m].batch :
          /\ monitor'[m].pc = "ack" /\ monitor'[m].claim = d /\ token'[d.player] = d.token
          /\ d.payload # None /\ d.payload.state = Disconnecting
          => /\ session'[d.player] = None
             /\ location'[d.player] # None /\ ~lost'[d.player]
                => ~settles(location'[d.player], identityOf(d.payload))
  BY Zenon, <1>o, <1>4, <1>8
<1> QED BY Zenon, <1>u, <1>l, <1>3, <1>4, <1>6, <1>7, <1>9, <1>10, MonitorGhost

\* Every step of a monitor.
LEMMA MonitorStepGhost ==
    ASSUME CInv, GInv, NEW m \in Monitors,
           \/ QuietMonitor(m)
           \/ \E published, ok \in BOOLEAN : NotifyScene(m, published, ok)
    PROVE  GInv'
<1>1. CASE QuietMonitor(m)
  <2>1. /\ UNCHANGED <<call, location>> /\ \A q \in Players : lost[q] => lost'[q]
        /\ overtaken' = overtaken \ {n \in Monitors : monitor'[n].pc # "notify"}
    BY Zenon, <1>1 DEF QuietMonitor, placeVars
  <2>2. CASE ClaimBatch(m) \/ Rearm(m) \/ Ack(m) \/ CommitExpiry(m)
    BY Zenon, <1>1, <2>2, ClaimBatchGhost, RearmAckGhost, CommitGhost
  <2>3. CASE ~(ClaimBatch(m) \/ Rearm(m) \/ Ack(m) \/ CommitExpiry(m))
    BY Zenon, <1>1, <2>1, <2>3, IdleGhost DEF QuietMonitor
  <2> QED BY Zenon, <2>2, <2>3
<1> QED BY Zenon, <1>1, NotifyGhost

\* An EnterScene arrives: there is a session to answer for what it writes, or
\* nobody has to delete it, whatever the cleanups under way then find.
LEMMA EnterGhost ==
    ASSUME CInv, GInv, NEW p \in Players, NEW id \in entering[p], Enter(p, id)
    PROVE  GInv'
<1>t. /\ location \in [Players -> placementIdentity \cup {None}] /\ lost \in [Players -> BOOLEAN]
      /\ monitor \in [Monitors -> Monitor]
  BY Zenon DEF CInv, PlaceTypeOK, SceneTypeOK, IInv, TypeOK
<1>1. /\ UNCHANGED storeVars /\ UNCHANGED <<call, monitor>>
      /\ overtaken' = overtaken \cup LeaveCallers(p)
      /\ \A q \in Players \ {p} : location'[q] = location[q]
  BY Zenon, <1>t DEF Enter, EnterScene, vars, storeVars
<1>l. /\ \A q \in Players \ {p} : lost'[q] = lost[q]
      /\ lost[p] => lost'[p]
      /\ session[p] = None => lost'[p]
  BY Zenon, <1>t DEF Enter, giveUp
<1>2. \A q \in Players : Same(q)
  BY Zenon, <1>1, StoreSame
<1>c. ASSUME NEW c \in Calls, c \in overtaken', c \notin overtaken
      PROVE  call[c].op = "leave" /\ call[c].player = p
  BY Zenon, <1>c, <1>1, CallersApart DEF LeaveCallers
<1>m. ASSUME NEW m \in Monitors, m \in overtaken', m \notin overtaken
      PROVE  monitor[m].pc = "notify" /\ monitor[m].claim.player = p
  BY Zenon, <1>m, <1>1, CallersApart DEF LeaveCallers
<1>3. ASSUME NEW q \in Players \ {p} PROVE Matched(q)' /\ NoGhost(q)'
  <2>1. \A c \in Calls : call[c].player = q => (c \in overtaken' => c \in overtaken)
    BY Zenon, <1>c
  <2> QED BY Zenon, <1>1, <1>l, <1>2, <2>1, PlayerKept DEF GInv
<1>4. Matched(p)' /\ NoGhost(p)'
  BY Zenon, <1>l, <1>2 DEF GInv, Matched, NoGhost, Same
<1>5. ClaimsMatch'
  BY Zenon, <1>1 DEF GInv, ClaimsMatch, storeVars
<1>6. AcksAreDone'
  <2> SUFFICES ASSUME NEW m \in Monitors, NEW b \in monitor[m].batch,
                      monitor[m].pc = "ack", monitor[m].claim = b, token[b.player] = b.token,
                      b.payload # None, b.payload.state = Disconnecting
               PROVE  /\ session[b.player] = None
                      /\ location'[b.player] # None /\ ~lost'[b.player]
                         => ~settles(location'[b.player], identityOf(b.payload))
    BY ZenonT(30), <1>1 DEF AcksAreDone, storeVars
  <2>1. b.player \in Players
    BY Zenon, <1>t, BatchTypes
  <2>2. /\ session[b.player] = None
        /\ location[b.player] # None /\ ~lost[b.player]
           => ~settles(location[b.player], identityOf(b.payload))
    BY Zenon DEF GInv, AcksAreDone
  <2> QED BY Zenon, <1>1, <1>l, <2>1, <2>2
<1>7. CleanersAreAlone' /\ SnapshotsAreCleanups'
  BY Zenon, <1>1 DEF GInv, CleanersAreAlone, SnapshotsAreCleanups, Alone, storeVars
<1>8. OvertakenCalls'
  <2> SUFFICES ASSUME NEW c \in Calls, NEW q \in Players, c \in overtaken'
               PROVE  call[c].op = "leave" /\ (call[c].player = q => lost'[q])
    BY Zenon, <1>1 DEF OvertakenCalls
  <2>1. CASE c \in overtaken
    BY Zenon, <1>l, <2>1 DEF GInv, OvertakenCalls
  <2>2. CASE c \notin overtaken
    <3>1. call[c].op = "leave" /\ call[c].player = p
      BY Zenon, <1>c, <2>2
    <3>2. session[p] = None
      BY Zenon, <3>1 DEF GInv, CleanersAreAlone, Alone
    <3> QED BY Zenon, <1>l, <3>1, <3>2
  <2> QED BY Zenon, <2>1, <2>2
<1>9. OvertakenMonitors'
  <2> SUFFICES ASSUME NEW m \in Monitors, NEW q \in Players, m \in overtaken'
               PROVE  /\ monitor[m].pc = "notify"
                      /\ monitor[m].claim.player = q /\ token[q] = monitor[m].claim.token
                         => lost'[q]
    BY Zenon, <1>1 DEF OvertakenMonitors, storeVars
  <2>1. CASE m \in overtaken
    BY Zenon, <1>l, <2>1 DEF GInv, OvertakenMonitors
  <2>2. CASE m \notin overtaken
    <3>1. monitor[m].pc = "notify" /\ monitor[m].claim.player = p
      BY Zenon, <1>m, <2>2
    <3>2. token[p] = monitor[m].claim.token => session[p] = None
      BY Zenon, <3>1 DEF CInv, IInv, NotifyOnlyWithoutSession
    <3> QED BY Zenon, <1>l, <3>1, <3>2
  <2> QED BY Zenon, <2>1, <2>2
<1> QED BY Zenon, <1>3, <1>4, <1>5, <1>6, <1>7, <1>8, <1>9 DEF GInv

\* Steps of time and of the holding scene node.
LEMMA RestGhost ==
    ASSUME GInv, UNCHANGED <<session, token, payload, call, monitor, location, overtaken, lost>>,
           \A q \in Players : Alone(q) => Alone(q)'
    PROVE  GInv'
<1>1. \A q \in Players : Matched(q)' /\ NoGhost(q)'
  BY Zenon DEF GInv, Matched, NoGhost, CleanupUnderway
<1>2. ClaimsMatch' /\ AcksAreDone'
  BY ZenonT(40) DEF GInv, ClaimsMatch, AcksAreDone
<1>4. OvertakenCalls' /\ OvertakenMonitors'
  BY Zenon DEF GInv, OvertakenCalls, OvertakenMonitors
<1>3. CleanersAreAlone' /\ SnapshotsAreCleanups'
  BY Zenon DEF GInv, CleanersAreAlone, SnapshotsAreCleanups
<1> QED BY Zenon, <1>1, <1>2, <1>3, <1>4 DEF GInv

\* With one handler, every step keeps the cleanups matched to the locations.
LEMMA GhostsPreserved ==
    ASSUME CInv, GInv, OneHandler, [CleanupNext]_cleanupVars
    PROVE  GInv'
<1>u. ASSUME UNCHANGED cleanupVars PROVE GInv'
  <2>1. UNCHANGED <<session, ready, processing, token, payload, call, monitor, location,
                  overtaken, lost>>
    BY Zenon, <1>u DEF cleanupVars, vars, placeVars, flightVars
  <2> QED BY Zenon, <2>1, RestGhost DEF Alone
<1>n. ASSUME CleanupNext PROVE GInv'
  <2>i. IInv'
    BY Zenon, <1>n, LocatorSteps, NextPreserves DEF CInv
  <2>1. ASSUME NEW p \in Players, Holder(p) \/ ChangeScene(p) PROVE GInv'
    <3>1. UNCHANGED <<session, ready, processing, token, payload, call, monitor, location,
                      overtaken, lost>>
      BY Zenon, <2>1 DEF Holder, HolderReleases, ChangeScene, vars, placeVars, flightVars
    <3> QED BY Zenon, <3>1, RestGhost DEF Alone
  <2>2. ASSUME Time /\ UNCHANGED <<placeVars, flightVars, minted, lost>> PROVE GInv'
    <3>1. UNCHANGED <<session, token, payload, call, monitor, location, overtaken, lost>>
      BY Zenon, <2>2 DEF Time, LeaseFallsDue, ClaimFallsDue, placeVars, flightVars
    <3>2. \A q \in Players : /\ ready[q] = "none" => ready'[q] = "none"
                             /\ processing[q] = "none" => processing'[q] = "none"
      BY Zenon, <2>2 DEF Time, LeaseFallsDue, ClaimFallsDue, CInv, IInv, TypeOK, StoreTypeOK
    <3> QED BY Zenon, <3>1, <3>2, RestGhost DEF Alone
  <2> QED BY Zenon, <1>n, <2>i, <2>1, <2>2, HandlerStepGhost, MonitorStepGhost, EnterGhost DEF CleanupNext
<1> QED BY Zenon, <1>u, <1>n

\* With one session RPC at a time, no location outlives its session unattended:
\* a cleanup that will delete it is queued, claimed or in the handler
\* (markofflinelogic.go:110-118), unless the code gave it up, the session had no
\* generation, or the location was written by an EnterScene after the session
\* had ended.  With two handlers this fails.
THEOREM NoLocationIsLeftBehind ==
    ASSUME OneHandler PROVE CleanupSpec => []NoGhostLocation
<1>1. CleanupInit => GInv
  <2> SUFFICES ASSUME CleanupInit PROVE GInv
    BY Zenon
  <2>1. /\ \A c \in Calls : call[c] = IdleCall
        /\ \A m \in Monitors : monitor[m] = IdleMonitor
        /\ \A p \in Players : location[p] = None /\ payload[p] = None /\ token[p] = NoToken
    BY Zenon DEF CleanupInit, Init, SceneInit
  <2>2. \A p \in Players : Matched(p) /\ NoGhost(p)
    BY Zenon, <2>1 DEF Matched, NoGhost
  <2>3. ClaimsMatch /\ AcksAreDone /\ CleanersAreAlone /\ SnapshotsAreCleanups
    <3>1. IdleMonitor.batch = {}
      BY DEF IdleMonitor
    <3>2. IdleCall.op \notin {"delete", "leave", "enqueue"}
      BY DEF IdleCall
    <3> QED BY Zenon, <2>1, <3>1, <3>2 DEF ClaimsMatch, AcksAreDone, CleanersAreAlone, SnapshotsAreCleanups
  <2>4. OvertakenCalls /\ OvertakenMonitors
    BY Zenon DEF CleanupInit, OvertakenCalls, OvertakenMonitors
  <2> QED BY Zenon, <2>2, <2>3, <2>4 DEF GInv
<1>2. CInv /\ GInv /\ [CleanupNext]_cleanupVars => GInv'
  BY Zenon, GhostsPreserved
<1>3. GInv => NoGhostLocation
  BY Zenon DEF GInv, NoGhost, NoGhostLocation
<1> QED BY <1>1, <1>2, <1>3, CleanupInvariance, PTL DEF CleanupSpec
================================================================================
