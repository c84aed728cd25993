---------------------------- MODULE EnterGameProofs ----------------------------
(***************************************************************************)
(* Entering and leaving the game, for any number of connections, players   *)
(* and chains.  Ready is what every step needs to be typed; each of the    *)
(* other invariants is inductive next to it: Closing (how far a Disconnect *)
(* is), Minting, Asking, Locking, and Settled, which also needs Closing.   *)
(***************************************************************************)
EXTENDS EnterGame, TLAPS

\* The steps from which a chain has a generation.
MintedSteps == CommitSteps \cup {"persist", "notify", "recheck", "enter", "clean"}

Active(t) == t.pc \notin {"idle", "done"}

\* Every login takes a higher generation and writes at most two versions.
Bounded(s) ==
    s # None => /\ s.ver <= 2 * s.gen
                /\ s.state = "ONLINE" => s.ver <= 2 * s.gen - 1

ChainOK(t) ==
    /\ Active(t) => t.conn \in Conns /\ t.player \in Players
    /\ t.pc \in {"kick", "probe", "kickLost", "delete"} => t.existing # None
    /\ t.pc \in MintedSteps => t.mint > 0
    /\ t.pc = "persist" /\ t.existing # None => t.existing.gen < t.mint
    /\ Bounded(t.existing)

CallOK(t, leaves) ==
    /\ t.pc \in {"idle", "login", "leave"} => t.todo = {}
    /\ t.pc = "leave" => leaves < MaxLeaves
    /\ t.pc = "delete" => t.player \in Players

LocatorOK ==
    /\ session \in [Players -> Sessions \cup {None}]
    /\ leased \subseteq Players /\ owed \subseteq leased
    /\ \A p \in Players : Bounded(session[p])

ChainsOK ==
    /\ chain \in [Chains -> ChainRecord]
    /\ \A k \in Chains : ChainOK(chain[k])

CallsOK ==
    /\ call \in [Conns -> CallRecord]
    /\ \A c \in Conns : CallOK(call[c], fence[c].gen)

ConnsOK ==
    /\ fence \in [Conns -> FenceRecord]
    /\ conn \in [Conns -> {"open", "close", "clean", "mark", "gone"}]
    /\ settle \in [Conns -> SUBSET Players]
    /\ login \in [Conns -> BOOLEAN]
    /\ told \in [Conns -> SUBSET Players]
    /\ asked \in [Conns -> SUBSET Players]

KeysOK ==
    /\ lock \in [Players -> Chains \cup {None}]
    /\ kicks \subseteq [conn : Conns, player : Players, gen : 1..MaxGeneration]
    /\ key \in [Players -> 0..MaxGeneration]
    /\ now \in 1..MaxNow
    /\ minted \in [Players -> 0..MaxGeneration]
    /\ lockLost \in BOOLEAN

Ready == LocatorOK /\ ChainsOK /\ CallsOK /\ ConnsOK /\ KeysOK

\* How far the Disconnect of a connection is, told by what it left behind.
Closing ==
    \A c \in Conns :
        /\ fence[c].closed <=> conn[c] \in {"clean", "mark", "gone"}
        /\ conn[c] \in {"mark", "gone"} => ~login[c]
        /\ conn[c] = "open" => settle[c] = {}

\* Nothing above the key was minted; once it has expired, nothing that the
\* slowest clock has not passed.
Minting ==
    \A p \in Players :
        /\ key[p] = 0 => minted[p] = 0 \/ minted[p] < now - Skew
        /\ key[p] # 0 => minted[p] <= key[p]

\* The entry of a chain is no later than the fence, and when it is of the same
\* count of LeaveGames its role has been asked for since the last of them.
AskingChain(k) ==
    LET c == chain[k].conn IN
    Active(chain[k]) =>
        /\ chain[k].pc \in HandlerSteps =>
              call[c].pc = "idle" /\ chain[k].player \in asked[c]
        /\ chain[k].pc \notin {"account", "fence"} =>
              /\ chain[k].gen <= fence[c].gen
              /\ chain[k].gen = fence[c].gen /\ call[c].pc # "leave" =>
                    chain[k].player \in asked[c]

Asking == BoundWasAsked /\ \A k \in Chains : AskingChain(k)

\* The steps at which a chain holds the player's lock, and those at which what
\* is stored is its own session, or none.
LockedSteps == ChainSteps \ {"account", "fence", "lock"}
OwnSteps == {"kick", "bind", "notify", "recheck", "enter", "undo", "delete"}

LockingChain(k) ==
    LET p == chain[k].player IN
    /\ chain[k].pc \in LockedSteps => lock[p] = k
    /\ chain[k].pc \in OwnSteps => session[p] = None \/ session[p].gen = chain[k].mint

Locking == ~lockLost => \A k \in Chains : LockingChain(k)

\* Who will end the ONLINE session of p.  A LeaveGame or an undo that read
\* another version than the present one will not.
ByBinding(p, c) == fence[c].player = p /\ conn[c] \in {"open", "close"}
ByDisconnect(p, c) == conn[c] # "gone" /\ p \in settle[c]
ByLeave(p, c) ==
    /\ p \in call[c].todo
    /\ call[c].pc = "delete" /\ call[c].player = p => call[c].ver = session[p].ver
ByChain(p, c, k) ==
    /\ chain[k].conn = c /\ chain[k].player = p
    /\ chain[k].pc \in CommitSteps
    /\ chain[k].mint = session[p].gen
    /\ chain[k].pc = "delete" => chain[k].existing.ver = session[p].ver

Settling(p, c) ==
    ByBinding(p, c) \/ ByDisconnect(p, c) \/ ByLeave(p, c) \/ \E k \in Chains : ByChain(p, c, k)

Settled ==
    \A p \in Players :
        session[p] # None /\ session[p].state = "ONLINE" => Settling(p, session[p].conn)

-----------------------------------------------------------------------------
(* Records and how the steps update them *)

\* What Ready says of the types is the type invariant of the runs.
LEMMA ReadyTypes == Ready => EnterTypeOK
  BY Zenon DEF Ready, LocatorOK, ChainsOK, CallsOK, ConnsOK, KeysOK, EnterTypeOK

\* A step of one chain that replaces its record by a good one.
LEMMA ChainWritten ==
  ASSUME ChainsOK, NEW k \in Chains, NEW t \in ChainRecord, ChainOK(t),
         chain' = [chain EXCEPT ![k] = t]
  PROVE  /\ ChainsOK'
         /\ chain'[k] = t
         /\ \A j \in Chains : j # k => chain'[j] = chain[j]
  BY Zenon DEF ChainsOK

\* goto moves the program counter of a chain and nothing else.
LEMMA Gone ==
  ASSUME ChainsOK, NEW k \in Chains, NEW pc \in ChainSteps, goto(k, pc)
  PROVE  /\ chain' \in [Chains -> ChainRecord]
         /\ chain'[k] \in ChainRecord
         /\ chain'[k].pc = pc
         /\ chain'[k].conn = chain[k].conn /\ chain'[k].player = chain[k].player
         /\ chain'[k].gen = chain[k].gen /\ chain'[k].mint = chain[k].mint
         /\ chain'[k].existing = chain[k].existing
         /\ \A j \in Chains : j # k => chain'[j] = chain[j]
  BY Zenon DEF ChainsOK, goto, ChainRecord

\* A finished chain is idle but for its program counter, and holds no lock.
LEMMA Finished ==
  ASSUME ChainsOK, KeysOK, NEW k \in Chains, finish(k)
  PROVE  /\ ChainsOK'
         /\ lock' \in [Players -> Chains \cup {None}]
         /\ chain'[k].pc = "done"
         /\ \A j \in Chains : j # k => chain'[j] = chain[j]
         /\ \A p \in Players : lock[p] # k => lock'[p] = lock[p]
         /\ \A p \in Players : lock'[p] # k
<1> DEFINE t == [IdleChain EXCEPT !.pc = "done"]
<1>1. /\ t \in ChainRecord /\ t.pc = "done" /\ t.existing = None
  BY EnterGameAssumption DEF ChainRecord, IdleChain
<1>2. chain' = [chain EXCEPT ![k] = t] BY Zenon DEF finish
<1> HIDE DEF t
<1>3. ChainOK(t) BY Zenon, <1>1 DEF ChainOK, Active, Bounded, MintedSteps, CommitSteps
<1>4. ChainsOK' /\ chain'[k] = t /\ \A j \in Chains : j # k => chain'[j] = chain[j]
  BY Zenon, <1>1, <1>2, <1>3, ChainWritten
<1>5. /\ lock' \in [Players -> Chains \cup {None}]
      /\ \A p \in Players : (lock[p] # k => lock'[p] = lock[p]) /\ lock'[p] # k
  BY Zenon, EnterGameAssumption DEF finish, KeysOK
<1> QED BY Zenon, <1>1, <1>4, <1>5

\* player_locator enters a session: it replaces what is stored for its player.
LEMMA Entered ==
  ASSUME LocatorOK, NEW p \in Players, NEW s \in Sessions, Bounded(s), Locator!Enter(p, s)
  PROVE  /\ LocatorOK' /\ session'[p] = s
         /\ \A q \in Players : q # p => session'[q] = session[q]
  BY Zenon DEF LocatorOK, Locator!Enter

\* player_locator leases a session: ONLINE, a version earlier, it was the same.
LEMMA Dropped ==
  ASSUME LocatorOK, NEW p \in Players, Locator!Drop(p)
  PROVE  /\ LocatorOK'
         /\ session[p] # None /\ session[p].state = "ONLINE"
         /\ session'[p] # None /\ session'[p].state = "DISCONNECTING"
         /\ session'[p].gen = session[p].gen
         /\ \A q \in Players : q # p => session'[q] = session[q]
<1> DEFINE s == [session[p] EXCEPT !.state = "DISCONNECTING", !.ver = session[p].ver + 1]
<1>1. session[p] \in Sessions /\ session[p].state = "ONLINE" /\ Bounded(session[p])
  BY Zenon DEF LocatorOK, Locator!Drop
<1>2. /\ session[p].ver \in Nat \ {0} /\ session[p].gen \in 1..MaxGeneration
      /\ session[p].ver <= 2 * session[p].gen - 1
  BY <1>1, NoneAssumption, EnterGameAssumption DEF Sessions, Bounded
<1>3. session[p].ver + 1 \in 1..(2 * MaxGeneration + 1) /\ session[p].ver + 1 <= 2 * session[p].gen
  BY <1>2, EnterGameAssumption
<1>4. /\ s \in Sessions /\ s.state = "DISCONNECTING" /\ s.ver = session[p].ver + 1
      /\ s.gen = session[p].gen
  BY Zenon, <1>1, <1>3 DEF Sessions
<1>5. /\ session' = [session EXCEPT ![p] = s]
      /\ leased' = leased \cup {p} /\ owed' = owed \ {p}
  BY Zenon DEF Locator!Drop
<1> HIDE DEF s
<1>6. Bounded(s) BY Zenon, <1>3, <1>4 DEF Bounded
<1>7. LocatorOK' /\ session'[p] = s /\ \A q \in Players : q # p => session'[q] = session[q]
  BY Zenon, <1>4, <1>5, <1>6 DEF LocatorOK
<1> QED BY Zenon, <1>1, <1>4, <1>7, NoneAssumption

\* player_locator forgets a session.
LEMMA Left ==
  ASSUME LocatorOK, NEW p \in Players, Locator!Leave(p)
  PROVE  /\ LocatorOK' /\ session'[p] = None
         /\ \A q \in Players : q # p => session'[q] = session[q]
  BY Zenon DEF LocatorOK, Locator!Leave, Bounded

\* What player_locator does by itself only ends leased sessions.
LEMMA LocatorAlone ==
  ASSUME LocatorOK, NEW p \in Players, LocatorStep(p)
  PROVE  /\ LocatorOK'
         /\ \A q \in Players : session'[q] = session[q] \/ session'[q] = None
<1>1. CASE Locator!Expire(p)
  BY Zenon, <1>1 DEF LocatorOK, Locator!Expire, Bounded
<1>2. CASE Locator!Claim({p}, {}) \/ Locator!Claim({}, {p})
  BY Zenon, <1>2 DEF LocatorOK, Locator!Claim
<1>3. CASE Locator!Settle(p) \/ Locator!Owe(p)
  BY Zenon, <1>3 DEF LocatorOK, Locator!Settle, Locator!Owe
<1> QED BY Zenon, <1>1, <1>2, <1>3 DEF LocatorStep

\* SetDisconnecting leases the session of the connection or changes nothing.
LEMMA Marked ==
  ASSUME LocatorOK, NEW p \in Players, NEW c \in Conns, markPlayerSessionDisconnecting(p, c)
  PROVE  /\ LocatorOK'
         /\ \A q \in Players : q # p => session'[q] = session[q]
         /\ \/ session' = session /\ ~(/\ session[p] # None /\ session[p].state = "ONLINE"
                                       /\ session[p].conn = c)
            \/ /\ session[p].conn = c /\ session[p] # None /\ session'[p] # None
               /\ session'[p].state = "DISCONNECTING"
               /\ session'[p].gen = session[p].gen
<1>1. session[p] # None => session[p].conn \in Conns
  BY Zenon DEF LocatorOK, Sessions
<1>2. CASE sessionOf(session[p], c) /\ session[p].state = "ONLINE"
  <2>1. session[p] # None /\ session[p].conn = c
    BY Zenon, <1>1, <1>2, ConnsAssumption DEF sessionOf
  <2>2. Locator!Drop(p) BY Zenon, <1>2 DEF markPlayerSessionDisconnecting
  <2> QED BY Zenon, <2>1, <2>2, Dropped
<1>3. CASE ~(sessionOf(session[p], c) /\ session[p].state = "ONLINE")
  <2>1. UNCHANGED <<session, leased, owed>>
    BY Zenon, <1>3 DEF markPlayerSessionDisconnecting, locatorVars
  <2>2. ~(session[p] # None /\ session[p].state = "ONLINE" /\ session[p].conn = c)
    BY Zenon, <1>3 DEF sessionOf
  <2> QED BY Zenon, <2>1, <2>2 DEF LocatorOK
<1> QED BY Zenon, <1>2, <1>3

\* MarkOffline deletes the version it was given of the session of the
\* connection, or changes nothing.
LEMMA Offline ==
  ASSUME LocatorOK, NEW p \in Players, NEW c \in Conns, NEW ver, markOffline(p, c, ver)
  PROVE  /\ LocatorOK'
         /\ \A q \in Players : q # p => session'[q] = session[q]
         /\ \/ session' = session /\ ~(/\ session[p] # None /\ session[p].ver = ver
                                       /\ session[p].conn = c)
            \/ session[p] # None /\ session'[p] = None
<1>1. CASE sessionOf(session[p], c) /\ session[p].ver = ver
  <2>1. Locator!Leave(p) /\ session[p] # None BY Zenon, <1>1 DEF markOffline, sessionOf
  <2> QED BY Zenon, <2>1, Left
<1>2. CASE ~(sessionOf(session[p], c) /\ session[p].ver = ver)
  <2>1. UNCHANGED <<session, leased, owed>> BY Zenon, <1>2 DEF markOffline, locatorVars
  <2>2. ~(session[p] # None /\ session[p].ver = ver /\ session[p].conn = c)
    BY Zenon, <1>2 DEF sessionOf
  <2> QED BY Zenon, <2>1, <2>2 DEF LocatorOK
<1> QED BY Zenon, <1>1, <1>2

\* The successor of a record, or the first one, under a higher generation.
LEMMA NewSession ==
  ASSUME NEW e \in Sessions \cup {None}, Bounded(e), NEW c \in Conns,
         NEW gen \in 1..MaxGeneration, e # None => e.gen < gen
  PROVE  LET s == NewOnlineSession(e, c, gen) IN
         /\ s \in Sessions /\ Bounded(s)
         /\ s.state = "ONLINE" /\ s.conn = c /\ s.gen = gen
<1> DEFINE v == IF e = None THEN 1 ELSE e.ver + 1
           s == NewOnlineSession(e, c, gen)
<1>1. v \in Int /\ 1 <= v /\ v <= 2 * gen - 1
  <2>1. CASE e = None BY <2>1, EnterGameAssumption
  <2>2. CASE e # None
    <3>1. e.ver \in Nat /\ e.gen \in Nat /\ e.ver <= 2 * e.gen /\ e.gen < gen
      BY <2>2, EnterGameAssumption DEF Sessions, Bounded
    <3> QED BY <2>2, <3>1, EnterGameAssumption
  <2> QED BY Zenon, <2>1, <2>2
<1>2. v \in 1..(2 * MaxGeneration + 1) BY <1>1, EnterGameAssumption
<1>3. s = [state |-> "ONLINE", conn |-> c, gen |-> gen, ver |-> v]
  BY Zenon DEF NewOnlineSession
<1> HIDE DEF v, s
<1>4. s \in Sessions BY Zenon, <1>2, <1>3 DEF Sessions
<1>5. s.state = "ONLINE" /\ s.conn = c /\ s.gen = gen /\ s.ver = v BY Zenon, <1>3
<1>6. Bounded(s) BY <1>1, <1>5, EnterGameAssumption DEF Bounded
<1> QED BY Zenon, <1>4, <1>5, <1>6 DEF s

\* The chain's write puts an ONLINE session of its connection and generation.
LEMMA Wrote ==
  ASSUME LocatorOK, ChainsOK, NEW k \in Chains, at(k, "persist"), writeSession(k)
  PROVE  /\ LocatorOK'
         /\ session'[chain[k].player] # None
         /\ session'[chain[k].player].state = "ONLINE"
         /\ session'[chain[k].player].conn = chain[k].conn
         /\ session'[chain[k].player].gen = chain[k].mint
         /\ \A q \in Players : q # chain[k].player => session'[q] = session[q]
<1> DEFINE p == chain[k].player
           c == chain[k].conn
           m == chain[k].mint
           old == chain[k].existing
<1>1. ChainOK(chain[k]) /\ chain[k] \in ChainRecord /\ chain[k].pc = "persist"
  BY Zenon DEF ChainsOK, at
<1>2. /\ p \in Players /\ c \in Conns /\ old \in Sessions \cup {None} /\ Bounded(old)
      /\ old # None => old.gen < m
  BY Zenon, <1>1 DEF ChainOK, Active, ChainRecord
<1>3. m \in 1..MaxGeneration
  BY <1>1, EnterGameAssumption DEF ChainOK, MintedSteps, ChainRecord
<1>4. session[p] \in Sessions \cup {None} /\ Bounded(session[p])
  BY Zenon, <1>2 DEF LocatorOK
<1> HIDE DEF p, c, m, old
<1>5. CASE DecideEnterGame(old) = "reconnect"
  <2> DEFINE s == NewOnlineSession(session[p], c, m)
  <2>1. /\ session[p] # None /\ session[p].state = "DISCONNECTING" /\ Locator!Enter(p, s)
    BY Zenon, <1>5 DEF writeSession, p, c, m, old
  <2>2. s.state = "ONLINE" /\ s.gen = m BY Zenon DEF NewOnlineSession
  <2> HIDE DEF s
  <2>3. session[p].gen = 0 \/ s.gen = 0 \/ s.gen > session[p].gen
    BY Zenon, <2>1, <2>2 DEF Locator!Enter, Locator!mayFollow
  <2>4. session[p].gen < m
    <3>1. session[p].gen \in 1..MaxGeneration BY Zenon, <1>4, <2>1 DEF Sessions
    <3> QED BY <1>3, <2>2, <2>3, <3>1, EnterGameAssumption
  <2>5. s \in Sessions /\ Bounded(s) /\ s.conn = c
    BY <1>2, <1>3, <1>4, <2>1, <2>4, NewSession DEF s
  <2>6. LocatorOK' /\ session'[p] = s /\ \A q \in Players : q # p => session'[q] = session[q]
    BY Zenon, <1>2, <2>1, <2>5, Entered
  <2> QED BY Zenon, <2>2, <2>5, <2>6, NoneAssumption DEF p, c, m
<1>6. CASE DecideEnterGame(old) # "reconnect"
  <2> DEFINE s == NewOnlineSession(old, c, m)
  <2>1. Locator!Enter(p, s) BY Zenon, <1>6 DEF writeSession, p, c, m, old
  <2>2. s \in Sessions /\ Bounded(s) /\ s.state = "ONLINE" /\ s.conn = c /\ s.gen = m
    BY <1>2, <1>3, NewSession
  <2> HIDE DEF s
  <2>3. LocatorOK' /\ session'[p] = s /\ \A q \in Players : q # p => session'[q] = session[q]
    BY Zenon, <1>2, <2>1, <2>2, Entered
  <2> QED BY Zenon, <2>2, <2>3, NoneAssumption DEF p, c, m
<1> QED BY Zenon, <1>5, <1>6

-----------------------------------------------------------------------------
(* Ready *)

\* goto keeps the records of the chains good, where the new step needs nothing
\* that the chain does not have.
LEMMA GoneOK ==
  ASSUME ChainsOK, NEW k \in Chains, NEW pc \in ChainSteps \ {"persist"}, goto(k, pc),
         Active(chain[k]),
         pc \in {"kick", "probe", "kickLost", "delete"} => chain[k].existing # None,
         pc \in MintedSteps => chain[k].pc \in MintedSteps
  PROVE  ChainsOK'
<1>1. /\ chain' \in [Chains -> ChainRecord]
      /\ chain'[k].pc = pc
      /\ chain'[k].conn = chain[k].conn /\ chain'[k].player = chain[k].player
      /\ chain'[k].mint = chain[k].mint /\ chain'[k].existing = chain[k].existing
      /\ \A j \in Chains : j # k => chain'[j] = chain[j]
  BY Zenon, Gone
<1>2. ChainOK(chain[k]) /\ \A j \in Chains : ChainOK(chain[j]) BY Zenon DEF ChainsOK
<1>3. ChainOK(chain'[k])
  BY Zenon, <1>1, <1>2 DEF ChainOK, Active
<1>4. ChainsOK' BY Zenon, <1>1, <1>2, <1>3 DEF ChainsOK
<1> QED BY Zenon, <1>4

\* A step that changes a chain's record and the locks.
LEMMA ChainFrame ==
  ASSUME Ready, ChainsOK', lock' \in [Players -> Chains \cup {None}],
         UNCHANGED <<fence, locatorVars, connVars, told, kicks, genVars, lockLost>>
  PROVE  Ready'
<1>1. LocatorOK' BY Zenon DEF Ready, LocatorOK, locatorVars
<1>2. CallsOK' BY Zenon DEF Ready, CallsOK, CallOK, connVars
<1>3. ConnsOK' BY Zenon DEF Ready, ConnsOK, connVars, genVars
<1>4. KeysOK' BY Zenon DEF Ready, KeysOK, genVars
<1> QED BY Zenon, <1>1, <1>2, <1>3, <1>4 DEF Ready

\* The chain moves on or finishes, and nothing else changes.
LEMMA PlainStepReady ==
  ASSUME Ready, NEW k \in Chains, UNCHANGED lockLost,
         \/ GetAccount(k) \/ TryLock(k) \/ Accept(k) \/ PersistFails(k) \/ Probe(k)
         \/ RecheckFence(k) \/ OwnerGone(k) \/ EnterScene(k) \/ Abandon(k)
  PROVE  Ready'
<1> USE DEF Ready
<1>1. UNCHANGED <<fence, locatorVars, connVars, told, kicks, genVars, lockLost>>
  BY Zenon DEF GetAccount, TryLock, Accept, PersistFails, Probe, RecheckFence, OwnerGone,
         EnterScene, Abandon
<1>2. CASE finish(k)
  BY Zenon, <1>1, <1>2, Finished, ChainFrame
<1>3. ASSUME NEW pc \in ChainSteps \ {"persist"}, goto(k, pc), Active(chain[k]),
             pc \in {"kick", "probe", "kickLost", "delete"} => chain[k].existing # None,
             pc \in MintedSteps => chain[k].pc \in MintedSteps,
             lock' \in [Players -> Chains \cup {None}]
      PROVE  Ready'
  BY Zenon, <1>1, <1>3, GoneOK, ChainFrame
<1>4. UNCHANGED lock => lock' \in [Players -> Chains \cup {None}]
  BY Zenon DEF KeysOK
<1>5. CASE GetAccount(k)
  BY Zenon, <1>2, <1>3, <1>4, <1>5
     DEF GetAccount, at, Active, ChainSteps, HandlerSteps, MintedSteps, CommitSteps
<1>6. CASE TryLock(k)
  <2>1. lock[chain[k].player] = None /\ lock' = [lock EXCEPT ![chain[k].player] = k]
           => lock' \in [Players -> Chains \cup {None}]
    BY Zenon DEF KeysOK
  <2> QED BY Zenon, <1>2, <1>3, <1>6, <2>1
     DEF TryLock, at, Active, ChainSteps, HandlerSteps, MintedSteps, CommitSteps
<1>7. CASE Accept(k)
  BY Zenon, <1>3, <1>4, <1>7
     DEF Accept, at, Active, ChainSteps, HandlerSteps, MintedSteps, CommitSteps
<1>8. CASE PersistFails(k)
  <2>1. DecideEnterGame(chain[k].existing) = "replace" => chain[k].existing # None
    BY Zenon DEF DecideEnterGame
  <2> QED BY Zenon, <1>2, <1>3, <1>4, <1>8, <2>1
     DEF PersistFails, at, Active, ChainSteps, HandlerSteps, MintedSteps, CommitSteps
<1>9. CASE Probe(k)
  <2>1. at(k, "probe") => chain[k].existing # None
    BY Zenon DEF at, ChainsOK, ChainOK
  <2> QED BY Zenon, <1>2, <1>3, <1>4, <1>9, <2>1
     DEF Probe, at, Active, ChainSteps, HandlerSteps, MintedSteps, CommitSteps
<1>10. CASE RecheckFence(k)
  BY Zenon, <1>2, <1>3, <1>4, <1>10
     DEF RecheckFence, at, Active, ChainSteps, HandlerSteps, MintedSteps, CommitSteps
<1>11. CASE OwnerGone(k) \/ EnterScene(k)
  BY Zenon, <1>3, <1>4, <1>11
     DEF OwnerGone, EnterScene, at, Active, ChainSteps, HandlerSteps, MintedSteps, CommitSteps
<1>12. CASE Abandon(k)
  BY Zenon, <1>2, <1>12 DEF Abandon
<1> QED BY Zenon, <1>5, <1>6, <1>7, <1>8, <1>9, <1>10, <1>11, <1>12

\* The entry through the fence: the chain keeps the count of LeaveGames.
LEMMA EnterFenceWrites ==
  ASSUME Ready, NEW k \in Chains, EnterFence(k), ~finish(k)
  PROVE  /\ ChainsOK' /\ UNCHANGED lock
         /\ chain'[k].pc = "lock" /\ chain'[k].gen = fence[chain[k].conn].gen
         /\ chain'[k].conn = chain[k].conn /\ chain'[k].player = chain[k].player
         /\ \A j \in Chains : j # k => chain'[j] = chain[j]
<1> DEFINE c == chain[k].conn
           t == [chain[k] EXCEPT !.pc = "lock", !.gen = fence[c].gen]
<1>1. chain[k] \in ChainRecord /\ ChainOK(chain[k]) /\ chain[k].pc = "fence"
  BY Zenon DEF Ready, ChainsOK, EnterFence, at
<1>2. c \in Conns BY Zenon, <1>1 DEF ChainOK, Active
<1>3. fence[c].gen \in 0..MaxLeaves BY Zenon, <1>2 DEF Ready, ConnsOK, FenceRecord
<1>4. /\ t \in ChainRecord /\ t.pc = "lock" /\ t.gen = fence[c].gen /\ t.conn = c
      /\ t.player = chain[k].player /\ t.existing = chain[k].existing
  BY Zenon, <1>1, <1>3 DEF ChainRecord, ChainSteps, HandlerSteps
<1>5. chain' = [chain EXCEPT ![k] = t] /\ UNCHANGED lock BY Zenon DEF EnterFence
<1> HIDE DEF t
<1>6. ChainOK(t) BY Zenon, <1>1, <1>4 DEF ChainOK, Active, MintedSteps, CommitSteps
<1> QED BY Zenon, <1>4, <1>5, <1>6, ChainWritten DEF Ready

\* The record the chain decides from.
LEMMA GetSessionWrites ==
  ASSUME Ready, NEW k \in Chains, GetSession(k)
  PROVE  /\ ChainsOK' /\ UNCHANGED lock
         /\ chain'[k].pc = "mint" /\ chain'[k].gen = chain[k].gen
         /\ chain'[k].conn = chain[k].conn /\ chain'[k].player = chain[k].player
         /\ \A j \in Chains : j # k => chain'[j] = chain[j]
<1> DEFINE p == chain[k].player
           t == [chain[k] EXCEPT !.pc = "mint", !.existing = session[p]]
<1>1. chain[k] \in ChainRecord /\ ChainOK(chain[k]) /\ chain[k].pc = "preload"
  BY Zenon DEF Ready, ChainsOK, GetSession, at
<1>2. p \in Players BY Zenon, <1>1 DEF ChainOK, Active
<1>3. session[p] \in Sessions \cup {None} /\ Bounded(session[p])
  BY Zenon, <1>2 DEF Ready, LocatorOK
<1>4. /\ t \in ChainRecord /\ t.pc = "mint" /\ t.existing = session[p]
      /\ t.conn = chain[k].conn /\ t.player = chain[k].player /\ t.gen = chain[k].gen
  BY Zenon, <1>1, <1>3 DEF ChainRecord, ChainSteps
<1>5. chain' = [chain EXCEPT ![k] = t] /\ UNCHANGED lock BY Zenon DEF GetSession
<1> HIDE DEF t
<1>6. ChainOK(t) BY Zenon, <1>1, <1>3, <1>4 DEF ChainOK, Active, MintedSteps, CommitSteps
<1> QED BY Zenon, <1>4, <1>5, <1>6, ChainWritten DEF Ready

\* What the mint gives: a generation above the key, the floor and a clock that
\* is at most Skew behind.
LEMMA MintWrites ==
  ASSUME Ready, NEW k \in Chains, Mint(k)
  PROVE  LET p == chain[k].player
             m == chain'[k].mint
         IN
         /\ ChainsOK' /\ p \in Players
         /\ chain'[k].pc = "persist" /\ chain'[k].gen = chain[k].gen
         /\ chain'[k].conn = chain[k].conn /\ chain'[k].player = p
         /\ \A j \in Chains : j # k => chain'[j] = chain[j]
         /\ m \in 1..MaxGeneration /\ m > key[p] /\ m >= now - Skew
         /\ key' = [key EXCEPT ![p] = m]
         /\ minted' = [minted EXCEPT ![p] = Larger(minted[p], m)]
<1> DEFINE p == chain[k].player
           old == chain[k].existing
           floor == IF old = None THEN 0 ELSE old.gen
<1>1. chain[k] \in ChainRecord /\ ChainOK(chain[k]) /\ chain[k].pc = "mint"
  BY Zenon DEF Ready, ChainsOK, Mint, at
<1>2. p \in Players BY Zenon, <1>1 DEF ChainOK, Active
<1>3. key[p] \in Nat /\ now \in Nat
  BY <1>2, EnterGameAssumption DEF Ready, KeysOK
<1>4. floor \in Nat /\ (old # None => floor = old.gen)
  BY <1>1, EnterGameAssumption DEF ChainRecord, Sessions
<1>5. PICK behind \in 0..Skew :
        LET gen == mintLoginGeneration(key[p], now - behind, floor) IN
        /\ gen \in 1..MaxGeneration
        /\ chain' = [chain EXCEPT ![k] = [chain[k] EXCEPT !.pc = "persist", !.mint = gen]]
        /\ key' = [key EXCEPT ![p] = gen]
        /\ minted' = [minted EXCEPT ![p] = Larger(minted[p], gen)]
  BY Zenon DEF Mint
<1> DEFINE m == mintLoginGeneration(key[p], now - behind, floor)
           t == [chain[k] EXCEPT !.pc = "persist", !.mint = m]
<1> HIDE DEF floor
<1>6. m > key[p] /\ m >= now - Skew /\ m > floor
  BY <1>3, <1>4, <1>5, EnterGameAssumption DEF mintLoginGeneration, Larger
<1>7. /\ m \in 1..MaxGeneration /\ chain' = [chain EXCEPT ![k] = t]
      /\ key' = [key EXCEPT ![p] = m]
      /\ minted' = [minted EXCEPT ![p] = Larger(minted[p], m)]
  BY Zenon, <1>5
<1> HIDE DEF m
<1>8. m \in 1..MaxGeneration /\ m > 0 /\ m \in 0..MaxGeneration BY <1>7, EnterGameAssumption
<1>9. /\ t \in ChainRecord /\ t.pc = "persist" /\ t.mint = m /\ t.existing = old
      /\ t.conn = chain[k].conn /\ t.player = p /\ t.gen = chain[k].gen
  BY Zenon, <1>1, <1>8 DEF ChainRecord, ChainSteps
<1> HIDE DEF t
<1>10. ChainOK(t) BY Zenon, <1>1, <1>4, <1>6, <1>8, <1>9 DEF ChainOK, Active
<1> QED BY Zenon, <1>2, <1>6, <1>7, <1>9, <1>10, ChainWritten DEF Ready

\* The record an undoing chain means to delete.
LEMMA UndoReadsWrites ==
  ASSUME Ready, NEW k \in Chains, UndoReads(k), ~finish(k)
  PROVE  /\ ChainsOK' /\ UNCHANGED lock
         /\ chain'[k].pc = "delete" /\ chain'[k].gen = chain[k].gen
         /\ chain'[k].conn = chain[k].conn /\ chain'[k].player = chain[k].player
         /\ chain'[k].mint = chain[k].mint
         /\ chain'[k].existing = session[chain[k].player]
         /\ \A j \in Chains : j # k => chain'[j] = chain[j]
<1> DEFINE p == chain[k].player
           t == [chain[k] EXCEPT !.pc = "delete", !.existing = session[p]]
<1>1. chain[k] \in ChainRecord /\ ChainOK(chain[k]) /\ chain[k].pc = "undo"
  BY Zenon DEF Ready, ChainsOK, UndoReads, at
<1>2. p \in Players BY Zenon, <1>1 DEF ChainOK, Active
<1>3. session[p] \in Sessions \cup {None} /\ Bounded(session[p])
  BY Zenon, <1>2 DEF Ready, LocatorOK
<1>4. session[p] # None /\ chain' = [chain EXCEPT ![k] = t] /\ UNCHANGED lock
  BY Zenon DEF UndoReads, deleteApplies
<1>5. /\ t \in ChainRecord /\ t.pc = "delete" /\ t.existing = session[p]
      /\ t.conn = chain[k].conn /\ t.player = p /\ t.gen = chain[k].gen
      /\ t.mint = chain[k].mint
  BY Zenon, <1>1, <1>3 DEF ChainRecord, ChainSteps, CommitSteps
<1> HIDE DEF t
<1>6. ChainOK(t) BY Zenon, <1>1, <1>3, <1>4, <1>5 DEF ChainOK, Active, MintedSteps, CommitSteps
<1> QED BY Zenon, <1>4, <1>5, <1>6, ChainWritten DEF Ready

\* The steps of a chain that write its record.
LEMMA RecordStepReady ==
  ASSUME Ready, NEW k \in Chains, UNCHANGED lockLost,
         EnterFence(k) \/ GetSession(k) \/ UndoReads(k)
  PROVE  Ready'
<1>1. UNCHANGED <<fence, locatorVars, connVars, told, kicks, genVars, lockLost>>
  BY Zenon DEF EnterFence, GetSession, UndoReads
<1>2. CASE finish(k) BY Zenon, <1>1, <1>2, Finished, ChainFrame DEF Ready
<1>3. CASE ~finish(k)
  <2>1. ChainsOK' /\ UNCHANGED lock
    BY Zenon, <1>3, EnterFenceWrites, GetSessionWrites, UndoReadsWrites
  <2>2. lock' \in [Players -> Chains \cup {None}] BY Zenon, <2>1 DEF Ready, KeysOK
  <2> QED BY Zenon, <1>1, <2>1, <2>2, ChainFrame
<1> QED BY Zenon, <1>2, <1>3

\* The mint keeps the keys typed.
LEMMA MintReady ==
  ASSUME Ready, NEW k \in Chains, UNCHANGED lockLost, Mint(k)
  PROVE  Ready'
<1> DEFINE p == chain[k].player
           m == chain'[k].mint
<1>1. /\ ChainsOK' /\ p \in Players /\ m \in 1..MaxGeneration
      /\ key' = [key EXCEPT ![p] = m]
      /\ minted' = [minted EXCEPT ![p] = Larger(minted[p], m)]
  BY Zenon, MintWrites
<1>2. UNCHANGED <<fence, locatorVars, connVars, lock, told, kicks, now, asked>>
  BY Zenon DEF Mint
<1> HIDE DEF p, m
<1>3. minted[p] \in 0..MaxGeneration BY Zenon, <1>1 DEF Ready, KeysOK
<1>4. Larger(minted[p], m) \in 0..MaxGeneration /\ m \in 0..MaxGeneration
  BY <1>1, <1>3, EnterGameAssumption DEF Larger
<1>5. KeysOK' BY Zenon, <1>1, <1>2, <1>4 DEF Ready, KeysOK
<1>6. LocatorOK' BY Zenon, <1>2 DEF Ready, LocatorOK, locatorVars
<1>7. CallsOK' BY Zenon, <1>2 DEF Ready, CallsOK, CallOK, connVars
<1>8. ConnsOK' BY Zenon, <1>2 DEF Ready, ConnsOK, connVars
<1> QED BY Zenon, <1>1, <1>5, <1>6, <1>7, <1>8 DEF Ready

\* BindPlayer answers "ok" on an open connection, for the count of LeaveGames
\* of the entry, with no other role bound; then, and only then, it binds.
LEMMA BindOutcome ==
  ASSUME NEW c, NEW p, NEW gen
  PROVE  BindPlayer(c, p, gen) = "ok" <=> /\ ~fence[c].closed /\ fence[c].gen = gen
                                          /\ fence[c].player \in {None, p}
  BY Zenon DEF BindPlayer

\* What BindPlayer leaves in the record.
LEMMA BoundFence ==
  ASSUME fence \in [Conns -> FenceRecord], NEW c \in Conns, NEW p \in Players, NEW gen,
         bound(c, p, gen)
  PROVE  /\ fence' \in [Conns -> FenceRecord]
         /\ \A d \in Conns : d # c => fence'[d] = fence[d]
         /\ \A d \in Conns : fence'[d].closed = fence[d].closed /\ fence'[d].gen = fence[d].gen
         /\ fence'[c].player = IF BindPlayer(c, p, gen) = "ok" THEN p ELSE fence[c].player
  BY Zenon DEF bound, FenceRecord

\* A binding is new, of the generation it names and on an open connection, or
\* it changes nothing.
LEMMA BoundCases ==
  ASSUME Ready, NEW c \in Conns, NEW p \in Players, NEW gen, bound(c, p, gen)
  PROVE  /\ \A d \in Conns : d # c => fence'[d] = fence[d]
         /\ \A d \in Conns : fence'[d].gen = fence[d].gen
         /\ \/ fence'[c].player = fence[c].player
            \/ /\ fence'[c].player = p /\ fence[c].gen = gen
               /\ fence[c].player \in {None, p}
         /\ BindPlayer(c, p, gen) = "ok" => fence'[c].player = p /\ ~fence[c].closed
<1>1. fence \in [Conns -> FenceRecord] BY Zenon DEF Ready, ConnsOK
<1> QED BY <1>1, BoundFence, BindOutcome

\* Persisted and ReplyLost: the session is written and the chain moves on.
LEMMA PersistReady ==
  ASSUME Ready, NEW k \in Chains, UNCHANGED lockLost, Persisted(k) \/ ReplyLost(k)
  PROVE  Ready'
<1>1. at(k, "persist") /\ writeSession(k)
      /\ UNCHANGED <<fence, connVars, told, kicks, genVars>>
  BY Zenon DEF Persisted, ReplyLost
<1>2. LocatorOK' BY Zenon, <1>1, Wrote DEF Ready
<1>3. CASE finish(k)
  <2>1. ChainsOK' /\ lock' \in [Players -> Chains \cup {None}] BY Zenon, <1>3, Finished DEF Ready
  <2>2. KeysOK' BY Zenon, <1>1, <2>1 DEF Ready, KeysOK, genVars
  <2>3. CallsOK' BY Zenon, <1>1 DEF Ready, CallsOK, CallOK, connVars
  <2>4. ConnsOK' BY Zenon, <1>1 DEF Ready, ConnsOK, connVars, genVars
  <2> QED BY Zenon, <1>2, <2>1, <2>2, <2>3, <2>4 DEF Ready
<1>4. CASE ~finish(k)
  <2>1. DecideEnterGame(chain[k].existing) = "replace" => chain[k].existing # None
    BY Zenon DEF DecideEnterGame
  <2>2. PICK pc \in {"kick", "bind", "probe"} :
           goto(k, pc) /\ UNCHANGED lock /\ (pc # "bind" => chain[k].existing # None)
    BY <1>4, <2>1, Zenon DEF Persisted, ReplyLost
  <2>3. /\ Active(chain[k]) /\ chain[k].pc \in MintedSteps
        /\ pc \in ChainSteps \ {"persist"} /\ pc # "delete" /\ pc # "kickLost"
    BY Zenon, <1>1 DEF at, Active, MintedSteps, ChainSteps, CommitSteps
  <2>4. ChainsOK' BY Zenon, <2>2, <2>3, GoneOK DEF Ready
  <2>5. KeysOK' BY Zenon, <1>1, <2>2 DEF Ready, KeysOK, genVars
  <2>6. CallsOK' BY Zenon, <1>1 DEF Ready, CallsOK, CallOK, connVars
  <2>7. ConnsOK' BY Zenon, <1>1 DEF Ready, ConnsOK, connVars, genVars
  <2> QED BY Zenon, <1>2, <2>4, <2>5, <2>6, <2>7 DEF Ready
<1> QED BY Zenon, <1>3, <1>4

\* The kick of the replaced session.
LEMMA KickReady ==
  ASSUME Ready, NEW k \in Chains, UNCHANGED lockLost, Kick(k)
  PROVE  Ready'
<1>1. /\ chain[k] \in ChainRecord /\ ChainOK(chain[k])
      /\ chain[k].pc \in {"kick", "kickLost"}
  BY Zenon DEF Ready, ChainsOK, Kick, at
<1>2. PICK pc \in {"bind", "lease"} : goto(k, pc)
  BY Zenon DEF Kick
<1>3. ChainsOK'
  BY Zenon, <1>1, <1>2, GoneOK DEF Ready, Active, ChainSteps, CommitSteps, MintedSteps
<1>4. /\ chain[k].existing.conn \in Conns /\ chain[k].player \in Players
      /\ chain[k].mint \in 1..MaxGeneration
  BY <1>1, EnterGameAssumption
     DEF ChainOK, Active, ChainRecord, Sessions, MintedSteps, CommitSteps
<1>5. UNCHANGED <<fence, locatorVars, connVars, lock, told, genVars>> BY Zenon DEF Kick
<1>6. kicks' \subseteq [conn : Conns, player : Players, gen : 1..MaxGeneration]
  BY <1>4 DEF Ready, KeysOK, Kick, kickReplacedSession
<1>7. KeysOK' BY Zenon, <1>5, <1>6 DEF Ready, KeysOK, genVars
<1>8. LocatorOK' BY Zenon, <1>5 DEF Ready, LocatorOK, locatorVars
<1>9. CallsOK' BY Zenon, <1>5 DEF Ready, CallsOK, CallOK, connVars
<1>10. ConnsOK' BY Zenon, <1>5 DEF Ready, ConnsOK, connVars, genVars
<1> QED BY Zenon, <1>3, <1>7, <1>8, <1>9, <1>10 DEF Ready

\* The binding, known or not to have been carried out, and the gate's notice.
LEMMA BindReady ==
  ASSUME Ready, NEW k \in Chains, UNCHANGED lockLost,
         Bind(k) \/ BindFails(k) \/ SendBindSessionToGate(k)
  PROVE  Ready'
<1>1. /\ chain[k] \in ChainRecord /\ ChainOK(chain[k])
      /\ chain[k].pc \in {"bind", "notify"}
  BY Zenon DEF Ready, ChainsOK, Bind, BindFails, SendBindSessionToGate, at
<1>2. chain[k].conn \in Conns /\ chain[k].player \in Players
  BY Zenon, <1>1 DEF ChainOK, Active
<1>3. PICK pc \in {"notify", "lease", "undo", "recheck"} : goto(k, pc)
  BY Zenon DEF Bind, BindFails, SendBindSessionToGate
<1>4. ChainsOK'
  BY Zenon, <1>1, <1>3, GoneOK DEF Ready, Active, ChainSteps, CommitSteps, MintedSteps
<1>5. UNCHANGED <<locatorVars, connVars, lock, kicks, genVars>>
  BY Zenon DEF Bind, BindFails, SendBindSessionToGate
<1>6. /\ fence' \in [Conns -> FenceRecord]
      /\ \A d \in Conns : fence'[d].gen = fence[d].gen
  <2>1. UNCHANGED fence \/ bound(chain[k].conn, chain[k].player, chain[k].gen)
    BY Zenon DEF Bind, BindFails, SendBindSessionToGate
  <2> QED BY Zenon, <1>2, <2>1, BoundFence DEF Ready, ConnsOK
<1>7. told' \in [Conns -> SUBSET Players]
  BY <1>2 DEF Ready, ConnsOK, Bind, BindFails, SendBindSessionToGate
<1>8. ConnsOK' BY Zenon, <1>5, <1>6, <1>7 DEF Ready, ConnsOK, connVars, genVars
<1>9. CallsOK' BY Zenon, <1>5, <1>6 DEF Ready, CallsOK, CallOK, connVars
<1>10. LocatorOK' BY Zenon, <1>5 DEF Ready, LocatorOK, locatorVars
<1>11. KeysOK' BY Zenon, <1>5 DEF Ready, KeysOK, genVars
<1> QED BY Zenon, <1>4, <1>8, <1>9, <1>10, <1>11 DEF Ready

\* The last steps of a chain: the player is in, or its session is undone.
LEMMA EndReady ==
  ASSUME Ready, NEW k \in Chains, UNCHANGED lockLost,
         Complete(k) \/ PlaceLease(k) \/ UndoDeletes(k)
  PROVE  Ready'
<1>1. /\ chain[k] \in ChainRecord /\ ChainOK(chain[k])
      /\ chain[k].pc \in {"clean", "lease", "delete"}
  BY Zenon DEF Ready, ChainsOK, Complete, PlaceLease, UndoDeletes, at
<1>2. chain[k].conn \in Conns /\ chain[k].player \in Players
  BY Zenon, <1>1 DEF ChainOK, Active
<1>3. finish(k) /\ UNCHANGED <<fence, conn, settle, call, told, kicks, genVars>>
  BY Zenon DEF Complete, PlaceLease, UndoDeletes, connVars
<1>4. ChainsOK' /\ lock' \in [Players -> Chains \cup {None}] BY Zenon, <1>3, Finished DEF Ready
<1>5. KeysOK' BY Zenon, <1>3, <1>4 DEF Ready, KeysOK, genVars
<1>6. CallsOK' BY Zenon, <1>3 DEF Ready, CallsOK, CallOK
<1>7. login' \in [Conns -> BOOLEAN]
  BY Zenon DEF Ready, ConnsOK, Complete, PlaceLease, UndoDeletes, connVars
<1>8. ConnsOK' BY Zenon, <1>3, <1>7 DEF Ready, ConnsOK, genVars
<1>9. LocatorOK'
  <2>1. CASE UNCHANGED locatorVars BY Zenon, <2>1 DEF Ready, LocatorOK, locatorVars
  <2> QED BY Zenon, <1>2, <2>1, Marked, Offline DEF Complete, PlaceLease, UndoDeletes, Ready
<1> QED BY Zenon, <1>4, <1>5, <1>6, <1>8, <1>9 DEF Ready

\* A step of one connection's call that replaces its record by a good one.
LEMMA CallWritten ==
  ASSUME CallsOK, NEW c \in Conns, NEW t \in CallRecord, CallOK(t, fence'[c].gen),
         call' = [call EXCEPT ![c] = t],
         \A d \in Conns : d # c => fence'[d].gen = fence[d].gen
  PROVE  /\ CallsOK'
         /\ call'[c] = t
         /\ \A d \in Conns : d # c => call'[d] = call[d]
  BY Zenon DEF CallsOK

\* What is left to settle, and the end of the request when nothing is.
LEMMA SettlingCall ==
  ASSUME NEW todo \in SUBSET Players, NEW leaves
  PROVE  LET t == settling(todo) IN
         /\ t \in CallRecord /\ CallOK(t, leaves) /\ t.todo = todo
         /\ t.pc \in {"idle", "settle"}
<1>1. CASE todo = {}
  BY Zenon, <1>1 DEF settling, IdleCall, CallRecord, CallOK
<1>2. CASE todo # {}
  <2> DEFINE t == [IdleCall EXCEPT !.pc = "settle", !.todo = todo]
  <2>1. t \in CallRecord /\ t.pc = "settle" /\ t.todo = todo BY Zenon DEF IdleCall, CallRecord
  <2>2. settling(todo) = t BY Zenon, <1>2 DEF settling
  <2> HIDE DEF t
  <2> QED BY Zenon, <2>1, <2>2 DEF CallOK
<1> QED BY Zenon, <1>1, <1>2

\* A request of the client begins: its lane was free.
LEMMA SendReady ==
  ASSUME Ready, NEW c \in Conns, UNCHANGED lockLost, SendLogin(c) \/ SendLeaveGame(c)
  PROVE  /\ Ready'
         /\ call'[c].pc \in {"login", "leave"}
         /\ \A d \in Conns : d # c => call'[d] = call[d]
<1>1. /\ call[c] = IdleCall
      /\ UNCHANGED <<fence, locatorVars, conn, settle, login, chain, lock, told, kicks,
                     key, now, minted>>
  BY Zenon DEF SendLogin, SendLeaveGame, laneFree, genVars
<1>2. PICK pc \in {"login", "leave"} : /\ call' = [call EXCEPT ![c].pc = pc]
                                       /\ pc = "leave" => fence[c].gen < MaxLeaves
  BY Zenon DEF SendLogin, SendLeaveGame
<1> DEFINE t == [IdleCall EXCEPT !.pc = pc]
<1>3. t \in CallRecord /\ t.pc = pc /\ t.todo = {} BY Zenon DEF IdleCall, CallRecord
<1>4. call' = [call EXCEPT ![c] = t] BY Zenon, <1>1, <1>2
<1> HIDE DEF t
<1>5. CallOK(t, fence'[c].gen) BY Zenon, <1>1, <1>2, <1>3 DEF CallOK
<1>6. CallsOK' /\ call'[c] = t /\ \A d \in Conns : d # c => call'[d] = call[d]
  BY Zenon, <1>1, <1>3, <1>4, <1>5, CallWritten DEF Ready
<1>7. LocatorOK' BY Zenon, <1>1 DEF Ready, LocatorOK, locatorVars
<1>8. ChainsOK' BY Zenon, <1>1 DEF Ready, ChainsOK
<1>9. asked' \in [Conns -> SUBSET Players]
  <2>1. asked' = asked \/ asked' = [asked EXCEPT ![c] = {}]
    BY Zenon DEF SendLogin, SendLeaveGame, genVars
  <2> QED BY Zenon, <2>1 DEF Ready, ConnsOK
<1>10. ConnsOK' BY Zenon, <1>1, <1>9 DEF Ready, ConnsOK
<1>11. KeysOK' BY Zenon, <1>1 DEF Ready, KeysOK
<1> QED BY Zenon, <1>3, <1>6, <1>7, <1>8, <1>10, <1>11 DEF Ready

\* Login writes the login state, or not, and is over.
LEMMA LoginReady ==
  ASSUME Ready, NEW c \in Conns, UNCHANGED lockLost, Login(c)
  PROVE  /\ Ready' /\ call'[c].pc = "idle"
         /\ \A d \in Conns : d # c => call'[d] = call[d]
<1>1. IdleCall \in CallRecord /\ IdleCall.pc = "idle" /\ CallOK(IdleCall, fence'[c].gen)
  BY Zenon DEF IdleCall, CallRecord, CallOK
<1>2. /\ call' = [call EXCEPT ![c] = IdleCall]
      /\ UNCHANGED <<fence, locatorVars, conn, settle, chain, lock, told, kicks, genVars>>
  BY Zenon DEF Login
<1>3. CallsOK' /\ call'[c].pc = "idle" /\ \A d \in Conns : d # c => call'[d] = call[d]
  BY Zenon, <1>1, <1>2, CallWritten DEF Ready
<1>4. login' \in [Conns -> BOOLEAN] BY Zenon DEF Login, Ready, ConnsOK
<1>5. ConnsOK' BY Zenon, <1>2, <1>4 DEF Ready, ConnsOK, genVars
<1>6. LocatorOK' BY Zenon, <1>2 DEF Ready, LocatorOK, locatorVars
<1>7. ChainsOK' BY Zenon, <1>2 DEF Ready, ChainsOK
<1>8. KeysOK' BY Zenon, <1>2 DEF Ready, KeysOK, genVars
<1> QED BY Zenon, <1>3, <1>5, <1>6, <1>7, <1>8 DEF Ready

\* EnterGame begins a chain.
LEMMA SendEnterReady ==
  ASSUME Ready, NEW c \in Conns, NEW k \in Chains, NEW p \in Players, UNCHANGED lockLost,
         SendEnterGame(k, c, p)
  PROVE  /\ Ready'
         /\ chain'[k].pc = "account" /\ chain'[k].conn = c /\ chain'[k].player = p
         /\ \A j \in Chains : j # k => chain'[j] = chain[j]
<1> DEFINE t == [IdleChain EXCEPT !.pc = "account", !.conn = c, !.player = p]
<1>1. /\ t \in ChainRecord /\ t.pc = "account" /\ t.conn = c /\ t.player = p
      /\ t.existing = None
  <2>1. 0 \in 0..MaxLeaves /\ 0 \in 0..MaxGeneration BY EnterGameAssumption
  <2>2. IdleChain \in ChainRecord /\ IdleChain.existing = None
    BY Zenon, <2>1 DEF IdleChain, ChainRecord
  <2> QED BY Zenon, <2>2 DEF ChainRecord, ChainSteps, HandlerSteps
<1>2. chain' = [chain EXCEPT ![k] = t] BY Zenon DEF SendEnterGame
<1> HIDE DEF t
<1>3. ChainOK(t) BY Zenon, <1>1 DEF ChainOK, Active, Bounded, MintedSteps, CommitSteps
<1>4. ChainsOK' /\ chain'[k] = t /\ \A j \in Chains : j # k => chain'[j] = chain[j]
  BY Zenon, <1>1, <1>2, <1>3, ChainWritten DEF Ready
<1>5. UNCHANGED <<fence, locatorVars, connVars, lock, told, kicks, key, now, minted>>
  BY Zenon DEF SendEnterGame
<1>6. asked' \in [Conns -> SUBSET Players] BY Zenon DEF SendEnterGame, Ready, ConnsOK
<1>7. ConnsOK' BY Zenon, <1>5, <1>6 DEF Ready, ConnsOK, connVars
<1>8. LocatorOK' BY Zenon, <1>5 DEF Ready, LocatorOK, locatorVars
<1>9. CallsOK' BY Zenon, <1>5 DEF Ready, CallsOK, CallOK, connVars
<1>10. KeysOK' BY Zenon, <1>5 DEF Ready, KeysOK
<1> QED BY Zenon, <1>1, <1>4, <1>7, <1>8, <1>9, <1>10 DEF Ready

\* LeaveGame: the fence counts it and unbinds, and the bound role is to settle.
LEMMA LeaveReady ==
  ASSUME Ready, NEW c \in Conns, UNCHANGED lockLost, LeaveGame(c)
  PROVE  /\ Ready'
         /\ call'[c].pc \in {"idle", "settle"}
         /\ fence[c].player # None => fence[c].player \in call'[c].todo
         /\ fence'[c].player = None /\ fence'[c].gen = fence[c].gen + 1
         /\ fence'[c].closed = fence[c].closed
         /\ \A d \in Conns : d # c => call'[d] = call[d] /\ fence'[d] = fence[d]
<1>1. PICK g \in told[c] \cup {None} :
         call' = [call EXCEPT ![c] = settling(sessionPlayersToSettle(g, fence[c].player))]
  BY Zenon DEF LeaveGame
<1> DEFINE todo == sessionPlayersToSettle(g, fence[c].player)
           t == settling(todo)
<1>2. fence[c] \in FenceRecord /\ told[c] \subseteq Players BY Zenon DEF Ready, ConnsOK
<1>3. todo \in SUBSET Players /\ (fence[c].player # None => fence[c].player \in todo)
  BY Zenon, <1>2 DEF sessionPlayersToSettle, FenceRecord
<1>4. call' = [call EXCEPT ![c] = t] BY Zenon, <1>1
<1> HIDE DEF todo
<1>5. fence[c].gen < MaxLeaves BY Zenon DEF LeaveGame, Ready, CallsOK, CallOK
<1>6. fence[c].gen + 1 \in 0..MaxLeaves BY <1>2, <1>5, EnterGameAssumption DEF FenceRecord
<1>7. /\ fence' \in [Conns -> FenceRecord]
      /\ fence'[c].player = None /\ fence'[c].gen = fence[c].gen + 1
      /\ fence'[c].closed = fence[c].closed
      /\ \A d \in Conns : d # c => fence'[d] = fence[d]
  BY ZenonT(40), <1>6 DEF LeaveGame, Leave, Ready, ConnsOK, FenceRecord
<1>8. /\ t \in CallRecord /\ CallOK(t, fence'[c].gen) /\ t.todo = todo
      /\ t.pc \in {"idle", "settle"}
  BY Zenon, <1>3, SettlingCall
<1> HIDE DEF t
<1>9. CallsOK' /\ call'[c] = t /\ \A d \in Conns : d # c => call'[d] = call[d]
  BY Zenon, <1>4, <1>7, <1>8, CallWritten DEF Ready
<1>10. login' \in [Conns -> BOOLEAN] BY Zenon DEF LeaveGame, Ready, ConnsOK
<1>11. UNCHANGED <<locatorVars, conn, settle, chain, lock, told, kicks, genVars>>
  BY Zenon DEF LeaveGame
<1>12. ConnsOK' BY Zenon, <1>7, <1>10, <1>11 DEF Ready, ConnsOK, genVars
<1>13. LocatorOK' BY Zenon, <1>11 DEF Ready, LocatorOK, locatorVars
<1>14. ChainsOK' BY Zenon, <1>11 DEF Ready, ChainsOK
<1>15. KeysOK' BY Zenon, <1>11 DEF Ready, KeysOK, genVars
<1> QED BY Zenon, <1>3, <1>7, <1>8, <1>9, <1>12, <1>13, <1>14, <1>15 DEF Ready

\* LeaveGame reads the session of a role: it will delete that version, or has
\* nothing to do.
LEMMA LeaveReadsReady ==
  ASSUME Ready, NEW c \in Conns, NEW p \in Players, UNCHANGED lockLost, LeaveGameReads(c, p)
  PROVE  /\ Ready'
         /\ \A d \in Conns : d # c => call'[d] = call[d]
         /\ \/ /\ call'[c].pc = "delete" /\ call'[c].player = p
               /\ call'[c].ver = session[p].ver /\ call'[c].todo = call[c].todo
            \/ /\ ~deleteApplies(p, c) /\ call'[c].pc \in {"idle", "settle"}
               /\ call'[c].todo = call[c].todo \ {p}
<1>1. call[c] \in CallRecord /\ call[c].pc = "settle" BY Zenon DEF LeaveGameReads, Ready, CallsOK
<1>2. UNCHANGED <<fence, locatorVars, conn, settle, login, chain, lock, told, kicks, genVars>>
  BY Zenon DEF LeaveGameReads
<1>3. ASSUME CallsOK' PROVE Ready'
  <2>1. ConnsOK' BY Zenon, <1>2 DEF Ready, ConnsOK, genVars
  <2>2. LocatorOK' BY Zenon, <1>2 DEF Ready, LocatorOK, locatorVars
  <2>3. ChainsOK' BY Zenon, <1>2 DEF Ready, ChainsOK
  <2>4. KeysOK' BY Zenon, <1>2 DEF Ready, KeysOK, genVars
  <2> QED BY Zenon, <1>3, <2>1, <2>2, <2>3, <2>4 DEF Ready
<1>4. CASE deleteApplies(p, c)
  <2> DEFINE t == [call[c] EXCEPT !.pc = "delete", !.player = p, !.ver = session[p].ver]
  <2>1. session[p].ver \in Nat
    BY <1>4 DEF deleteApplies, Ready, LocatorOK, Sessions
  <2>2. /\ t \in CallRecord /\ t.pc = "delete" /\ t.player = p /\ t.ver = session[p].ver
        /\ t.todo = call[c].todo
    BY Zenon, <1>1, <2>1 DEF CallRecord
  <2>3. call' = [call EXCEPT ![c] = t] BY Zenon, <1>4 DEF LeaveGameReads
  <2> HIDE DEF t
  <2>4. CallOK(t, fence'[c].gen) BY Zenon, <2>2 DEF CallOK
  <2>5. CallsOK' /\ call'[c] = t /\ \A d \in Conns : d # c => call'[d] = call[d]
    BY Zenon, <1>2, <2>2, <2>3, <2>4, CallWritten DEF Ready
  <2> QED BY Zenon, <1>3, <2>2, <2>5
<1>5. CASE ~deleteApplies(p, c)
  <2> DEFINE todo == call[c].todo \ {p}
             t == settling(todo)
  <2>1. todo \in SUBSET Players BY Zenon, <1>1 DEF CallRecord
  <2>2. call' = [call EXCEPT ![c] = t] BY Zenon, <1>5 DEF LeaveGameReads, settled
  <2> HIDE DEF todo
  <2>3. /\ t \in CallRecord /\ CallOK(t, fence'[c].gen) /\ t.todo = todo
        /\ t.pc \in {"idle", "settle"}
    BY Zenon, <2>1, SettlingCall
  <2> HIDE DEF t
  <2>4. CallsOK' /\ call'[c] = t /\ \A d \in Conns : d # c => call'[d] = call[d]
    BY Zenon, <1>2, <2>2, <2>3, CallWritten DEF Ready
  <2> QED BY Zenon, <1>3, <1>5, <2>3, <2>4 DEF todo
<1> QED BY Zenon, <1>4, <1>5

\* LeaveGame deletes the version it read, and the role is settled.
LEMMA LeaveDeletesReady ==
  ASSUME Ready, NEW c \in Conns, UNCHANGED lockLost, LeaveGameDeletes(c)
  PROVE  LET p == call[c].player IN
         /\ Ready' /\ p \in Players
         /\ \A d \in Conns : d # c => call'[d] = call[d]
         /\ call'[c].pc \in {"idle", "settle"} /\ call'[c].todo = call[c].todo \ {p}
         /\ \A q \in Players : q # p => session'[q] = session[q]
         /\ \/ session' = session /\ ~(/\ session[p] # None /\ session[p].ver = call[c].ver
                                       /\ session[p].conn = c)
            \/ session'[p] = None
<1> DEFINE p == call[c].player
           todo == call[c].todo \ {p}
           t == settling(todo)
<1>1. p \in Players /\ todo \in SUBSET Players
  BY Zenon DEF LeaveGameDeletes, Ready, CallsOK, CallOK, CallRecord
<1>2. /\ LocatorOK' /\ \A q \in Players : q # p => session'[q] = session[q]
      /\ \/ session' = session /\ ~(/\ session[p] # None /\ session[p].ver = call[c].ver
                                    /\ session[p].conn = c)
         \/ session'[p] = None
  BY Zenon, <1>1, Offline DEF LeaveGameDeletes, Ready
<1>3. call' = [call EXCEPT ![c] = t] BY Zenon DEF LeaveGameDeletes, settled
<1> HIDE DEF todo
<1>4. /\ t \in CallRecord /\ CallOK(t, fence'[c].gen) /\ t.todo = todo
      /\ t.pc \in {"idle", "settle"}
  BY Zenon, <1>1, SettlingCall
<1> HIDE DEF t
<1>5. UNCHANGED <<fence, conn, settle, login, chain, lock, told, kicks, genVars>>
  BY Zenon DEF LeaveGameDeletes
<1>6. CallsOK' /\ call'[c] = t /\ \A d \in Conns : d # c => call'[d] = call[d]
  BY Zenon, <1>3, <1>4, <1>5, CallWritten DEF Ready
<1>7. ConnsOK' BY Zenon, <1>5 DEF Ready, ConnsOK, genVars
<1>8. ChainsOK' BY Zenon, <1>5 DEF Ready, ChainsOK
<1>9. KeysOK' BY Zenon, <1>5 DEF Ready, KeysOK, genVars
<1> QED BY Zenon, <1>1, <1>2, <1>4, <1>6, <1>7, <1>8, <1>9 DEF Ready, todo

\* Close sets the closed mark.
LEMMA ClosedFence ==
  ASSUME fence \in [Conns -> FenceRecord], NEW c \in Conns, Close(c)
  PROVE  /\ fence' \in [Conns -> FenceRecord]
         /\ fence'[c].closed = TRUE
         /\ \A d \in Conns : fence'[d].gen = fence[d].gen /\ fence'[d].player = fence[d].player
         /\ \A d \in Conns : d # c => fence'[d] = fence[d]
<1> DEFINE t == [fence[c] EXCEPT !.closed = TRUE]
<1>1. fence' = [fence EXCEPT ![c] = t] BY Zenon DEF Close
<1>2. /\ t \in FenceRecord /\ t.closed = TRUE /\ t.gen = fence[c].gen
      /\ t.player = fence[c].player
  BY Zenon DEF FenceRecord
<1> HIDE DEF t
<1> QED BY Zenon, <1>1, <1>2

\* The connection closes: the role the gate names, if any, is to settle.
LEMMA ClosedConn ==
  ASSUME ConnsOK, NEW c \in Conns, closeConnection(c)
  PROVE  /\ conn' \in [Conns -> {"open", "close", "clean", "mark", "gone"}]
         /\ settle' \in [Conns -> SUBSET Players]
         /\ conn[c] = "open" /\ conn'[c] = "close"
         /\ \A d \in Conns : d # c => conn'[d] = conn[d] /\ settle'[d] = settle[d]
<1>1. PICK g \in told[c] \cup {None} :
         settle' = [settle EXCEPT ![c] = sessionPlayersToSettle(g, None)]
  BY Zenon DEF closeConnection
<1>2. sessionPlayersToSettle(g, None) \in SUBSET Players
  BY Zenon DEF ConnsOK, sessionPlayersToSettle
<1> QED BY Zenon, <1>1, <1>2 DEF closeConnection, ConnsOK

\* The steps of the connection's end; Disconnect keeps its promises to settle
\* but for the role it has just leased.
LEMMA ConnectionReady ==
  ASSUME Ready, NEW c \in Conns, UNCHANGED lockLost, ConnectionStep(c)
  PROVE  Ready'
<1>1. UNCHANGED <<call, chain, lock, told, kicks, genVars>>
  BY Zenon DEF ConnectionStep, ConnectionDown, DisconnectCloses, DisconnectCleans, DisconnectMarks
<1>2. /\ fence' \in [Conns -> FenceRecord]
      /\ \A d \in Conns : fence'[d].gen = fence[d].gen
  <2>1. UNCHANGED fence \/ Close(c)
    BY Zenon DEF ConnectionStep, ConnectionDown, DisconnectCloses, DisconnectCleans, DisconnectMarks
  <2>2. CASE UNCHANGED fence BY Zenon, <2>2 DEF Ready, ConnsOK
  <2> QED BY Zenon, <2>1, <2>2, ClosedFence DEF Ready, ConnsOK
<1>3. LocatorOK'
  <2>1. CASE UNCHANGED locatorVars BY Zenon, <2>1 DEF Ready, LocatorOK, locatorVars
  <2>2. CASE \E p \in Players : DisconnectMarks(c, p)
    BY Zenon, <2>2, Marked DEF DisconnectMarks, Ready
  <2>3. CASE ConnectionDown(c) \/ DisconnectCloses(c) \/ DisconnectCleans(c)
    BY Zenon, <2>1, <2>3 DEF ConnectionDown, DisconnectCloses, DisconnectCleans
  <2> QED BY Zenon, <2>2, <2>3 DEF ConnectionStep
<1>4. /\ conn' \in [Conns -> {"open", "close", "clean", "mark", "gone"}]
      /\ settle' \in [Conns -> SUBSET Players]
  <2>1. CASE ConnectionDown(c) BY Zenon, <2>1, ClosedConn DEF ConnectionDown, Ready
  <2>2. CASE DisconnectCloses(c)
    <3>1. sessionPlayersToSettle(None, fence[c].player) \in SUBSET Players
      BY Zenon DEF Ready, ConnsOK, FenceRecord, sessionPlayersToSettle
    <3> QED BY Zenon, <2>2, <3>1 DEF DisconnectCloses, Ready, ConnsOK
  <2>3. CASE DisconnectCleans(c) BY Zenon, <2>3 DEF DisconnectCleans, Ready, ConnsOK
  <2>4. CASE \E p \in Players : DisconnectMarks(c, p)
    BY <2>4 DEF DisconnectMarks, Ready, ConnsOK
  <2> QED BY Zenon, <2>1, <2>2, <2>3, <2>4 DEF ConnectionStep
<1>5. login' \in [Conns -> BOOLEAN]
  <2>1. login' = login \/ login' = [login EXCEPT ![c] = FALSE]
    BY Zenon DEF ConnectionStep, ConnectionDown, DisconnectCloses, DisconnectCleans, DisconnectMarks
  <2> QED BY Zenon, <2>1 DEF Ready, ConnsOK
<1>6. ConnsOK' BY Zenon, <1>1, <1>2, <1>4, <1>5 DEF Ready, ConnsOK, genVars
<1>7. CallsOK' BY Zenon, <1>1, <1>2 DEF Ready, CallsOK
<1>8. ChainsOK' BY Zenon, <1>1 DEF Ready, ChainsOK
<1>9. KeysOK' BY Zenon, <1>1 DEF Ready, KeysOK, genVars
<1> QED BY Zenon, <1>3, <1>6, <1>7, <1>8, <1>9 DEF Ready

\* A kick closes a connection or is ignored.
LEMMA KickArrivesReady ==
  ASSUME Ready, NEW m \in kicks, UNCHANGED lockLost, KickArrives(m)
  PROVE  Ready' /\ m.conn \in Conns
<1>1. m.conn \in Conns BY Zenon DEF Ready, KeysOK
<1>2. UNCHANGED <<fence, locatorVars, login, call, chain, lock, told, genVars>>
  BY Zenon DEF KickArrives
<1>3. /\ conn' \in [Conns -> {"open", "close", "clean", "mark", "gone"}]
      /\ settle' \in [Conns -> SUBSET Players]
  <2>1. CASE closeConnection(m.conn) BY Zenon, <1>1, <2>1, ClosedConn DEF Ready
  <2>2. CASE UNCHANGED <<conn, settle>> BY Zenon, <2>2 DEF Ready, ConnsOK
  <2> QED BY Zenon, <2>1, <2>2 DEF KickArrives
<1>4. kicks' \subseteq kicks BY Zenon DEF KickArrives
<1>5. ConnsOK' BY Zenon, <1>2, <1>3 DEF Ready, ConnsOK, genVars
<1>6. LocatorOK' BY Zenon, <1>2 DEF Ready, LocatorOK, locatorVars
<1>7. CallsOK' BY Zenon, <1>2 DEF Ready, CallsOK
<1>8. ChainsOK' BY Zenon, <1>2 DEF Ready, ChainsOK
<1>9. KeysOK' BY Zenon, <1>2, <1>4 DEF Ready, KeysOK, genVars
<1> QED BY Zenon, <1>1, <1>5, <1>6, <1>7, <1>8, <1>9 DEF Ready

\* A minting key expires; player_locator works by itself.
LEMMA AroundReady ==
  ASSUME Ready, NEW p \in Players, UNCHANGED lockLost,
         ExpireKey(p) \/ LocatorStep(p)
  PROVE  Ready'
<1>1. UNCHANGED <<fence, connVars, chain, lock, told, kicks, minted, asked>>
  BY Zenon DEF ExpireKey, LocatorStep, Tick, genVars
<1>2. LocatorOK'
  <2>1. CASE UNCHANGED locatorVars BY Zenon, <2>1 DEF Ready, LocatorOK, locatorVars
  <2> QED BY Zenon, <2>1, LocatorAlone DEF Ready, ExpireKey, Tick
<1>3. key' \in [Players -> 0..MaxGeneration]
  <2>1. key' = key \/ key' = [key EXCEPT ![p] = 0]
    BY Zenon DEF ExpireKey, LocatorStep, Tick, genVars
  <2>2. 0 \in 0..MaxGeneration BY EnterGameAssumption
  <2> QED BY Zenon, <2>1, <2>2 DEF Ready, KeysOK
<1>4. now' \in 1..MaxNow
  <2>1. now \in 1..MaxNow BY Zenon DEF Ready, KeysOK
  <2>2. now' = now \/ now' \in now..MaxNow
    BY Zenon, <2>1, EnterGameAssumption DEF ExpireKey, LocatorStep, Tick, genVars
  <2> QED BY <2>1, <2>2, EnterGameAssumption
<1>5. KeysOK' BY Zenon, <1>1, <1>3, <1>4 DEF Ready, KeysOK
<1>6. ConnsOK' BY Zenon, <1>1 DEF Ready, ConnsOK, connVars
<1>7. CallsOK' BY Zenon, <1>1 DEF Ready, CallsOK, connVars
<1>8. ChainsOK' BY Zenon, <1>1 DEF Ready, ChainsOK
<1> QED BY Zenon, <1>2, <1>5, <1>6, <1>7, <1>8 DEF Ready

\* Redis loses a lock.
LEMMA LoseLockReady ==
  ASSUME Ready, NEW p \in Players, LoseLock(p)
  PROVE  Ready'
<1>1. /\ UNCHANGED <<fence, locatorVars, connVars, chain, told, kicks, genVars>>
      /\ lock' \in [Players -> Chains \cup {None}] /\ lockLost' \in BOOLEAN
  BY Zenon DEF LoseLock, Ready, KeysOK
<1>2. LocatorOK' BY Zenon, <1>1 DEF Ready, LocatorOK, locatorVars
<1>3. CallsOK' BY Zenon, <1>1 DEF Ready, CallsOK, connVars
<1>4. ConnsOK' BY Zenon, <1>1 DEF Ready, ConnsOK, connVars, genVars
<1>5. ChainsOK' BY Zenon, <1>1 DEF Ready, ChainsOK
<1>6. KeysOK' BY Zenon, <1>1 DEF Ready, KeysOK, genVars
<1> QED BY Zenon, <1>2, <1>3, <1>4, <1>5, <1>6 DEF Ready

\* Every step of the model keeps Ready.
LEMMA ReadyStep == Ready /\ [Next]_vars => Ready'
<1> SUFFICES ASSUME Ready, [Next]_vars PROVE Ready'
  BY Zenon
<1>1. CASE UNCHANGED vars
  <2>1. UNCHANGED <<fence, session, leased, owed, conn, settle, login, call, chain, lock,
                    told, kicks, key, now, minted, asked, lockLost>>
    BY Zenon, <1>1 DEF vars, locatorVars, connVars, genVars
  <2> QED BY Zenon, <2>1 DEF Ready, LocatorOK, ChainsOK, CallsOK, ConnsOK, KeysOK
<1>2. ASSUME NEW c \in Conns, RequestStep(c), UNCHANGED lockLost PROVE Ready'
  BY Zenon, <1>2, SendReady, LoginReady, SendEnterReady, LeaveReady, LeaveReadsReady,
     LeaveDeletesReady DEF RequestStep
<1>3. ASSUME NEW k \in Chains, ChainStep(k), UNCHANGED lockLost PROVE Ready'
  BY Zenon, <1>3, PlainStepReady, RecordStepReady, MintReady, PersistReady, KickReady, BindReady,
     EndReady DEF ChainStep
<1>4. CASE \E p \in Players : LoseLock(p) BY Zenon, <1>4, LoseLockReady
<1>5. CASE Tick /\ UNCHANGED lockLost
  <2>1. UNCHANGED <<fence, locatorVars, connVars, chain, lock, told, kicks, key, minted, asked,
                    lockLost>>
    BY Zenon, <1>5 DEF Tick
  <2>2. now' \in 1..MaxNow BY <1>5, EnterGameAssumption DEF Tick, Ready, KeysOK
  <2>3. KeysOK' BY Zenon, <2>1, <2>2 DEF Ready, KeysOK
  <2>4. ConnsOK' BY Zenon, <2>1 DEF Ready, ConnsOK, connVars
  <2>5. CallsOK' BY Zenon, <2>1 DEF Ready, CallsOK, connVars
  <2>6. ChainsOK' BY Zenon, <2>1 DEF Ready, ChainsOK
  <2>7. LocatorOK' BY Zenon, <2>1 DEF Ready, LocatorOK, locatorVars
  <2> QED BY Zenon, <2>3, <2>4, <2>5, <2>6, <2>7 DEF Ready
<1>6. ASSUME NEW p \in Players, ExpireKey(p) \/ LocatorStep(p), UNCHANGED lockLost
      PROVE  Ready'
  BY Zenon, <1>6, AroundReady
<1> QED BY Zenon, <1>1, <1>2, <1>3, <1>4, <1>5, <1>6, ConnectionReady, KickArrivesReady DEF Next

\* The initial states satisfy it.
LEMMA ReadyInit == Init => Ready
<1> SUFFICES ASSUME Init PROVE Ready
  BY Zenon
<1> USE DEF Init
<1>1. LocatorOK BY Zenon DEF LocatorOK, Bounded
<1>2. ChainsOK
  <2>1. 0 \in 0..MaxLeaves /\ 0 \in 0..MaxGeneration BY EnterGameAssumption
  <2>2. IdleChain \in ChainRecord BY Zenon, <2>1 DEF IdleChain, ChainRecord
  <2>3. ChainOK(IdleChain)
    BY Zenon DEF IdleChain, ChainOK, Active, Bounded, MintedSteps, CommitSteps
  <2> QED BY Zenon, <2>2, <2>3 DEF ChainsOK
<1>3. CallsOK
  <2>1. IdleCall \in CallRecord BY Zenon DEF IdleCall, CallRecord
  <2>2. \A c \in Conns : CallOK(IdleCall, fence[c].gen) BY Zenon DEF IdleCall, CallOK
  <2> QED BY Zenon, <2>1, <2>2 DEF CallsOK
<1>4. ConnsOK
  <2>1. 0 \in 0..MaxLeaves BY EnterGameAssumption
  <2>2. [closed |-> FALSE, gen |-> 0, player |-> None] \in FenceRecord
    BY Zenon, <2>1 DEF FenceRecord
  <2> QED BY Zenon, <2>2 DEF ConnsOK, FenceInit
<1>5. KeysOK
  <2>1. 0 \in 0..MaxGeneration /\ 1 \in 1..MaxNow BY EnterGameAssumption
  <2> QED BY Zenon, <2>1 DEF KeysOK
<1> QED BY Zenon, <1>1, <1>2, <1>3, <1>4, <1>5 DEF Ready

-----------------------------------------------------------------------------
(* Closing *)

\* No step but those of the connection's end moves the Disconnect on; login
\* state is only written where the fence is open.
LEMMA ClosingFrame ==
  ASSUME Ready, Closing, UNCHANGED <<conn, settle>>,
         \A d \in Conns : fence'[d].closed = fence[d].closed,
         \A d \in Conns : login'[d] => login[d] \/ ~fence[d].closed
  PROVE  Closing'
  BY Zenon DEF Closing

\* The client's requests: only Login writes login state.
LEMMA ClosingRequest ==
  ASSUME Ready, Closing, NEW c \in Conns, RequestStep(c), UNCHANGED lockLost
  PROVE  Closing'
<1>1. CASE Login(c)
  <2>1. UNCHANGED <<fence, conn, settle>> BY Zenon, <1>1 DEF Login
  <2>2. login' = [login EXCEPT ![c] = login[c] \/ ~fence[c].closed]
    BY Zenon, <1>1 DEF Login, CommitLogin
  <2>3. \A d \in Conns : login'[d] => login[d] \/ ~fence[d].closed
    BY <2>2, Zenon DEF Ready, ConnsOK
  <2> QED BY Zenon, <2>1, <2>3, ClosingFrame
<1>2. CASE LeaveGame(c)
  <2>1. UNCHANGED <<conn, settle>> /\ login' = [login EXCEPT ![c] = FALSE]
    BY Zenon, <1>2 DEF LeaveGame
  <2>2. \A d \in Conns : fence'[d].closed = fence[d].closed BY Zenon, <1>2, LeaveReady
  <2>3. \A d \in Conns : login'[d] => login[d] BY <2>1, Zenon DEF Ready, ConnsOK
  <2> QED BY Zenon, <2>1, <2>2, <2>3, ClosingFrame
<1>3. CASE UNCHANGED <<fence, conn, settle, login>>
  BY Zenon, <1>3, ClosingFrame
<1> QED BY Zenon, <1>1, <1>2, <1>3
     DEF RequestStep, SendLogin, SendEnterGame, SendLeaveGame, LeaveGameDeletes,
         LeaveGameReads, connVars

\* The steps of a chain: binding leaves the closed mark alone.
LEMMA ClosingChain ==
  ASSUME Ready, Closing, NEW k \in Chains, ChainStep(k), UNCHANGED lockLost
  PROVE  Closing'
<1>1. UNCHANGED <<conn, settle>>
  BY Zenon DEF ChainStep, GetAccount, EnterFence, TryLock, Accept, GetSession, Mint, Persisted,
         PersistFails, ReplyLost, Probe, Kick, Bind, BindFails, SendBindSessionToGate,
         RecheckFence, OwnerGone, EnterScene, Complete, PlaceLease, UndoReads, UndoDeletes,
         Abandon, connVars
<1>2. CASE Bind(k) \/ BindFails(k)
  <2>1. UNCHANGED login BY Zenon, <1>2 DEF Bind, BindFails, connVars
  <2>2. chain[k].conn \in Conns /\ chain[k].player \in Players
    BY Zenon, <1>2 DEF Ready, ChainsOK, ChainOK, Active, Bind, BindFails, at
  <2>3. UNCHANGED fence \/ bound(chain[k].conn, chain[k].player, chain[k].gen)
    BY Zenon, <1>2 DEF Bind, BindFails
  <2>4. \A d \in Conns : fence'[d].closed = fence[d].closed
    BY Zenon, <2>2, <2>3, BoundFence DEF Ready, ConnsOK
  <2> QED BY Zenon, <1>1, <2>1, <2>4, ClosingFrame
<1>3. CASE Complete(k)
  <2>1. UNCHANGED fence /\ login' = [login EXCEPT ![chain[k].conn] = FALSE]
    BY Zenon, <1>3 DEF Complete
  <2>2. \A d \in Conns : login'[d] => login[d] BY <2>1, Zenon DEF Ready, ConnsOK
  <2> QED BY Zenon, <1>1, <2>1, <2>2, ClosingFrame
<1>4. CASE UNCHANGED <<fence, login>>
  BY Zenon, <1>1, <1>4, ClosingFrame
<1> QED BY Zenon, <1>2, <1>3, <1>4
  DEF ChainStep, GetAccount, EnterFence, TryLock, Accept, GetSession, Mint, Persisted,
      PersistFails, ReplyLost, Probe, Kick, SendBindSessionToGate, RecheckFence, OwnerGone,
      EnterScene, PlaceLease, UndoReads, UndoDeletes, Abandon, connVars

\* The connection goes down.
LEMMA ClosingDown ==
  ASSUME Ready, Closing, NEW c \in Conns, closeConnection(c), UNCHANGED <<fence, login>>
  PROVE  Closing'
<1>1. /\ conn[c] = "open" /\ conn'[c] = "close"
      /\ \A d \in Conns : d # c => conn'[d] = conn[d] /\ settle'[d] = settle[d]
  BY Zenon, ClosedConn DEF Ready
<1> QED BY Zenon, <1>1 DEF Closing

\* The steps of Disconnect: closed first, then the login state.
LEMMA ClosingConnection ==
  ASSUME Ready, Closing, NEW c \in Conns, ConnectionStep(c), UNCHANGED lockLost
  PROVE  Closing'
<1>1. CASE ConnectionDown(c)
  BY Zenon, <1>1, ClosingDown DEF ConnectionDown
<1>2. CASE DisconnectCloses(c)
  <2>1. /\ conn[c] = "close" /\ conn'[c] = "clean" /\ login' = login
        /\ \A d \in Conns : d # c => conn'[d] = conn[d] /\ settle'[d] = settle[d]
    BY Zenon, <1>2 DEF DisconnectCloses, Ready, ConnsOK
  <2>2. fence'[c].closed /\ \A d \in Conns : d # c => fence'[d] = fence[d]
    BY Zenon, <1>2, ClosedFence DEF DisconnectCloses, Ready, ConnsOK
  <2> QED BY Zenon, <2>1, <2>2 DEF Closing
<1>3. CASE DisconnectCleans(c)
  <2>1. /\ conn[c] = "clean" /\ conn'[c] \in {"mark", "gone"} /\ UNCHANGED <<fence, settle>>
        /\ \A d \in Conns : d # c => conn'[d] = conn[d]
    BY Zenon, <1>3 DEF DisconnectCleans, Ready, ConnsOK
  <2>2. ~login'[c] /\ \A d \in Conns : d # c => login'[d] = login[d]
    BY Zenon, <1>3 DEF DisconnectCleans, Ready, ConnsOK
  <2> QED BY Zenon, <2>1, <2>2 DEF Closing
<1>4. ASSUME NEW p \in Players, DisconnectMarks(c, p) PROVE Closing'
  <2>1. /\ conn[c] = "mark" /\ conn'[c] \in {"mark", "gone"} /\ UNCHANGED <<fence, login>>
        /\ \A d \in Conns : d # c => conn'[d] = conn[d] /\ settle'[d] = settle[d]
    BY Zenon, <1>4 DEF DisconnectMarks, Ready, ConnsOK
  <2> QED BY Zenon, <2>1 DEF Closing
<1> QED BY Zenon, <1>1, <1>2, <1>3, <1>4 DEF ConnectionStep

\* Every step keeps Closing.
LEMMA ClosingStep == Ready /\ Closing /\ [Next]_vars => Closing'
<1> SUFFICES ASSUME Ready, Closing, [Next]_vars PROVE Closing'
  BY Zenon
<1>1. CASE UNCHANGED <<fence, conn, settle, login>>
  BY Zenon, <1>1, ClosingFrame
<1>2. ASSUME NEW m \in kicks, KickArrives(m) PROVE Closing'
  <2>1. m.conn \in Conns BY Zenon DEF Ready, KeysOK
  <2> QED BY Zenon, <1>1, <1>2, <2>1, ClosingDown DEF KickArrives
<1>3. CASE UNCHANGED vars BY Zenon, <1>1, <1>3 DEF vars, connVars
<1>4. CASE (\E p \in Players : ExpireKey(p) \/ LocatorStep(p) \/ LoseLock(p)) \/ Tick
  BY Zenon, <1>1, <1>4 DEF ExpireKey, LocatorStep, LoseLock, Tick, connVars
<1> QED BY Zenon, <1>2, <1>3, <1>4, ClosingRequest, ClosingChain, ClosingConnection DEF Next

-----------------------------------------------------------------------------
(* Minting *)

\* The generation of a mint is above all minted before it for the player.
LEMMA MintAdvances ==
  ASSUME Ready, Minting, NEW k \in Chains, Mint(k)
  PROVE  chain'[k].mint > minted[chain[k].player]
<1> DEFINE p == chain[k].player
           m == chain'[k].mint
<1>1. p \in Players /\ m \in 1..MaxGeneration /\ m > key[p] /\ m >= now - Skew
  BY Zenon, MintWrites
<1> HIDE DEF p, m
<1>2. key[p] \in Nat /\ minted[p] \in Nat /\ now \in Nat
  BY <1>1, EnterGameAssumption DEF Ready, KeysOK
<1>3. /\ key[p] = 0 => minted[p] = 0 \/ minted[p] < now - Skew
      /\ key[p] # 0 => minted[p] <= key[p]
  BY Zenon, <1>1 DEF Minting
<1>4. m > minted[p] BY <1>1, <1>2, <1>3, EnterGameAssumption
<1> QED BY Zenon, <1>4 DEF p, m

\* Time passes, or nothing that Minting is about changes.
LEMMA MintingFrame ==
  ASSUME Ready, Ready', Minting, UNCHANGED <<key, minted>>, now' >= now
  PROVE  Minting'
<1> SUFFICES ASSUME NEW p \in Players
             PROVE  /\ key[p] = 0 => minted[p] = 0 \/ minted[p] < now' - Skew
                    /\ key[p] # 0 => minted[p] <= key[p]
  BY Zenon DEF Minting
<1>1. minted[p] \in Int /\ now \in Int /\ now' \in Int
  BY EnterGameAssumption DEF Ready, KeysOK
<1> QED BY <1>1, EnterGameAssumption DEF Minting

\* Every step keeps Minting: a key expires only when all clocks are past it.
LEMMA MintingStep == Ready /\ Ready' /\ Minting /\ [Next]_vars => Minting'
<1> SUFFICES ASSUME Ready, Ready', Minting, [Next]_vars PROVE Minting'
  BY Zenon
<1>1. now \in Int /\ now' \in Int /\ now >= now
  BY EnterGameAssumption DEF Ready, KeysOK
<1>2. CASE UNCHANGED <<key, now, minted>> BY Zenon, <1>1, <1>2, MintingFrame
<1>3. CASE Tick BY <1>1, <1>3, MintingFrame DEF Tick
<1>4. ASSUME NEW p \in Players, ExpireKey(p) PROVE Minting'
  <2>1. /\ key[p] # 0 /\ now' \in now..MaxNow /\ now' - Skew > key[p]
        /\ key' = [key EXCEPT ![p] = 0] /\ minted' = minted
    BY Zenon, <1>4 DEF ExpireKey
  <2> SUFFICES ASSUME NEW q \in Players
               PROVE  /\ key'[q] = 0 => minted[q] = 0 \/ minted[q] < now' - Skew
                      /\ key'[q] # 0 => minted[q] <= key'[q]
    BY Zenon, <2>1 DEF Minting
  <2>2. key[q] \in Int /\ minted[q] \in Int /\ key \in [Players -> 0..MaxGeneration]
    BY EnterGameAssumption DEF Ready, KeysOK
  <2>3. /\ key[q] = 0 => minted[q] = 0 \/ minted[q] < now - Skew
        /\ key[q] # 0 => minted[q] <= key[q]
    BY Zenon DEF Minting
  <2>4. key'[q] = IF q = p THEN 0 ELSE key[q] BY Zenon, <2>1, <2>2
  <2>5. now <= now' BY <1>1, <2>1, EnterGameAssumption
  <2> QED BY <1>1, <2>1, <2>2, <2>3, <2>4, <2>5, EnterGameAssumption
<1>5. ASSUME NEW k \in Chains, Mint(k) PROVE Minting'
  <2> DEFINE p == chain[k].player
             m == chain'[k].mint
  <2>1. /\ p \in Players /\ m \in 1..MaxGeneration
        /\ key' = [key EXCEPT ![p] = m]
        /\ minted' = [minted EXCEPT ![p] = Larger(minted[p], m)]
    BY Zenon, <1>5, MintWrites
  <2>2. m > minted[p] BY Zenon, <1>5, MintAdvances
  <2>3. now' = now BY Zenon, <1>5 DEF Mint
  <2> HIDE DEF p, m
  <2>4. m \in Int /\ m # 0 /\ minted[p] \in Int
    BY <2>1, EnterGameAssumption DEF Ready, KeysOK
  <2>5. Larger(minted[p], m) <= m BY <2>2, <2>4 DEF Larger
  <2>6. \A q \in Players : /\ key'[q] = IF q = p THEN m ELSE key[q]
                           /\ minted'[q] = IF q = p THEN Larger(minted[p], m) ELSE minted[q]
    BY Zenon, <2>1 DEF Ready, KeysOK
  <2> QED BY Zenon, <2>3, <2>4, <2>5, <2>6 DEF Minting
<1>6. ASSUME NEW k \in Chains, ChainStep(k), ~Mint(k) PROVE UNCHANGED <<key, now, minted>>
  BY Zenon, <1>6
     DEF ChainStep, GetAccount, EnterFence, TryLock, Accept, GetSession, Persisted,
         PersistFails, ReplyLost, Probe, Kick, Bind, BindFails, SendBindSessionToGate,
         RecheckFence, OwnerGone, EnterScene, Complete, PlaceLease, UndoReads, UndoDeletes,
         Abandon, genVars
<1>7. ASSUME NEW c \in Conns, RequestStep(c) \/ ConnectionStep(c)
      PROVE  UNCHANGED <<key, now, minted>>
  BY Zenon, <1>7
     DEF RequestStep, SendLogin, Login, SendEnterGame, SendLeaveGame, LeaveGame,
         LeaveGameReads, LeaveGameDeletes, ConnectionStep, ConnectionDown, DisconnectCloses,
         DisconnectCleans, DisconnectMarks, genVars
<1>8. CASE UNCHANGED vars BY Zenon, <1>2, <1>8 DEF vars, genVars
<1>9. CASE \E p \in Players : LocatorStep(p) \/ LoseLock(p)
  BY Zenon, <1>2, <1>9 DEF LocatorStep, LoseLock, genVars
<1>10. ASSUME NEW m \in kicks, KickArrives(m) PROVE Minting'
  BY Zenon, <1>2, <1>10 DEF KickArrives, genVars
<1> QED BY Zenon, <1>2, <1>3, <1>4, <1>5, <1>6, <1>7, <1>8, <1>9, <1>10 DEF Next

-----------------------------------------------------------------------------
(* The moves of a chain *)

\* Where a step that is not its last takes a chain, by what the steps do to
\* the program counter.
Moves(k) ==
    /\ chain'[k].conn = chain[k].conn /\ chain'[k].player = chain[k].player
    /\ EnterFence(k) \/ chain'[k].gen = chain[k].gen
    /\ chain[k].pc \in MintedSteps => chain'[k].mint = chain[k].mint
    /\ chain'[k].pc \in HandlerSteps => chain[k].pc \in HandlerSteps
    /\ chain'[k].pc \notin {"account", "fence"} =>
          EnterFence(k) \/ chain[k].pc \notin {"account", "fence"}
    /\ chain'[k].pc \in LockedSteps => TryLock(k) \/ chain[k].pc \in LockedSteps
    /\ chain'[k].pc \in OwnSteps => Persisted(k) \/ chain[k].pc \in OwnSteps
    /\ chain[k].pc \in CommitSteps => chain'[k].pc \in CommitSteps \/ Bind(k)
    /\ chain'[k].pc = "delete" => UndoReads(k)
    /\ chain'[k].pc = "persist" => Mint(k)

\* A step that is a goto from one program counter to another.
LEMMA GotoMoves ==
  ASSUME Ready, NEW k \in Chains, NEW pc \in ChainSteps, goto(k, pc),
         pc \notin {"delete", "persist"}, ~EnterFence(k),
         pc \in HandlerSteps => chain[k].pc \in HandlerSteps,
         pc \notin {"account", "fence"} => chain[k].pc \notin {"account", "fence"},
         pc \in LockedSteps => TryLock(k) \/ chain[k].pc \in LockedSteps,
         pc \in OwnSteps => Persisted(k) \/ chain[k].pc \in OwnSteps,
         chain[k].pc \in CommitSteps => pc \in CommitSteps \/ Bind(k)
  PROVE  Moves(k) /\ \A j \in Chains : j # k => chain'[j] = chain[j]
<1>1. /\ chain'[k].pc = pc
      /\ chain'[k].conn = chain[k].conn /\ chain'[k].player = chain[k].player
      /\ chain'[k].gen = chain[k].gen /\ chain'[k].mint = chain[k].mint
      /\ \A j \in Chains : j # k => chain'[j] = chain[j]
  BY Zenon, Gone DEF Ready
<1> QED BY Zenon, <1>1 DEF Moves

\* Every step of a chain is its last or one of these moves, of this chain only.
LEMMA ChainMoves ==
  ASSUME Ready, NEW k \in Chains, ChainStep(k)
  PROVE  /\ Active(chain[k])
         /\ \A j \in Chains : j # k => chain'[j] = chain[j]
         /\ finish(k) \/ Moves(k)
<1> USE DEF LockedSteps, OwnSteps, HandlerSteps, CommitSteps, ChainSteps
<1>1. Active(chain[k])
  BY Zenon DEF ChainStep, Active, GetAccount, EnterFence, TryLock, Accept, GetSession, Mint,
         Persisted, PersistFails, ReplyLost, Probe, Kick, Bind, BindFails,
         SendBindSessionToGate, RecheckFence, OwnerGone, EnterScene, Complete, PlaceLease,
         UndoReads, UndoDeletes, Abandon, at
<1>2. CASE finish(k) BY Zenon, <1>1, <1>2, Finished DEF Ready
<1>3. CASE ~finish(k) /\ (GetAccount(k) \/ TryLock(k) \/ Accept(k))
  <2>1. CASE GetAccount(k)
    <3>1. at(k, "account") /\ goto(k, "fence") BY Zenon, <1>3, <2>1 DEF GetAccount
    <3> QED BY Zenon, <1>1, <3>1, GotoMoves DEF at, EnterFence
  <2>2. CASE TryLock(k)
    <3>1. at(k, "lock") /\ goto(k, "owner") BY Zenon, <1>3, <2>2 DEF TryLock
    <3> QED BY Zenon, <1>1, <2>2, <3>1, GotoMoves DEF at, EnterFence
  <2>3. CASE Accept(k)
    <3>1. at(k, "owner") /\ goto(k, "preload") BY Zenon, <2>3 DEF Accept
    <3> QED BY Zenon, <1>1, <3>1, GotoMoves DEF at, EnterFence
  <2> QED BY Zenon, <1>3, <2>1, <2>2, <2>3
<1>4. CASE ~finish(k) /\ (PersistFails(k) \/ Persisted(k) \/ ReplyLost(k) \/ Probe(k) \/ Kick(k))
  <2>1. CASE PersistFails(k) \/ ReplyLost(k)
    <3>1. at(k, "persist") /\ goto(k, "probe") BY Zenon, <1>4, <2>1 DEF PersistFails, ReplyLost
    <3> QED BY Zenon, <1>1, <3>1, GotoMoves DEF at, EnterFence
  <2>2. CASE Persisted(k)
    <3>1. at(k, "persist") /\ (goto(k, "kick") \/ goto(k, "bind")) BY Zenon, <2>2 DEF Persisted
    <3> QED BY Zenon, <1>1, <2>2, <3>1, GotoMoves DEF at, EnterFence
  <2>3. CASE Probe(k)
    <3>1. at(k, "probe") /\ goto(k, "kickLost") BY Zenon, <1>4, <2>3 DEF Probe
    <3> QED BY Zenon, <1>1, <3>1, GotoMoves DEF at, EnterFence
  <2>4. CASE Kick(k)
    <3>1. \/ at(k, "kick") /\ goto(k, "bind")
          \/ at(k, "kickLost") /\ goto(k, "lease")
      BY Zenon, <2>4 DEF Kick, at
    <3> QED BY Zenon, <1>1, <3>1, GotoMoves DEF at, EnterFence
  <2> QED BY Zenon, <1>4, <2>1, <2>2, <2>3, <2>4
<1>5. CASE ~finish(k) /\ (Bind(k) \/ BindFails(k) \/ SendBindSessionToGate(k)
                          \/ RecheckFence(k) \/ OwnerGone(k) \/ EnterScene(k))
  <2>1. CASE Bind(k)
    <3>1. at(k, "bind") /\ (goto(k, "notify") \/ goto(k, "lease") \/ goto(k, "undo"))
      BY <2>1, Zenon DEF Bind
    <3> QED BY Zenon, <1>1, <2>1, <3>1, GotoMoves DEF at, EnterFence
  <2>2. CASE BindFails(k)
    <3>1. at(k, "bind") /\ goto(k, "lease") BY Zenon, <2>2 DEF BindFails
    <3> QED BY Zenon, <1>1, <3>1, GotoMoves DEF at, EnterFence
  <2>3. CASE SendBindSessionToGate(k)
    <3>1. at(k, "notify") /\ goto(k, "recheck") BY Zenon, <2>3 DEF SendBindSessionToGate
    <3> QED BY Zenon, <1>1, <3>1, GotoMoves DEF at, EnterFence
  <2>4. CASE RecheckFence(k)
    <3>1. at(k, "recheck") /\ goto(k, "enter") BY Zenon, <1>5, <2>4 DEF RecheckFence
    <3> QED BY Zenon, <1>1, <3>1, GotoMoves DEF at, EnterFence
  <2>5. CASE OwnerGone(k) \/ EnterScene(k)
    <3>1. at(k, "enter") /\ (goto(k, "undo") \/ goto(k, "clean"))
      BY Zenon, <2>5 DEF OwnerGone, EnterScene
    <3> QED BY Zenon, <1>1, <3>1, GotoMoves DEF at, EnterFence
  <2> QED BY Zenon, <1>5, <2>1, <2>2, <2>3, <2>4, <2>5
<1>6. CASE ~finish(k) /\ (EnterFence(k) \/ GetSession(k) \/ Mint(k) \/ UndoReads(k))
  <2>1. CASE EnterFence(k)
    BY Zenon, <1>1, <1>6, <2>1, EnterFenceWrites DEF Moves, EnterFence, at, MintedSteps
  <2>2. CASE GetSession(k)
    BY Zenon, <1>1, <2>2, GetSessionWrites DEF Moves, GetSession, at, MintedSteps
  <2>3. CASE Mint(k)
    BY Zenon, <1>1, <2>3, MintWrites DEF Moves, Mint, at, MintedSteps
  <2>4. CASE UndoReads(k)
    BY Zenon, <1>1, <1>6, <2>4, UndoReadsWrites DEF Moves, UndoReads, at
  <2> QED BY Zenon, <1>6, <2>1, <2>2, <2>3, <2>4
<1>7. CASE ~finish(k) /\ (Complete(k) \/ PlaceLease(k) \/ UndoDeletes(k) \/ Abandon(k))
  BY Zenon, <1>7 DEF Complete, PlaceLease, UndoDeletes, Abandon
<1> QED BY Zenon, <1>2, <1>3, <1>4, <1>5, <1>6, <1>7 DEF ChainStep

-----------------------------------------------------------------------------
(* Asking *)

\* A call that is no LeaveGame begins or ends on a connection whose lane holds
\* no EnterGame.
LEMMA AskingCall ==
  ASSUME Asking, NEW c \in Conns, UNCHANGED <<fence, chain, asked>>,
         \A d \in Conns : d # c => call'[d] = call[d],
         call[c].pc # "leave", call'[c].pc # "leave",
         \A k \in Chains : chain[k].conn = c => chain[k].pc \notin HandlerSteps,
         ChainsOK
  PROVE  Asking'
<1>1. BoundWasAsked' BY Zenon DEF Asking, BoundWasAsked
<1>2. ASSUME NEW k \in Chains PROVE AskingChain(k)'
  <2>1. AskingChain(k) BY Zenon DEF Asking
  <2>2. Active(chain[k]) => chain[k].conn \in Conns BY Zenon DEF ChainsOK, ChainOK
  <2> QED BY Zenon, <2>1, <2>2 DEF AskingChain
<1> QED BY Zenon, <1>1, <1>2 DEF Asking

\* While a call is under way, no EnterGame of its connection is.
LEMMA LaneHeld ==
  ASSUME Asking, NEW c \in Conns, call[c].pc # "idle"
  PROVE  \A k \in Chains : chain[k].conn = c => chain[k].pc \notin HandlerSteps
  BY Zenon DEF Asking, AskingChain, Active, HandlerSteps

\* What is not after b is before b + 1.
LEMMA NextIsLater ==
  ASSUME NEW a \in Int, NEW b \in Int
  PROVE  a <= b => a <= b + 1 /\ a # b + 1
  OBVIOUS

\* The requests: a LeaveGame forgets what was asked, and its count outdates
\* every entry made before it.
LEMMA AskingRequest ==
  ASSUME Ready, Asking, NEW c \in Conns, RequestStep(c), UNCHANGED lockLost
  PROVE  Asking'
<1>0. ChainsOK /\ IdleCall.pc = "idle" BY Zenon DEF Ready, IdleCall
<1>1. CASE SendLogin(c)
  <2>1. call'[c].pc = "login" /\ \A d \in Conns : d # c => call'[d] = call[d]
    BY Zenon, <1>1 DEF SendLogin, Ready, CallsOK, CallRecord
  <2> QED BY Zenon, <1>0, <1>1, <2>1, AskingCall DEF SendLogin, laneFree, genVars
<1>2. CASE Login(c)
  BY Zenon, <1>0, <1>2, LoginReady, LaneHeld, AskingCall DEF Login, genVars
<1>3. ASSUME NEW p \in Players, LeaveGameReads(c, p) PROVE Asking'
  <2>1. call[c].pc = "settle" /\ UNCHANGED <<fence, chain, asked>>
    BY Zenon, <1>3 DEF LeaveGameReads, genVars
  <2>2. call'[c].pc # "leave" /\ \A d \in Conns : d # c => call'[d] = call[d]
    BY Zenon, <1>3, LeaveReadsReady
  <2> QED BY Zenon, <1>0, <2>1, <2>2, LaneHeld, AskingCall
<1>4. CASE LeaveGameDeletes(c)
  <2>1. call[c].pc = "delete" /\ UNCHANGED <<fence, chain, asked>>
    BY Zenon, <1>4 DEF LeaveGameDeletes, genVars
  <2>2. call'[c].pc # "leave" /\ \A d \in Conns : d # c => call'[d] = call[d]
    BY Zenon, <1>4, LeaveDeletesReady
  <2> QED BY Zenon, <1>0, <2>1, <2>2, LaneHeld, AskingCall
<1>5. ASSUME NEW k \in Chains, NEW p \in Players, SendEnterGame(k, c, p) PROVE Asking'
  <2>1. UNCHANGED <<fence, call>> /\ call[c].pc = "idle"
    BY Zenon, <1>0, <1>5 DEF SendEnterGame, connVars, laneFree
  <2>2. /\ asked'[c] = asked[c] \cup {p}
        /\ \A d \in Conns : d # c => asked'[d] = asked[d]
    BY Zenon, <1>5 DEF SendEnterGame, Ready, ConnsOK
  <2>3. /\ chain'[k].pc = "account" /\ chain'[k].conn = c /\ chain'[k].player = p
        /\ \A j \in Chains : j # k => chain'[j] = chain[j]
    BY <1>5, SendEnterReady
  <2>4. BoundWasAsked' BY Zenon, <2>1, <2>2 DEF Asking, BoundWasAsked
  <2>5. AskingChain(k)' BY Zenon, <2>1, <2>2, <2>3 DEF AskingChain, HandlerSteps
  <2>6. ASSUME NEW j \in Chains, j # k PROVE AskingChain(j)'
    <3>1. AskingChain(j) /\ (Active(chain[j]) => chain[j].conn \in Conns)
      BY Zenon, <1>0 DEF Asking, ChainsOK, ChainOK
    <3> QED BY Zenon, <2>1, <2>2, <2>3, <2>6, <3>1 DEF AskingChain
  <2> QED BY Zenon, <2>4, <2>5, <2>6 DEF Asking
<1>6. CASE SendLeaveGame(c)
  <2>1. UNCHANGED <<fence, chain>> /\ call'[c].pc = "leave"
    BY Zenon, <1>6 DEF SendLeaveGame, Ready, CallsOK, CallRecord
  <2>2. \A d \in Conns : d # c => asked'[d] = asked[d] /\ call'[d] = call[d]
    BY Zenon, <1>6 DEF SendLeaveGame, Ready, ConnsOK, CallsOK
  <2>3. BoundWasAsked' BY Zenon, <2>1, <2>2 DEF Asking, BoundWasAsked
  <2>4. ASSUME NEW j \in Chains PROVE AskingChain(j)'
    <3>1. /\ AskingChain(j) /\ (Active(chain[j]) => chain[j].conn \in Conns)
          /\ chain[j].conn = c => chain[j].pc \notin HandlerSteps
      BY Zenon, <1>0, <1>6 DEF Asking, ChainsOK, ChainOK, SendLeaveGame, laneFree
    <3> QED BY Zenon, <2>1, <2>2, <3>1 DEF AskingChain
  <2> QED BY Zenon, <2>3, <2>4 DEF Asking
<1>7. CASE LeaveGame(c)
  <2>1. UNCHANGED <<chain, asked>> /\ call[c].pc = "leave"
    BY Zenon, <1>7 DEF LeaveGame, genVars
  <2>2. /\ fence'[c].player = None /\ fence'[c].gen = fence[c].gen + 1
        /\ \A d \in Conns : d # c => call'[d] = call[d] /\ fence'[d] = fence[d]
    BY Zenon, <1>7, LeaveReady
  <2>3. BoundWasAsked' BY Zenon, <2>1, <2>2 DEF Asking, BoundWasAsked
  <2>4. ASSUME NEW j \in Chains PROVE AskingChain(j)'
    <3>1. /\ AskingChain(j) /\ (Active(chain[j]) => chain[j].conn \in Conns)
          /\ chain[j].conn = c => chain[j].pc \notin HandlerSteps
      BY Zenon, <1>0, <2>1, LaneHeld DEF Asking, ChainsOK, ChainOK
    <3>2. CASE chain[j].conn # c BY Zenon, <2>1, <2>2, <3>1, <3>2 DEF AskingChain
    <3>3. CASE chain[j].conn = c
      <4>1. chain[j].gen \in Int /\ fence[c].gen \in Int
        BY <1>0, EnterGameAssumption DEF Ready, ChainsOK, ChainRecord, ConnsOK, FenceRecord
      <4>2. chain[j].gen <= fence[c].gen =>
              chain[j].gen <= fence[c].gen + 1 /\ chain[j].gen # fence[c].gen + 1
        BY Zenon, <4>1, NextIsLater
      <4> QED BY Zenon, <2>1, <2>2, <3>1, <3>3, <4>2 DEF AskingChain, HandlerSteps
    <3> QED BY Zenon, <3>2, <3>3
  <2> QED BY Zenon, <2>3, <2>4 DEF Asking
<1> QED BY Zenon, <1>1, <1>2, <1>3, <1>4, <1>5, <1>6, <1>7 DEF RequestStep

\* A step of a chain: it keeps its entry, and binds only under the fence's count.
LEMMA AskingChainStep ==
  ASSUME Ready, Asking, NEW k \in Chains, ChainStep(k)
  PROVE  Asking'
<1>1. /\ Active(chain[k]) /\ (finish(k) \/ Moves(k))
      /\ \A j \in Chains : j # k => chain'[j] = chain[j]
  BY Zenon, ChainMoves
<1>2. UNCHANGED <<call, asked>>
  BY Zenon DEF ChainStep, GetAccount, EnterFence, TryLock, Accept, GetSession, Mint, Persisted,
         PersistFails, ReplyLost, Probe, Kick, Bind, BindFails, SendBindSessionToGate,
         RecheckFence, OwnerGone, EnterScene, Complete, PlaceLease, UndoReads, UndoDeletes,
         Abandon, connVars, genVars
<1>3. chain[k].conn \in Conns /\ chain[k].player \in Players
  BY Zenon, <1>1 DEF Ready, ChainsOK, ChainOK
<1>4. /\ \A d \in Conns : fence'[d].gen = fence[d].gen
      /\ BoundWasAsked'
  <2>1. CASE UNCHANGED fence
    BY Zenon, <1>2, <2>1 DEF Asking, BoundWasAsked
  <2>2. CASE at(k, "bind") /\ bound(chain[k].conn, chain[k].player, chain[k].gen)
    <3>0. PICK c \in Conns, p \in Players, gen \in {chain[k].gen} :
            chain[k].conn = c /\ chain[k].player = p /\ chain[k].gen = gen
      BY Zenon, <1>3
    <3>b. bound(c, p, gen)
      BY Zenon, <2>2, <3>0
    <3>1. /\ \A d \in Conns : d # c => fence'[d] = fence[d]
          /\ \A d \in Conns : fence'[d].gen = fence[d].gen
          /\ \/ fence'[c].player = fence[c].player
             \/ fence'[c].player = p /\ fence[c].gen = gen
      BY Zenon, <3>b, BoundCases
    <3>2. fence[c].gen = gen /\ call[c].pc # "leave" => p \in asked[c]
      BY Zenon, <1>1, <2>2, <3>0 DEF Asking, AskingChain, at
    <3> QED BY Zenon, <1>2, <1>3, <3>1, <3>2 DEF Asking, BoundWasAsked
  <2> QED BY Zenon, <2>1, <2>2
    DEF ChainStep, GetAccount, EnterFence, TryLock, Accept, GetSession, Mint, Persisted,
        PersistFails, ReplyLost, Probe, Kick, Bind, BindFails, SendBindSessionToGate,
        RecheckFence, OwnerGone, EnterScene, Complete, PlaceLease, UndoReads, UndoDeletes,
        Abandon
<1>5. AskingChain(k)'
  <2>1. AskingChain(k) BY Zenon DEF Asking
  <2>2. CASE finish(k)
    <3>1. chain'[k].pc = "done" BY Zenon, <2>2, Finished DEF Ready
    <3> QED BY Zenon, <3>1 DEF AskingChain, Active
  <2>3. CASE ~finish(k) /\ EnterFence(k)
    <3>1. /\ chain'[k].pc = "lock" /\ chain'[k].gen = fence[chain[k].conn].gen
          /\ chain'[k].conn = chain[k].conn /\ chain'[k].player = chain[k].player
          /\ chain[k].pc = "fence"
      BY Zenon, <2>3, EnterFenceWrites DEF EnterFence, at
    <3>2. fence[chain[k].conn].gen \in Int
      BY <1>3, EnterGameAssumption DEF Ready, ConnsOK, FenceRecord
    <3>3. fence[chain[k].conn].gen <= fence[chain[k].conn].gen BY <3>2
    <3> QED BY Zenon, <1>1, <1>2, <1>3, <1>4, <2>1, <3>1, <3>3 DEF AskingChain, HandlerSteps
  <2>4. CASE ~finish(k) /\ ~EnterFence(k)
    BY Zenon, <1>1, <1>2, <1>3, <1>4, <2>1, <2>4 DEF AskingChain, Moves
  <2> QED BY Zenon, <2>2, <2>3, <2>4
<1>6. ASSUME NEW j \in Chains, j # k PROVE AskingChain(j)'
  <2>1. AskingChain(j) /\ (Active(chain[j]) => chain[j].conn \in Conns)
    BY Zenon DEF Asking, Ready, ChainsOK, ChainOK
  <2> QED BY Zenon, <1>1, <1>2, <1>4, <1>6, <2>1 DEF AskingChain
<1> QED BY Zenon, <1>4, <1>5, <1>6 DEF Asking

\* What is asked and bound is left alone.
LEMMA AskingFrame ==
  ASSUME Ready, Asking, UNCHANGED <<call, chain, asked>>,
         \A d \in Conns : fence'[d].gen = fence[d].gen /\ fence'[d].player = fence[d].player
  PROVE  Asking'
<1>1. BoundWasAsked' BY Zenon DEF Asking, BoundWasAsked
<1>2. ASSUME NEW j \in Chains PROVE AskingChain(j)'
  <2>1. AskingChain(j) /\ (Active(chain[j]) => chain[j].conn \in Conns)
    BY Zenon DEF Asking, Ready, ChainsOK, ChainOK
  <2> QED BY Zenon, <2>1 DEF AskingChain
<1> QED BY Zenon, <1>1, <1>2 DEF Asking

\* Every step keeps Asking.
LEMMA AskingStep == Ready /\ Asking /\ [Next]_vars => Asking'
<1> SUFFICES ASSUME Ready, Asking, [Next]_vars PROVE Asking'
  BY Zenon
<1>1. CASE UNCHANGED <<fence, call, chain, asked>> BY Zenon, <1>1, AskingFrame
<1>2. ASSUME NEW c \in Conns, ConnectionStep(c) PROVE Asking'
  <2>1. UNCHANGED <<call, chain, asked>>
    BY Zenon, <1>2 DEF ConnectionStep, ConnectionDown, DisconnectCloses, DisconnectCleans,
                DisconnectMarks, genVars
  <2>2. UNCHANGED fence \/ Close(c)
    BY Zenon, <1>2 DEF ConnectionStep, ConnectionDown, DisconnectCloses, DisconnectCleans,
                DisconnectMarks
  <2>3. CASE UNCHANGED fence BY Zenon, <2>1, <2>3, AskingFrame
  <2>4. CASE Close(c) BY Zenon, <2>1, <2>4, ClosedFence, AskingFrame DEF Ready, ConnsOK
  <2> QED BY Zenon, <2>2, <2>3, <2>4
<1>3. ASSUME NEW m \in kicks, KickArrives(m) PROVE Asking'
  BY Zenon, <1>1, <1>3 DEF KickArrives, genVars
<1>4. CASE UNCHANGED vars BY Zenon, <1>1, <1>4 DEF vars, connVars, genVars
<1>5. CASE (\E p \in Players : ExpireKey(p) \/ LocatorStep(p) \/ LoseLock(p)) \/ Tick
  BY Zenon, <1>1, <1>5 DEF ExpireKey, LocatorStep, LoseLock, Tick, connVars, genVars
<1> QED BY Zenon, <1>2, <1>3, <1>4, <1>5, AskingRequest, AskingChainStep DEF Next

-----------------------------------------------------------------------------
(* Locking *)

\* A step that leaves the session of a player, or leases or forgets it.
Kept(p) ==
    \/ session'[p] = session[p] \/ session'[p] = None
    \/ session'[p].gen = session[p].gen /\ session[p] # None

\* Sessions are only forgotten or leased, and no chain moves.
LEMMA LockingFrame ==
  ASSUME Ready, Locking, UNCHANGED <<chain, lock, lockLost>>, \A p \in Players : Kept(p)
  PROVE  Locking'
<1> SUFFICES ASSUME ~lockLost, NEW k \in Chains PROVE LockingChain(k)'
  BY Zenon DEF Locking
<1>1. LockingChain(k) BY Zenon DEF Locking
<1>2. Active(chain[k]) => chain[k].player \in Players BY Zenon DEF Ready, ChainsOK, ChainOK
<1> QED BY Zenon, <1>1, <1>2 DEF LockingChain, OwnSteps, Active, Kept

\* A chain at work, with the lock, is the only one of its player.
LEMMA LockIsExclusive ==
  ASSUME Ready, Locking, ~lockLost, NEW j \in Chains, NEW k \in Chains,
         chain[j].pc \in LockedSteps, chain[k].pc \in LockedSteps,
         chain[j].player = chain[k].player
  PROVE  j = k
  BY Zenon DEF Locking, LockingChain

\* A step of a chain: what another chain may do to the session of a player
\* whose lock is held is nothing.
LEMMA LockingChainStep ==
  ASSUME Ready, Locking, NEW k \in Chains, ChainStep(k), UNCHANGED lockLost
  PROVE  Locking'
<1> SUFFICES ASSUME ~lockLost PROVE \A j \in Chains : LockingChain(j)'
  BY Zenon DEF Locking
<1>1. /\ Active(chain[k]) /\ (finish(k) \/ Moves(k))
      /\ \A j \in Chains : j # k => chain'[j] = chain[j]
  BY Zenon, ChainMoves
<1>2. \A j \in Chains : LockingChain(j) BY Zenon DEF Locking
<1>3. chain[k].player \in Players /\ chain[k].conn \in Conns
  BY Zenon, <1>1 DEF Ready, ChainsOK, ChainOK
<1>4. /\ \A p \in Players : p # chain[k].player => session'[p] = session[p]
      /\ chain[k].pc \in LockedSteps \/ UNCHANGED session
      /\ Persisted(k) => session'[chain[k].player].gen = chain[k].mint
      /\ chain[k].pc = "persist" \/ Kept(chain[k].player)
  <2>1. CASE Persisted(k) \/ ReplyLost(k)
    <3>1. at(k, "persist") /\ writeSession(k) BY Zenon, <2>1 DEF Persisted, ReplyLost
    <3>2. chain[k].pc = "persist" /\ chain[k].pc \in LockedSteps
      BY Zenon, <3>1 DEF at, LockedSteps, ChainSteps
    <3> QED BY Zenon, <3>1, <3>2, Wrote DEF Ready
  <2>2. CASE PlaceLease(k) \/ UndoDeletes(k)
    <3>1. chain[k].pc \in LockedSteps /\ ~Persisted(k)
      BY Zenon, <2>2 DEF PlaceLease, UndoDeletes, Persisted, at, LockedSteps, ChainSteps, CommitSteps
    <3>2. CASE PlaceLease(k) BY Zenon, <1>3, <3>1, <3>2, Marked DEF PlaceLease, Ready, Kept
    <3>3. CASE UndoDeletes(k) BY Zenon, <1>3, <3>1, <3>3, Offline DEF UndoDeletes, Ready, Kept
    <3> QED BY Zenon, <2>2, <3>2, <3>3
  <2>3. CASE UNCHANGED session /\ ~Persisted(k) BY Zenon, <2>3 DEF Kept
  <2> QED BY Zenon, <2>1, <2>2, <2>3
    DEF ChainStep, GetAccount, EnterFence, TryLock, Accept, GetSession, Mint, PersistFails,
        Probe, Kick, Bind, BindFails, SendBindSessionToGate, RecheckFence, OwnerGone,
        EnterScene, Complete, UndoReads, Abandon, locatorVars
<1>5. \A p \in Players : lock[p] \notin {None, k} => lock'[p] = lock[p]
  <2>1. CASE finish(k) BY Zenon, <2>1, Finished DEF Ready
  <2>2. CASE UNCHANGED lock BY Zenon, <2>2
  <2>3. CASE TryLock(k)
    BY Zenon, <2>1, <2>3 DEF TryLock, Ready, KeysOK
  <2> QED BY Zenon, <2>1, <2>2, <2>3
    DEF ChainStep, GetAccount, EnterFence, Accept, GetSession, Mint, Persisted, PersistFails,
        ReplyLost, Probe, Kick, Bind, BindFails, SendBindSessionToGate, RecheckFence,
        OwnerGone, EnterScene, Complete, PlaceLease, UndoReads, UndoDeletes, Abandon
<1>6. ASSUME NEW j \in Chains, j # k PROVE LockingChain(j)'
  <2>1. chain'[j] = chain[j] /\ LockingChain(j) BY Zenon, <1>1, <1>2, <1>6
  <2>2. Active(chain[j]) => chain[j].player \in Players BY Zenon DEF Ready, ChainsOK, ChainOK
  <2>3. chain[j].pc \in LockedSteps => lock'[chain[j].player] = j
    <3>1. chain[j].pc \in LockedSteps => Active(chain[j])
      BY Zenon DEF LockedSteps, ChainSteps, HandlerSteps, CommitSteps, Active
    <3> QED BY Zenon, <1>5, <1>6, <2>1, <2>2, <3>1, EnterGameAssumption DEF LockingChain
  <2>4. chain[j].pc \in OwnSteps =>
           session'[chain[j].player] = None \/ session'[chain[j].player].gen = chain[j].mint
    <3> SUFFICES ASSUME chain[j].pc \in OwnSteps PROVE <2>4!2
      BY Zenon
    <3>1. chain[j].pc \in LockedSteps /\ Active(chain[j])
      BY Zenon DEF OwnSteps, LockedSteps, ChainSteps, CommitSteps, HandlerSteps, Active
    <3>2. chain[k].pc \in LockedSteps => chain[j].player # chain[k].player
      BY Zenon, <1>6, <3>1, LockIsExclusive
    <3>3. session'[chain[j].player] = session[chain[j].player]
      BY Zenon, <1>4, <2>2, <3>1, <3>2
    <3> QED BY Zenon, <2>1, <3>3 DEF LockingChain
  <2> QED BY Zenon, <2>1, <2>3, <2>4 DEF LockingChain
<1>7. LockingChain(k)'
  <2>1. CASE finish(k)
    <3>1. chain'[k].pc = "done" BY Zenon, <2>1, Finished DEF Ready
    <3> QED BY Zenon, <3>1
      DEF LockingChain, LockedSteps, OwnSteps, ChainSteps, HandlerSteps, CommitSteps
  <2>2. CASE ~finish(k)
    <3>1. Moves(k) BY Zenon, <1>1, <2>2
    <3>2. CASE TryLock(k)
      <4>1. goto(k, "owner") /\ lock' = [lock EXCEPT ![chain[k].player] = k]
        BY Zenon, <2>2, <3>2 DEF TryLock
      <4>2. chain'[k].pc = "owner" /\ chain'[k].player = chain[k].player
        BY Zenon, <4>1, Gone DEF Ready, ChainSteps, HandlerSteps
      <4> QED BY Zenon, <1>3, <4>1, <4>2 DEF LockingChain, OwnSteps, Ready, KeysOK
    <3>3. CASE ~TryLock(k)
      <4>1. UNCHANGED lock
        BY Zenon, <2>2, <3>3
           DEF ChainStep, GetAccount, EnterFence, Accept, GetSession, Mint, Persisted,
               PersistFails, ReplyLost, Probe, Kick, Bind, BindFails, SendBindSessionToGate,
               RecheckFence, OwnerGone, EnterScene, Complete, PlaceLease, UndoReads,
               UndoDeletes, Abandon
      <4>2. chain'[k].player = chain[k].player /\ LockingChain(k) BY Zenon, <1>2, <3>1 DEF Moves
      <4>3. chain'[k].pc \in LockedSteps => lock'[chain[k].player] = k
        BY Zenon, <3>1, <3>3, <4>1, <4>2 DEF Moves, LockingChain
      <4>4. chain'[k].pc \in OwnSteps =>
               \/ session'[chain[k].player] = None
               \/ session'[chain[k].player].gen = chain'[k].mint
        <5>1. chain[k].pc = "persist" => chain[k].pc \in MintedSteps /\ chain[k].pc \notin OwnSteps
          BY Zenon DEF MintedSteps, OwnSteps
        <5>2. chain[k].pc \in OwnSteps => chain[k].pc \in MintedSteps
          BY Zenon DEF MintedSteps, OwnSteps, CommitSteps
        <5>3. Persisted(k) => chain[k].pc = "persist" BY Zenon DEF Persisted, at
        <5> QED BY Zenon, <1>4, <3>1, <4>2, <5>1, <5>2, <5>3 DEF Moves, LockingChain, Kept
      <4> QED BY Zenon, <4>2, <4>3, <4>4 DEF LockingChain
    <3> QED BY Zenon, <3>2, <3>3
  <2> QED BY Zenon, <2>1, <2>2
<1> QED BY Zenon, <1>6, <1>7

\* Every step keeps Locking.
LEMMA LockingStep == Ready /\ Locking /\ [Next]_vars => Locking'
<1> SUFFICES ASSUME Ready, Locking, [Next]_vars PROVE Locking'
  BY Zenon
<1>1. CASE UNCHANGED <<chain, lock, lockLost, session>> BY Zenon, <1>1, LockingFrame DEF Kept
<1>2. ASSUME NEW c \in Conns, RequestStep(c), UNCHANGED lockLost PROVE Locking'
  <2>1. CASE LeaveGameDeletes(c)
    <3>1. \A p \in Players : Kept(p)
      BY Zenon, <1>2, <2>1, LeaveDeletesReady DEF Kept
    <3> QED BY Zenon, <1>2, <2>1, <3>1, LockingFrame DEF LeaveGameDeletes
  <2>2. ASSUME NEW k \in Chains, NEW p \in Players, SendEnterGame(k, c, p) PROVE Locking'
    <3>1. /\ UNCHANGED <<session, lock>> /\ chain'[k].pc = "account"
          /\ \A j \in Chains : j # k => chain'[j] = chain[j]
      BY Zenon, <1>2, <2>2, SendEnterReady DEF SendEnterGame, locatorVars
    <3> QED BY Zenon, <1>2, <3>1
      DEF Locking, LockingChain, LockedSteps, OwnSteps
  <2> QED BY Zenon, <1>1, <1>2, <2>1, <2>2
    DEF RequestStep, SendLogin, Login, SendLeaveGame, LeaveGame, LeaveGameReads, locatorVars
<1>3. ASSUME NEW c \in Conns, ConnectionStep(c), UNCHANGED lockLost PROVE Locking'
  <2>1. UNCHANGED <<chain, lock>>
    BY Zenon, <1>3 DEF ConnectionStep, ConnectionDown, DisconnectCloses, DisconnectCleans,
                DisconnectMarks
  <2>2. \A p \in Players : Kept(p)
    <3>1. CASE \E p \in Players : DisconnectMarks(c, p)
      BY Zenon, <3>1, Marked DEF DisconnectMarks, Ready, Kept
    <3>2. CASE UNCHANGED session BY Zenon, <3>2 DEF Kept
    <3> QED BY Zenon, <1>3, <3>1, <3>2
      DEF ConnectionStep, ConnectionDown, DisconnectCloses, DisconnectCleans, locatorVars
  <2> QED BY Zenon, <1>3, <2>1, <2>2, LockingFrame
<1>4. ASSUME NEW p \in Players, LocatorStep(p), UNCHANGED lockLost PROVE Locking'
  <2>1. \A q \in Players : Kept(q) BY Zenon, <1>4, LocatorAlone DEF Ready, Kept
  <2> QED BY Zenon, <1>4, <2>1, LockingFrame DEF LocatorStep
<1>5. ASSUME NEW m \in kicks, KickArrives(m), UNCHANGED lockLost PROVE Locking'
  BY Zenon, <1>1, <1>5 DEF KickArrives, locatorVars
<1>6. CASE \E p \in Players : LoseLock(p)
  BY Zenon, <1>6 DEF LoseLock, Locking
<1>7. CASE ((\E p \in Players : ExpireKey(p)) \/ Tick) /\ UNCHANGED lockLost
  BY Zenon, <1>1, <1>7 DEF ExpireKey, Tick, locatorVars
<1>8. CASE UNCHANGED vars BY Zenon, <1>1, <1>8 DEF vars, locatorVars
<1> QED BY Zenon, <1>2, <1>3, <1>4, <1>5, <1>6, <1>7, <1>8, LockingChainStep DEF Next

-----------------------------------------------------------------------------
(* Settled *)

\* The ONLINE session of p on connection c is stored before and after the step.
Stays(p, c) ==
    /\ session[p] # None /\ session[p].state = "ONLINE" /\ session[p].conn = c
    /\ session'[p] = session[p]

\* A step that writes no session keeps Settled when those that stay are settled.
LEMMA SettledFrame ==
  ASSUME Ready, Settled,
         \A p \in Players : \/ session'[p] = session[p] \/ session'[p] = None
                            \/ session'[p].state # "ONLINE",
         \A p \in Players, c \in Conns : Stays(p, c) /\ Settling(p, c) => Settling(p, c)'
  PROVE  Settled'
<1> SUFFICES ASSUME NEW p \in Players, session'[p] # None, session'[p].state = "ONLINE"
             PROVE  \E c \in Conns : session'[p].conn = c /\ Settling(p, c)'
  BY Zenon DEF Settled
<1>1. session'[p] = session[p] BY Zenon
<1>2. session[p].conn \in Conns BY Zenon, <1>1 DEF Ready, LocatorOK, Sessions
<1>3. Stays(p, session[p].conn) /\ Settling(p, session[p].conn)
  BY Zenon, <1>1 DEF Stays, Settled
<1> QED BY Zenon, <1>1, <1>2, <1>3

\* Nothing that settles a session is touched.
LEMMA SettlingKept ==
  ASSUME NEW p \in Players, NEW c \in Conns, Stays(p, c), Settling(p, c),
         UNCHANGED <<fence, conn, settle, call, chain>>
  PROVE  Settling(p, c)'
  BY Zenon DEF Settling, ByBinding, ByDisconnect, ByLeave, ByChain, Stays

\* A chain that settles a session goes on to, but for binding it; the binding
\* of an open connection settles it.
LEMMA SettlingChain ==
  ASSUME Ready, Closing, NEW k \in Chains, ChainStep(k),
         NEW p \in Players, NEW c \in Conns, Stays(p, c), ByChain(p, c, k)
  PROVE  ByChain(p, c, k)' \/ ByBinding(p, c)'
<1>1. /\ chain[k].conn = c /\ chain[k].player = p /\ chain[k].pc \in CommitSteps
      /\ chain[k].mint = session[p].gen
      /\ chain[k].pc = "delete" => chain[k].existing.ver = session[p].ver
  BY Zenon DEF ByChain
<1>2. chain[k].pc \in MintedSteps BY Zenon, <1>1 DEF MintedSteps
<1>3. session[p] # None /\ session[p].state = "ONLINE" /\ session[p].conn = c
      /\ session'[p] = session[p]
  BY Zenon DEF Stays
<1>4. ~finish(k)
  <2> SUFFICES ASSUME finish(k) PROVE FALSE
    BY Zenon
  <2>0. chain'[k].pc = "done" BY Zenon, Finished DEF Ready
  <2>1. CASE Probe(k)
    <3>1. setSessionProbeConfirmsCommit(k)
      BY Zenon, <1>1, <1>3 DEF setSessionProbeConfirmsCommit
    <3>2. chain'[k].pc = "kickLost"
      BY Zenon, <2>1, <3>1, Gone DEF Probe, Ready, ChainSteps, CommitSteps
    <3> QED BY Zenon, <2>0, <3>2
  <2>2. CASE PlaceLease(k)
    BY Zenon, <1>1, <1>3, <2>2, Marked DEF PlaceLease, Ready
  <2>3. CASE UndoReads(k)
    <3>1. deleteApplies(p, c) BY Zenon, <1>3 DEF deleteApplies
    <3> DEFINE t == [chain[k] EXCEPT !.pc = "delete", !.existing = session[p]]
    <3>2. chain' = [chain EXCEPT ![k] = t] BY Zenon, <1>1, <2>3, <3>1 DEF UndoReads
    <3>3. chain \in [Chains -> ChainRecord] BY Zenon DEF Ready, ChainsOK
    <3>4. t.pc = "delete" BY Zenon, <3>3 DEF ChainRecord
    <3> HIDE DEF t
    <3>5. chain'[k] = t BY Zenon, <3>2, <3>3
    <3> QED BY Zenon, <2>0, <3>4, <3>5
  <2>4. CASE UndoDeletes(k)
    <3>1. chain[k].existing.ver = session[p].ver BY Zenon, <1>1, <2>4 DEF UndoDeletes, at
    <3> QED BY Zenon, <1>1, <1>3, <2>4, <3>1, Offline DEF UndoDeletes, Ready
  <2>5. CASE Kick(k) \/ Bind(k) \/ BindFails(k)
    <3>1. PICK pc \in {"bind", "lease", "notify", "undo"} : goto(k, pc)
      BY <2>5, Zenon DEF Kick, Bind, BindFails
    <3>2. chain'[k].pc = pc BY Zenon, <3>1, Gone DEF Ready, ChainSteps, CommitSteps
    <3> QED BY Zenon, <2>0, <3>2
  <2> QED BY Zenon, <1>1, <2>1, <2>2, <2>3, <2>4, <2>5
    DEF ChainStep, CommitSteps, HandlerSteps, at, GetAccount, EnterFence, TryLock, Accept,
        GetSession, Mint, Persisted, PersistFails, ReplyLost, SendBindSessionToGate,
        RecheckFence, OwnerGone, EnterScene, Complete, Abandon
<1>5. Moves(k) BY Zenon, <1>4, ChainMoves
<1>6. chain'[k].conn = c /\ chain'[k].player = p /\ chain'[k].mint = session'[p].gen
  BY Zenon, <1>1, <1>2, <1>3, <1>5 DEF Moves
<1>7. CASE chain'[k].pc \in CommitSteps
  <2>1. chain'[k].pc = "delete" => chain'[k].existing.ver = session'[p].ver
    BY Zenon, <1>1, <1>3, <1>4, <1>5, UndoReadsWrites DEF Moves
  <2> QED BY Zenon, <1>6, <1>7, <2>1 DEF ByChain
<1>8. CASE chain'[k].pc \notin CommitSteps
  <2>1. Bind(k) BY Zenon, <1>1, <1>5, <1>8 DEF Moves
  <2>2. BindPlayer(c, p, chain[k].gen) = "ok"
    <3> SUFFICES ASSUME BindPlayer(c, p, chain[k].gen) # "ok" PROVE FALSE
      BY Zenon
    <3>1. goto(k, "lease") \/ goto(k, "undo") BY <1>1, <2>1, Zenon DEF Bind
    <3> QED BY Zenon, <1>8, <3>1, Gone DEF Ready, ChainSteps, CommitSteps
  <2>3. bound(c, p, chain[k].gen) BY Zenon, <1>1, <2>1 DEF Bind
  <2>4. fence'[c].player = p /\ ~fence[c].closed BY Zenon, <2>2, <2>3, BoundCases
  <2>5. conn'[c] = conn[c] BY Zenon, <2>1 DEF Bind, connVars
  <2>6. conn[c] \in {"open", "close"} BY Zenon, <2>4 DEF Closing, Ready, ConnsOK
  <2> QED BY Zenon, <2>4, <2>5, <2>6 DEF ByBinding
<1> QED BY Zenon, <1>7, <1>8

\* A step of a chain keeps what settles the sessions that stay.
LEMMA SettlingChainStep ==
  ASSUME Ready, Closing, NEW k \in Chains, ChainStep(k),
         NEW p \in Players, NEW c \in Conns, Stays(p, c), Settling(p, c)
  PROVE  Settling(p, c)'
<1>1. UNCHANGED <<conn, settle, call>>
  BY Zenon DEF ChainStep, GetAccount, EnterFence, TryLock, Accept, GetSession, Mint, Persisted,
         PersistFails, ReplyLost, Probe, Kick, Bind, BindFails, SendBindSessionToGate,
         RecheckFence, OwnerGone, EnterScene, Complete, PlaceLease, UndoReads, UndoDeletes,
         Abandon, connVars
<1>2. CASE ByBinding(p, c)
  <2>1. fence'[c].player = p
    <3>1. CASE UNCHANGED fence BY Zenon, <1>2, <3>1 DEF ByBinding
    <3>2. CASE at(k, "bind") /\ bound(chain[k].conn, chain[k].player, chain[k].gen)
      <4>1. chain[k].conn \in Conns /\ chain[k].player \in Players
        BY Zenon, <3>2 DEF Ready, ChainsOK, ChainOK, Active, at
      <4>2. fence[c].player = p /\ p # None
        BY Zenon, <1>2, EnterGameAssumption DEF ByBinding
      <4> QED BY Zenon, <3>2, <4>1, <4>2, BoundCases
    <3> QED BY Zenon, <3>1, <3>2
      DEF ChainStep, GetAccount, EnterFence, TryLock, Accept, GetSession, Mint, Persisted,
          PersistFails, ReplyLost, Probe, Kick, Bind, BindFails, SendBindSessionToGate,
          RecheckFence, OwnerGone, EnterScene, Complete, PlaceLease, UndoReads, UndoDeletes,
          Abandon
  <2> QED BY Zenon, <1>1, <1>2, <2>1 DEF Settling, ByBinding
<1>3. CASE ByDisconnect(p, c) BY Zenon, <1>1, <1>3 DEF Settling, ByDisconnect
<1>4. CASE ByLeave(p, c) BY Zenon, <1>1, <1>4 DEF Settling, ByLeave, Stays
<1>5. ASSUME NEW j \in Chains, ByChain(p, c, j) PROVE Settling(p, c)'
  <2>1. CASE j = k BY Zenon, <1>5, <2>1, SettlingChain DEF Settling
  <2>2. CASE j # k
    <3>1. chain'[j] = chain[j] BY Zenon, <2>2, ChainMoves
    <3>2. ByChain(p, c, j)' BY Zenon, <1>5, <3>1 DEF ByChain, Stays
    <3> QED BY Zenon, <3>2 DEF Settling
  <2> QED BY Zenon, <2>1, <2>2
<1> QED BY Zenon, <1>2, <1>3, <1>4, <1>5 DEF Settling

\* The requests keep what settles the sessions that stay: LeaveGame takes over
\* from the binding it removes, and its deletion misses no session it read.
LEMMA SettlingRequest ==
  ASSUME Ready, NEW d \in Conns, RequestStep(d),
         NEW p \in Players, NEW c \in Conns, Stays(p, c), Settling(p, c)
  PROVE  Settling(p, c)'
<1> DEFINE Same == UNCHANGED <<fence, conn, settle, chain>>
<1>0. session'[p] = session[p] /\ session[p] # None /\ session[p].state = "ONLINE"
      /\ session[p].conn = c
  BY Zenon DEF Stays
<1>1. ASSUME Same, \A e \in Conns : call'[e] = call[e] \/ call[e].todo = {}
      PROVE  Settling(p, c)'
  <2>1. CASE ByLeave(p, c)
    <3>1. call'[c] = call[c] BY Zenon, <1>1, <2>1 DEF ByLeave
    <3> QED BY Zenon, <1>0, <2>1, <3>1 DEF Settling, ByLeave
  <2>2. CASE ~ByLeave(p, c)
    BY Zenon, <1>0, <1>1, <2>2 DEF Settling, ByBinding, ByDisconnect, ByChain
  <2> QED BY Zenon, <2>1, <2>2
<1>2. CASE SendLogin(d) \/ SendLeaveGame(d)
  <2>1. call[d].todo = {} BY <1>2 DEF SendLogin, SendLeaveGame, laneFree, IdleCall
  <2>2. \A e \in Conns : e # d => call'[e] = call[e]
    BY Zenon, <1>2 DEF SendLogin, SendLeaveGame, Ready, CallsOK
  <2> QED BY Zenon, <1>1, <1>2, <2>1, <2>2 DEF SendLogin, SendLeaveGame
<1>3. CASE Login(d)
  <2>1. call[d].todo = {} BY Zenon, <1>3 DEF Login, Ready, CallsOK, CallOK
  <2>2. \A e \in Conns : e # d => call'[e] = call[e]
    BY Zenon, <1>3 DEF Login, Ready, CallsOK
  <2> QED BY Zenon, <1>1, <1>3, <2>1, <2>2 DEF Login
<1>4. ASSUME NEW k \in Chains, NEW q \in Players, SendEnterGame(k, d, q)
      PROVE  Settling(p, c)'
  <2>1. UNCHANGED <<fence, conn, settle, call>> BY Zenon, <1>4 DEF SendEnterGame, connVars
  <2>2. \A j \in Chains : j # k => chain'[j] = chain[j]
    BY Zenon, <1>4 DEF SendEnterGame, Ready, ChainsOK
  <2>3. ~ByChain(p, c, k)
    BY <1>4 DEF SendEnterGame, IdleChain, ByChain, CommitSteps
  <2>4. \A j \in Chains : ByChain(p, c, j) => ByChain(p, c, j)'
    BY Zenon, <1>0, <2>2, <2>3 DEF ByChain
  <2> QED BY Zenon, <1>0, <2>1, <2>4 DEF Settling, ByBinding, ByDisconnect, ByLeave
<1>5. CASE LeaveGame(d)
  <2>1. UNCHANGED <<conn, settle, chain>> BY Zenon, <1>5 DEF LeaveGame
  <2>2. \A e \in Conns : e # d => call'[e] = call[e] /\ fence'[e] = fence[e]
    BY Zenon, <1>5 DEF LeaveGame, Leave, Ready, CallsOK, ConnsOK
  <2>3. CASE c # d
    BY Zenon, <1>0, <2>1, <2>2, <2>3 DEF Settling, ByBinding, ByDisconnect, ByLeave, ByChain
  <2>4. CASE c = d /\ ByBinding(p, c)
    <3>1. PICK fromGate \in told[d] \cup {None} :
            call' = [call EXCEPT ![d] = settling(sessionPlayersToSettle(fromGate, fence[d].player))]
      BY Zenon, <1>5 DEF LeaveGame
    <3> DEFINE todo == sessionPlayersToSettle(fromGate, fence[d].player)
    <3>2. p \in todo
      BY Zenon, <2>4, EnterGameAssumption DEF ByBinding, sessionPlayersToSettle
    <3>3. call'[d] = settling(todo) BY Zenon, <3>1 DEF Ready, CallsOK
    <3> HIDE DEF todo
    <3>4. call'[d].todo = todo /\ call'[d].pc # "delete"
      BY Zenon, <3>2, <3>3 DEF settling, IdleCall
    <3> QED BY Zenon, <2>4, <3>2, <3>4 DEF Settling, ByLeave
  <2>5. CASE c = d /\ ~ByBinding(p, c)
    <3>1. ~ByLeave(p, c) BY Zenon, <1>5, <2>5 DEF LeaveGame, ByLeave, Ready, CallsOK, CallOK
    <3> QED BY Zenon, <1>0, <2>1, <2>5, <3>1 DEF Settling, ByDisconnect, ByChain
  <2> QED BY Zenon, <2>3, <2>4, <2>5
<1>6. ASSUME NEW q \in Players, LeaveGameReads(d, q) PROVE Settling(p, c)'
  <2>1. Same BY Zenon, <1>6 DEF LeaveGameReads
  <2>2. \A e \in Conns : e # d => call'[e] = call[e]
    BY Zenon, <1>6 DEF LeaveGameReads, settled, Ready, CallsOK
  <2>3. CASE ~(c = d /\ ByLeave(p, c))
    BY Zenon, <1>0, <2>1, <2>2, <2>3 DEF Settling, ByBinding, ByDisconnect, ByLeave, ByChain
  <2>4. CASE c = d /\ ByLeave(p, c)
    <3>1. call[d] \in CallRecord /\ call \in [Conns -> CallRecord] /\ p \in call[d].todo
          /\ call[d].pc = "settle"
      BY Zenon, <1>6, <2>4 DEF Ready, CallsOK, ByLeave, LeaveGameReads
    <3>2. CASE deleteApplies(q, d)
      <4> DEFINE t == [call[d] EXCEPT !.pc = "delete", !.player = q, !.ver = session[q].ver]
      <4>1. call' = [call EXCEPT ![d] = t] BY Zenon, <1>6, <3>2 DEF LeaveGameReads
      <4>2. t.todo = call[d].todo /\ t.player = q /\ t.ver = session[q].ver
        BY Zenon, <3>1 DEF CallRecord
      <4> HIDE DEF t
      <4>3. call'[d] = t BY Zenon, <3>1, <4>1
      <4> QED BY Zenon, <1>0, <2>4, <3>1, <4>2, <4>3 DEF Settling, ByLeave
    <3>3. CASE ~deleteApplies(q, d)
      <4>1. p # q BY Zenon, <1>0, <2>4, <3>3 DEF deleteApplies
      <4>2. call' = [call EXCEPT ![d] = settling(call[d].todo \ {q})]
        BY Zenon, <1>6, <3>3 DEF LeaveGameReads, settled
      <4>3. call'[d] = settling(call[d].todo \ {q}) BY Zenon, <3>1, <4>2
      <4>4. p \in call[d].todo \ {q} BY Zenon, <3>1, <4>1
      <4>5. call'[d].todo = call[d].todo \ {q} /\ call'[d].pc # "delete"
        BY Zenon, <4>3, <4>4 DEF settling, IdleCall
      <4> QED BY Zenon, <2>4, <4>4, <4>5 DEF Settling, ByLeave
    <3> QED BY Zenon, <3>2, <3>3
  <2> QED BY Zenon, <2>3, <2>4
<1>7. CASE LeaveGameDeletes(d)
  <2> DEFINE q == call[d].player
  <2>1. Same BY Zenon, <1>7 DEF LeaveGameDeletes
  <2>2. \A e \in Conns : e # d => call'[e] = call[e]
    BY Zenon, <1>7 DEF LeaveGameDeletes, settled, Ready, CallsOK
  <2>3. CASE ~(c = d /\ ByLeave(p, c))
    BY Zenon, <1>0, <2>1, <2>2, <2>3 DEF Settling, ByBinding, ByDisconnect, ByLeave, ByChain
  <2>4. CASE c = d /\ ByLeave(p, c)
    <3>1. call \in [Conns -> CallRecord] /\ p \in call[d].todo
          /\ q \in Players
      BY Zenon, <1>7, <2>4 DEF Ready, CallsOK, CallOK, ByLeave, LeaveGameDeletes
    <3>2. p # q
      <4> SUFFICES ASSUME p = q PROVE FALSE
        BY Zenon
      <4>1. call[d].ver = session[p].ver BY Zenon, <1>7, <2>4 DEF ByLeave, LeaveGameDeletes
      <4> QED BY Zenon, <1>0, <1>7, <2>4, <4>1, Offline DEF LeaveGameDeletes, Ready
    <3>3. call'[d] = settling(call[d].todo \ {q})
      BY Zenon, <1>7, <3>1 DEF LeaveGameDeletes, settled
    <3>4. p \in call[d].todo \ {q} BY Zenon, <3>1, <3>2
    <3> HIDE DEF q
    <3>5. call'[d].todo = call[d].todo \ {q} /\ call'[d].pc # "delete"
      BY Zenon, <3>3, <3>4 DEF settling, IdleCall
    <3> QED BY Zenon, <2>4, <3>4, <3>5 DEF Settling, ByLeave
  <2> QED BY Zenon, <2>3, <2>4
<1> QED BY Zenon, <1>2, <1>3, <1>4, <1>5, <1>6, <1>7 DEF RequestStep

\* A connection opens its disconnect with nothing left from an earlier one.
LEMMA SettlingClose ==
  ASSUME Ready, Closing, NEW d \in Conns, closeConnection(d), UNCHANGED <<fence, call, chain>>,
         NEW p \in Players, NEW c \in Conns, Stays(p, c), Settling(p, c)
  PROVE  Settling(p, c)'
<1>1. settle[d] = {} BY Zenon DEF closeConnection, Closing
<1>2. conn'[d] = "close" /\ \A e \in Conns : e # d => conn'[e] = conn[e] /\ settle'[e] = settle[e]
  BY Zenon DEF closeConnection, Ready, ConnsOK
<1> QED BY Zenon, <1>1, <1>2 DEF Settling, ByBinding, ByDisconnect, ByLeave, ByChain, Stays

\* A disconnect takes over from the binding it closes and marks every session
\* it has to settle.
LEMMA SettlingConnection ==
  ASSUME Ready, Closing, NEW d \in Conns, ConnectionStep(d),
         NEW p \in Players, NEW c \in Conns, Stays(p, c), Settling(p, c)
  PROVE  Settling(p, c)'
<1>0. session'[p] = session[p] /\ session[p] # None /\ session[p].state = "ONLINE"
      /\ session[p].conn = c
  BY Zenon DEF Stays
<1>1. CASE ConnectionDown(d) BY Zenon, <1>1, SettlingClose DEF ConnectionDown
<1>2. UNCHANGED <<call, chain>>
  BY Zenon DEF ConnectionStep, ConnectionDown, DisconnectCloses, DisconnectCleans, DisconnectMarks
<1>3. ByLeave(p, c) \/ (\E k \in Chains : ByChain(p, c, k)) => Settling(p, c)'
  BY Zenon, <1>0, <1>2 DEF Settling, ByLeave, ByChain
<1>4. CASE DisconnectCloses(d)
  <2>1. /\ conn'[d] = "clean"
        /\ settle'[d] = settle[d] \cup sessionPlayersToSettle(None, fence[d].player)
        /\ \A e \in Conns : e # d => /\ conn'[e] = conn[e] /\ settle'[e] = settle[e]
                                     /\ fence'[e] = fence[e]
    BY Zenon, <1>4, ClosedFence DEF DisconnectCloses, Close, Ready, ConnsOK
  <2>2. CASE ByBinding(p, c)
    BY Zenon, <2>1, <2>2, EnterGameAssumption
      DEF Settling, ByBinding, ByDisconnect, sessionPlayersToSettle
  <2>3. CASE ByDisconnect(p, c) BY Zenon, <2>1, <2>3 DEF Settling, ByDisconnect
  <2> QED BY Zenon, <1>3, <2>2, <2>3 DEF Settling
<1>5. CASE DisconnectCleans(d)
  <2>1. /\ conn[d] = "clean" /\ conn'[d] = IF settle[d] = {} THEN "gone" ELSE "mark"
        /\ \A e \in Conns : e # d => conn'[e] = conn[e]
        /\ UNCHANGED <<fence, settle>>
    BY Zenon, <1>5 DEF DisconnectCleans, Ready, ConnsOK
  <2>2. CASE ByBinding(p, c) BY Zenon, <2>1, <2>2 DEF Settling, ByBinding
  <2>3. CASE ByDisconnect(p, c) BY Zenon, <2>1, <2>3 DEF Settling, ByDisconnect
  <2> QED BY Zenon, <1>3, <2>2, <2>3 DEF Settling
<1>6. ASSUME NEW q \in Players, DisconnectMarks(d, q) PROVE Settling(p, c)'
  <2>1. /\ conn[d] = "mark" /\ conn'[d] = IF settle[d] = {q} THEN "gone" ELSE "mark"
        /\ settle'[d] = settle[d] \ {q}
        /\ \A e \in Conns : e # d => conn'[e] = conn[e] /\ settle'[e] = settle[e]
        /\ UNCHANGED fence
    BY Zenon, <1>6 DEF DisconnectMarks, Ready, ConnsOK
  <2>2. CASE ByBinding(p, c) BY Zenon, <2>1, <2>2 DEF Settling, ByBinding
  <2>3. CASE ByDisconnect(p, c)
    <3>1. ~(c = d /\ p = q)
      BY Zenon, <1>0, <1>6, Marked DEF DisconnectMarks, Ready
    <3> QED BY Zenon, <2>1, <2>3, <3>1 DEF Settling, ByDisconnect
  <2> QED BY Zenon, <1>3, <2>2, <2>3 DEF Settling
<1> QED BY Zenon, <1>1, <1>4, <1>5, <1>6 DEF ConnectionStep

\* The steps of a chain that write the player's session.
LEMMA ChainSessions ==
  ASSUME NEW k \in Chains, ChainStep(k)
  PROVE  Persisted(k) \/ ReplyLost(k) \/ PlaceLease(k) \/ UndoDeletes(k) \/ UNCHANGED session
  BY Zenon DEF ChainStep, GetAccount, EnterFence, TryLock, Accept, GetSession, Mint,
         PersistFails, Probe, Kick, Bind, BindFails, SendBindSessionToGate,
         RecheckFence, OwnerGone, EnterScene, Complete, UndoReads, Abandon, locatorVars

\* The chain that has written a session is at a step that settles it, as long
\* as only replacements, which are probed, lose their reply.
LEMMA SettlingWrite ==
  ASSUME Ready, Settled, Closing, LostReplies \subseteq {"replace"},
         NEW k \in Chains, ChainStep(k), Persisted(k) \/ ReplyLost(k)
  PROVE  Settled'
<1>1. at(k, "persist") /\ writeSession(k) BY Zenon DEF Persisted, ReplyLost
<1>2. PICK p \in Players, c \in Conns : p = chain[k].player /\ c = chain[k].conn
  BY Zenon, <1>1 DEF Ready, ChainsOK, ChainOK, Active, at
<1>3. /\ session'[p] # None /\ session'[p].state = "ONLINE" /\ session'[p].conn = c
      /\ session'[p].gen = chain[k].mint
      /\ \A q \in Players : q # p => session'[q] = session[q]
  BY Zenon, <1>1, <1>2, Wrote DEF Ready
<1>4. PICK pc \in {"kick", "bind", "probe"} : goto(k, pc)
  BY Zenon DEF Persisted, ReplyLost
<1>5. chain'[k] = [chain[k] EXCEPT !.pc = pc] /\ chain[k] \in ChainRecord
  BY Zenon, <1>4 DEF goto, Ready, ChainsOK
<1>6. ByChain(p, c, k)'
  <2>1. chain'[k].pc = pc /\ chain'[k].conn = c /\ chain'[k].player = p
        /\ chain'[k].mint = chain[k].mint
    BY Zenon, <1>2, <1>5 DEF ChainRecord
  <2> QED BY Zenon, <1>3, <1>4, <2>1 DEF ByChain, CommitSteps
<1> SUFFICES ASSUME NEW q \in Players, session'[q] # None, session'[q].state = "ONLINE"
             PROVE  \E d \in Conns : session'[q].conn = d /\ Settling(q, d)'
  BY Zenon DEF Settled
<1>7. CASE q = p BY Zenon, <1>2, <1>3, <1>6, <1>7 DEF Settling
<1>8. CASE q # p
  <2>1. session'[q] = session[q] BY Zenon, <1>3, <1>8
  <2>2. session[q].conn \in Conns BY Zenon, <2>1 DEF Ready, LocatorOK, Sessions
  <2>3. Stays(q, session[q].conn) /\ Settling(q, session[q].conn)
    BY Zenon, <2>1 DEF Stays, Settled
  <2> QED BY Zenon, <2>1, <2>2, <2>3, SettlingChainStep
<1> QED BY Zenon, <1>7, <1>8

\* Settled is kept: no step leaves an ONLINE session nobody will end.
LEMMA SettledStep ==
  ASSUME LostReplies \subseteq {"replace"}
  PROVE  Ready /\ Closing /\ Settled /\ [Next]_vars => Settled'
<1> SUFFICES ASSUME Ready, Closing, Settled, [Next]_vars PROVE Settled'
  BY Zenon
<1>1. CASE UNCHANGED <<fence, conn, settle, call, chain>>
           /\ \A p \in Players : session'[p] = session[p] \/ session'[p] = None
  BY Zenon, <1>1, SettlingKept, SettledFrame
<1>2. ASSUME NEW c \in Conns, RequestStep(c) PROVE Settled'
  <2>1. \A p \in Players : session'[p] = session[p] \/ session'[p] = None
    <3>1. CASE LeaveGameDeletes(c)
      <4>1. call[c].player \in Players
        BY Zenon, <3>1 DEF LeaveGameDeletes, Ready, CallsOK, CallOK
      <4> QED BY Zenon, <3>1, <4>1, Offline DEF LeaveGameDeletes, Ready
    <3>2. CASE ~LeaveGameDeletes(c)
      <4>1. UNCHANGED session
        BY Zenon, <1>2, <3>2 DEF RequestStep, SendLogin, Login, SendEnterGame, SendLeaveGame,
              LeaveGame, LeaveGameReads, locatorVars
      <4> QED BY Zenon, <4>1
    <3> QED BY Zenon, <3>1, <3>2
  <2> QED BY Zenon, <1>2, <2>1, SettlingRequest, SettledFrame
<1>3. ASSUME NEW c \in Conns, ConnectionStep(c) PROVE Settled'
  <2>1. \A p \in Players : \/ session'[p] = session[p] \/ session'[p].state # "ONLINE"
    <3>1. ASSUME NEW q \in Players, DisconnectMarks(c, q)
          PROVE  \A p \in Players : \/ session'[p] = session[p] \/ session'[p].state # "ONLINE"
      <4>1. \/ session' = session \/ session'[q].state = "DISCONNECTING"
        BY Zenon, <3>1, Marked DEF DisconnectMarks, Ready
      <4>2. \A p \in Players : p # q => session'[p] = session[p]
        BY Zenon, <3>1, Marked DEF DisconnectMarks, Ready
      <4> QED BY Zenon, <4>1, <4>2
    <3>2. CASE ConnectionDown(c) \/ DisconnectCloses(c) \/ DisconnectCleans(c)
      BY Zenon, <3>2 DEF ConnectionDown, DisconnectCloses, DisconnectCleans, locatorVars
    <3> QED BY Zenon, <1>3, <3>1, <3>2 DEF ConnectionStep
  <2> QED BY Zenon, <1>3, <2>1, SettlingConnection, SettledFrame
<1>4. ASSUME NEW k \in Chains, ChainStep(k) PROVE Settled'
  <2>1. CASE Persisted(k) \/ ReplyLost(k) BY Zenon, <1>4, <2>1, SettlingWrite
  <2>2. CASE ~(Persisted(k) \/ ReplyLost(k))
    <3>1. \A p \in Players : \/ session'[p] = session[p] \/ session'[p] = None
                             \/ session'[p].state # "ONLINE"
      <4>0. at(k, "lease") \/ at(k, "delete") =>
               chain[k].player \in Players /\ chain[k].conn \in Conns
        BY Zenon DEF at, Ready, ChainsOK, ChainOK, Active
      <4>1. CASE PlaceLease(k)
        <5>1. \/ session' = session \/ session'[chain[k].player].state = "DISCONNECTING"
          BY Zenon, <4>0, <4>1, Marked DEF PlaceLease, Ready
        <5>2. \A p \in Players : p # chain[k].player => session'[p] = session[p]
          BY Zenon, <4>0, <4>1, Marked DEF PlaceLease, Ready
        <5> QED BY Zenon, <5>1, <5>2
      <4>2. CASE UndoDeletes(k)
        BY Zenon, <4>0, <4>2, Offline DEF UndoDeletes, Ready
      <4> QED BY Zenon, <1>4, <2>2, <4>1, <4>2, ChainSessions
    <3> QED BY Zenon, <1>4, <3>1, SettlingChainStep, SettledFrame
  <2> QED BY Zenon, <2>1, <2>2
<1>5. ASSUME NEW m \in kicks, KickArrives(m) PROVE Settled'
  <2>1. m.conn \in Conns BY Zenon DEF Ready, KeysOK
  <2>2. UNCHANGED <<fence, session, call, chain>> BY Zenon, <1>5 DEF KickArrives, locatorVars
  <2>3. CASE closeConnection(m.conn)
    BY Zenon, <2>1, <2>2, <2>3, SettlingClose, SettledFrame
  <2>4. CASE UNCHANGED <<conn, settle>> BY Zenon, <1>1, <2>2, <2>4
  <2> QED BY Zenon, <1>5, <2>3, <2>4 DEF KickArrives
<1>6. CASE UNCHANGED vars \/ Tick \/ \E p \in Players : ExpireKey(p) \/ LoseLock(p)
  <2>1. UNCHANGED <<fence, conn, settle, call, chain, session>>
    BY Zenon, <1>6 DEF vars, Tick, ExpireKey, LoseLock, connVars, locatorVars
  <2> QED BY Zenon, <1>1, <2>1
<1>7. ASSUME NEW p \in Players, LocatorStep(p) PROVE Settled'
  <2>1. UNCHANGED <<fence, conn, settle, call, chain>> BY Zenon, <1>7 DEF LocatorStep, connVars
  <2>2. \A q \in Players : session'[q] = session[q] \/ session'[q] = None
    BY Zenon, <1>7, LocatorAlone DEF Ready
  <2> QED BY Zenon, <1>1, <2>1, <2>2
<1> QED BY Zenon, <1>2, <1>3, <1>4, <1>5, <1>6, <1>7 DEF Next

\* A chain that has begun moves by its own steps only.
LEMMA ChainActs ==
  ASSUME Ready, Next, NEW k \in Chains, chain'[k] # chain[k], chain[k] # IdleChain
  PROVE  ChainStep(k)
<1>1. UNCHANGED chain \/ (\E j \in Chains : ChainStep(j))
      \/ (\E j \in Chains, c \in Conns, p \in Players : SendEnterGame(j, c, p))
  BY Zenon DEF Next, RequestStep, SendLogin, Login, SendLeaveGame, LeaveGame, LeaveGameReads,
        LeaveGameDeletes, ConnectionStep, ConnectionDown, DisconnectCloses,
        DisconnectCleans, DisconnectMarks, KickArrives, ExpireKey, LocatorStep, Tick,
        LoseLock
<1>2. ASSUME NEW j \in Chains, ChainStep(j) PROVE j = k
  BY Zenon, <1>2, ChainMoves
<1>3. ASSUME NEW j \in Chains, NEW c \in Conns, NEW p \in Players, SendEnterGame(j, c, p)
      PROVE  FALSE
  <2>1. j # k BY Zenon, <1>3 DEF SendEnterGame
  <2> QED BY Zenon, <1>3, <2>1 DEF SendEnterGame, Ready, ChainsOK
<1> QED BY Zenon, <1>1, <1>2, <1>3

-----------------------------------------------------------------------------
(* The theorems *)

\* The start: no session, no chain, no binding, nothing minted.
LEMMA EnterInit == Init => Closing /\ Minting /\ Asking /\ Locking /\ Settled
<1> SUFFICES ASSUME Init PROVE Closing /\ Minting /\ Asking /\ Locking /\ Settled
  BY Zenon
<1> USE DEF Init
<1>1. Closing BY Zenon DEF Closing, FenceInit
<1>2. Minting BY Zenon DEF Minting
<1>3. Asking BY Zenon DEF Asking, BoundWasAsked, AskingChain, Active, IdleChain, FenceInit
<1>4. Locking
  BY Zenon DEF Locking, LockingChain, IdleChain, LockedSteps, OwnSteps, ChainSteps, HandlerSteps,
         CommitSteps
<1>5. Settled BY Zenon DEF Settled
<1> QED BY Zenon, <1>1, <1>2, <1>3, <1>4, <1>5

\* The inductive invariant of the login chains: the records are well formed,
\* the Disconnect is told by what it left behind, generations grow with the key
\* and the clocks, a chain's role was asked for, and its lock protects what it
\* wrote.
THEOREM EnterInvariance == Spec => [](Ready /\ Closing /\ Minting /\ Asking /\ Locking)
<1>1. Init => Ready /\ Closing /\ Minting /\ Asking /\ Locking
  BY Zenon, ReadyInit, EnterInit
<1>2. Ready /\ Closing /\ Minting /\ Asking /\ Locking /\ [Next]_vars =>
         (Ready /\ Closing /\ Minting /\ Asking /\ Locking)'
  BY Zenon, ReadyStep, ClosingStep, MintingStep, AskingStep, LockingStep
<1> QED BY <1>1, <1>2, PTL DEF Spec

\* The records of fences, sessions, calls and chains keep their types.
THEOREM EnterTypes == Spec => []EnterTypeOK
<1>1. Ready => EnterTypeOK BY Zenon, ReadyTypes
<1> QED BY <1>1, EnterInvariance, PTL

\* A Login that lands after Close finds the fence closed, and Disconnect clears
\* the login state after it closed the fence: none is left behind.
THEOREM NoLoginStateIsLeft == Spec => []NoLoginAfterGone
<1>1. Closing => NoLoginAfterGone BY Zenon DEF Closing, NoLoginAfterGone
<1> QED BY <1>1, EnterInvariance, PTL

\* BindPlayer compares the generation EnterFence captured, so a chain accepted
\* before a LeaveGame never binds the role that left.
THEOREM BindingsWereAsked == Spec => []BoundWasAsked
<1>1. Asking => BoundWasAsked BY Zenon DEF Asking
<1> QED BY <1>1, EnterInvariance, PTL

\* mintLoginGeneration only goes up, across the expiry of its key and whatever
\* the replicas' clocks, as long as the key outlives their skew.
THEOREM MintedGenerationsGrow == Spec => GenerationsAdvance
<1>1. ASSUME Ready, Minting, [Next]_vars PROVE MintStep \/ UNCHANGED vars
  <2> SUFFICES ASSUME NEW k \in Chains, at(k, "mint"), chain'[k].pc = "persist", Next
               PROVE  chain'[k].mint > minted[chain[k].player]
    BY Zenon, <1>1 DEF MintStep
  <2>0. IdleChain.pc = "idle" BY Zenon DEF IdleChain
  <2>1. chain'[k] # chain[k] /\ chain[k] # IdleChain BY Zenon, <2>0 DEF at
  <2>2. ChainStep(k) BY Zenon, <1>1, <2>1, ChainActs
  <2>3. Mint(k) \/ Abandon(k)
    BY Zenon, <2>2 DEF ChainStep, at, GetAccount, EnterFence, TryLock, Accept, GetSession, Persisted,
           PersistFails, ReplyLost, Probe, Kick, Bind, BindFails, SendBindSessionToGate,
           RecheckFence, OwnerGone, EnterScene, Complete, PlaceLease, UndoReads, UndoDeletes
  <2>4. ~Abandon(k) BY Zenon, <1>1, Finished DEF Abandon, Ready
  <2> QED BY Zenon, <1>1, <2>3, <2>4, MintAdvances
<1>2. Ready /\ Minting /\ [Next]_vars => [MintStep]_vars BY Zenon, <1>1
<1> QED BY <1>2, EnterInvariance, PTL DEF Spec, GenerationsAdvance

\* Only the Disconnect of its own connection, or the chain at the place where
\* it gives the session up, leases an ONLINE session.
THEOREM LiveSessionsAreKept == Spec => LiveSessionKept
<1>1. ASSUME Ready, Closing, [Next]_vars PROVE LeaseStep \/ UNCHANGED vars
  <2> SUFFICES ASSUME NEW p \in Players, Next,
                      session[p] # None, session[p].state = "ONLINE",
                      session'[p] # None, session'[p].state = "DISCONNECTING"
               PROVE  \/ conn[session[p].conn] # "open"
                      \/ \E k \in Chains : /\ at(k, "lease") /\ chain[k].conn = session[p].conn
                                           /\ chain[k].player = p
    BY Zenon, <1>1 DEF LeaseStep
  <2>1. session'[p] # session[p] BY Zenon
  <2>2. ASSUME NEW c \in Conns, RequestStep(c) PROVE FALSE
    <3>1. LeaveGameDeletes(c)
      BY Zenon, <2>1, <2>2 DEF RequestStep, SendLogin, Login, SendEnterGame, SendLeaveGame,
            LeaveGame, LeaveGameReads, locatorVars
    <3>2. call[c].player \in Players
      BY Zenon, <1>1, <3>1 DEF LeaveGameDeletes, Ready, CallsOK, CallOK
    <3> QED BY Zenon, <1>1, <2>1, <3>1, <3>2, Offline DEF LeaveGameDeletes, Ready
  <2>3. ASSUME NEW c \in Conns, ConnectionStep(c) PROVE conn[session[p].conn] # "open"
    <3>1. PICK q \in Players : DisconnectMarks(c, q)
      BY Zenon, <2>1, <2>3
        DEF ConnectionStep, ConnectionDown, DisconnectCloses, DisconnectCleans, locatorVars
    <3>2. p = q /\ session[p].conn = c
      BY Zenon, <1>1, <2>1, <3>1, Marked DEF DisconnectMarks, Ready
    <3> QED BY Zenon, <3>1, <3>2 DEF DisconnectMarks
  <2>4. ASSUME NEW k \in Chains, ChainStep(k)
        PROVE  at(k, "lease") /\ chain[k].conn = session[p].conn /\ chain[k].player = p
    <3>0. Active(chain[k]) BY Zenon, <1>1, <2>4, ChainMoves
    <3>1. chain[k].player \in Players /\ chain[k].conn \in Conns
      BY Zenon, <1>1, <3>0 DEF Ready, ChainsOK, ChainOK
    <3>2. ~(Persisted(k) \/ ReplyLost(k))
      BY Zenon, <1>1, <2>1, Wrote DEF Persisted, ReplyLost, Ready
    <3>3. ~UndoDeletes(k)
      BY Zenon, <1>1, <2>1, <3>1, Offline DEF UndoDeletes, Ready
    <3>4. PlaceLease(k) BY Zenon, <2>1, <2>4, <3>2, <3>3, ChainSessions
    <3>5. /\ at(k, "lease")
          /\ markPlayerSessionDisconnecting(chain[k].player, chain[k].conn)
      BY Zenon, <3>4 DEF PlaceLease
    <3>6. LocatorOK BY Zenon, <1>1 DEF Ready
    <3>7. /\ \A q \in Players : q # chain[k].player => session'[q] = session[q]
          /\ session' = session \/ session[chain[k].player].conn = chain[k].conn
      BY Zenon, <3>1, <3>5, <3>6, Marked
    <3> QED BY Zenon, <2>1, <3>1, <3>5, <3>7
  <2>5. ASSUME NEW q \in Players, LocatorStep(q) PROVE FALSE
    BY Zenon, <1>1, <2>1, <2>5, LocatorAlone DEF Ready
  <2>6. ~Tick /\ ~(\E q \in Players : ExpireKey(q) \/ LoseLock(q)) /\ ~(\E m \in kicks : KickArrives(m))
    BY Zenon, <2>1 DEF Tick, ExpireKey, LoseLock, KickArrives, locatorVars
  <2> QED BY Zenon, <2>2, <2>3, <2>4, <2>5, <2>6 DEF Next
<1>2. Ready /\ Closing /\ [Next]_vars => [LeaseStep]_vars BY Zenon, <1>1
<1> QED BY <1>2, EnterInvariance, PTL DEF Spec, LiveSessionKept

\* As long as Redis keeps the locks, the session a chain deletes when its bind
\* is refused is the one it wrote: the lock kept every other login out since.
THEOREM UndoDeletesOwnSession == Spec => UndoHitsOwn
<1>1. ASSUME Ready, Locking, [Next]_vars PROVE UndoStep \/ UNCHANGED vars
  <2> SUFFICES ASSUME NEW k \in Chains, at(k, "delete"), chain'[k].pc = "done", ~lockLost,
                      Next, session'[chain[k].player] # session[chain[k].player]
               PROVE  session[chain[k].player].gen = chain[k].mint
    BY Zenon, <1>1 DEF UndoStep
  <2> DEFINE p == chain[k].player
  <2>1. p \in Players BY Zenon, <1>1 DEF at, Ready, ChainsOK, ChainOK, Active
  <2>2. session[p] = None \/ session[p].gen = chain[k].mint
    BY Zenon, <1>1 DEF Locking, LockingChain, OwnSteps, at
  <2>3. session[p] # None
    <3>0. IdleChain.pc = "idle" BY Zenon DEF IdleChain
    <3>1. chain'[k] # chain[k] /\ chain[k] # IdleChain BY Zenon, <3>0 DEF at
    <3>2. ChainStep(k) BY Zenon, <1>1, <3>1, ChainActs
    <3>3. UndoDeletes(k)
      BY Zenon, <3>2 DEF ChainStep, at, GetAccount, EnterFence, TryLock, Accept, GetSession, Mint,
             Persisted, PersistFails, ReplyLost, Probe, Kick, Bind, BindFails,
             SendBindSessionToGate, RecheckFence, OwnerGone, EnterScene, Complete, PlaceLease,
             UndoReads, Abandon, HandlerSteps
    <3>4. chain[k].conn \in Conns BY Zenon, <1>1 DEF at, Ready, ChainsOK, ChainOK, Active
    <3> QED BY Zenon, <1>1, <2>1, <3>3, <3>4, Offline DEF UndoDeletes, Ready
  <2> QED BY Zenon, <2>2, <2>3
<1>2. Ready /\ Locking /\ [Next]_vars => [UndoStep]_vars BY Zenon, <1>1
<1> QED BY <1>2, EnterInvariance, PTL DEF Spec, UndoHitsOwn

\* No ONLINE session is forgotten: the binding, the Disconnect, the LeaveGame or
\* the chain that wrote it will end it, whatever the order of their steps.  The
\* chains probe for a lost reply only when they replace a session, so lost
\* replies of first logins and reconnects are excluded.
THEOREM EveryOnlineSessionIsSettled ==
  ASSUME LostReplies \subseteq {"replace"}
  PROVE  Spec => []OnlineIsSettled
<1>1. Init => Settled BY Zenon, EnterInit
<1>2. Ready /\ Closing /\ Settled /\ [Next]_vars => Settled' BY Zenon, SettledStep
<1>3. Ready /\ Settled => OnlineIsSettled
  BY Zenon, ReadyTypes DEF Settled, Settling, ByBinding, ByDisconnect, ByLeave, ByChain,
                    OnlineIsSettled
<1> QED BY <1>1, <1>2, <1>3, EnterInvariance, PTL DEF Spec
================================================================================
