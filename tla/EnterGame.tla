------------------------------- MODULE EnterGame -------------------------------
(***************************************************************************)
(* Entering and leaving the game through login: the handlers of Login,     *)
(* EnterGame, LeaveGame and Disconnect, and the chain an accepted          *)
(* EnterGame leaves running in the background, one Redis script or RPC per *)
(* step.  player_locator is its abstract protocol, which its service is    *)
(* shown to implement.  The gate sends the client's requests of one        *)
(* connection one at a time; its Disconnect waits for nothing.             *)
(*                                                                         *)
(* Any call of a chain may fail: the lock heartbeat cancels it, its budget *)
(* runs out, the other side refuses.  Its deferred clean-up then runs.     *)
(***************************************************************************)
EXTENDS SessionFence, FiniteSets

CONSTANTS
    Chains,        \* EnterGame requests; each is made at most once
    SidOf,         \* the session id of a connection, unique in a gate instance
    InstanceOf,    \* the gate instance of a connection
    LostReplies,   \* the calls that may be carried out with the reply lost
    Skew,          \* how far the clock of a login replica may be behind
    MaxNow,        \* bound on the clock
    MaxGeneration  \* bound on login generations

ASSUME ConnsAssumption ==
    \A c, d \in Conns : SidOf[c] = SidOf[d] /\ InstanceOf[c] = InstanceOf[d] => c = d

ASSUME EnterGameAssumption ==
    /\ LostReplies \subseteq {"first", "replace", "reconnect"}
    /\ MaxLeaves \in Nat /\ Skew \in Nat /\ MaxNow \in Nat \ {0} /\ MaxGeneration \in Nat
    /\ None \notin Players \cup Conns \cup Chains

VARIABLES
    session, leased, owed,   \* player_locator
    conn,     \* "open", or how far the Disconnect of the connection is
    settle,   \* the players that Disconnect has to mark
    login,    \* whether the connection has its login state
    call,     \* the client's request that login serves, other than EnterGame
    chain,    \* the EnterGame chains
    lock,     \* the player locks, by the chain that holds them
    told,     \* the players the gate was told to bind
    kicks,    \* kicks on their way to a gate
    key,      \* the minting key of a player, 0 when it is absent
    now,      \* the clock
    minted,   \* history: the highest generation minted for a player
    asked,    \* history: the roles the client asked for since its last LeaveGame
    lockLost  \* history: whether Redis has lost the lock of a chain

locatorVars == <<session, leased, owed>>
connVars == <<conn, settle, login, call>>
genVars == <<key, now, minted, asked>>
vars == <<fence, locatorVars, connVars, chain, lock, told, kicks, genVars, lockLost>>

\* The record of a session; conn stands for its session id and gate instance.
Sessions ==
    [state : {"ONLINE", "DISCONNECTING"}, conn : Conns,
     ver : 1..(2 * MaxGeneration + 1), gen : 1..MaxGeneration]

ASSUME NoneAssumption == None \notin Sessions

Locator == INSTANCE SessionProtocol

IdleChain == [pc |-> "idle", conn |-> None, player |-> None, gen |-> 0,
              existing |-> None, mint |-> 0]
IdleCall == [pc |-> "idle", todo |-> {}, player |-> None, ver |-> 0]

HandlerSteps == {"account", "fence", "lock", "owner"}
CommitSteps == {"kick", "bind", "probe", "kickLost", "lease", "undo", "delete"}
ChainSteps == HandlerSteps \cup CommitSteps
                 \cup {"preload", "mint", "persist", "notify", "recheck", "enter", "clean"}

ChainRecord ==
    [pc : ChainSteps \cup {"idle", "done"}, conn : Conns \cup {None},
     player : Players \cup {None}, gen : 0..MaxLeaves,
     existing : Sessions \cup {None}, mint : 0..MaxGeneration]

CallRecord ==
    [pc : {"idle", "login", "leave", "settle", "delete"}, todo : SUBSET Players,
     player : Players \cup {None}, ver : Nat]

EnterTypeOK ==
    /\ fence \in [Conns -> FenceRecord]
    /\ session \in [Players -> Sessions \cup {None}]
    /\ leased \subseteq Players /\ owed \subseteq leased
    /\ conn \in [Conns -> {"open", "close", "clean", "mark", "gone"}]
    /\ settle \in [Conns -> SUBSET Players]
    /\ login \in [Conns -> BOOLEAN]
    /\ call \in [Conns -> CallRecord]
    /\ chain \in [Chains -> ChainRecord]
    /\ lock \in [Players -> Chains \cup {None}]
    /\ told \in [Conns -> SUBSET Players]
    /\ kicks \subseteq [conn : Conns, player : Players, gen : 1..MaxGeneration]
    /\ key \in [Players -> 0..MaxGeneration]
    /\ now \in 1..MaxNow
    /\ minted \in [Players -> 0..MaxGeneration]
    /\ asked \in [Conns -> SUBSET Players]
    /\ lockLost \in BOOLEAN

Init ==
    /\ FenceInit
    /\ session = [p \in Players |-> None]
    /\ leased = {} /\ owed = {}
    /\ conn = [c \in Conns |-> "open"]
    /\ settle = [c \in Conns |-> {}]
    /\ login = [c \in Conns |-> FALSE]
    /\ call = [c \in Conns |-> IdleCall]
    /\ chain = [k \in Chains |-> IdleChain]
    /\ lock = [p \in Players |-> None]
    /\ told = [c \in Conns |-> {}]
    /\ kicks = {}
    /\ key = [p \in Players |-> 0]
    /\ now = 1
    /\ minted = [p \in Players |-> 0]
    /\ asked = [c \in Conns |-> {}]
    /\ lockLost = FALSE

\* Mutant: the gate instance is not compared.
sessionOf_anyInstance(s, c) == s # None /\ SidOf[s.conn] = SidOf[c]

\* The record is the session of connection c.
sessionOf(s, c) == s # None /\ SidOf[s.conn] = SidOf[c] /\ InstanceOf[s.conn] = InstanceOf[c]

-----------------------------------------------------------------------------
(* The client's requests *)

\* The gate has no request of the connection in flight.
laneFree(c) ==
    /\ conn[c] = "open"
    /\ call[c] = IdleCall
    /\ \A k \in Chains : chain[k].conn = c => chain[k].pc \notin HandlerSteps

SendLogin(c) ==
    /\ laneFree(c) /\ ~login[c]
    /\ call' = [call EXCEPT ![c].pc = "login"]
    /\ UNCHANGED <<fence, locatorVars, conn, settle, login, chain, lock, told, kicks, genVars>>

\* Mutant: the login state is written whatever the fence says.
Login_unfenced(c) ==
    /\ call[c].pc = "login"
    /\ login' = [login EXCEPT ![c] = TRUE]
    /\ call' = [call EXCEPT ![c] = IdleCall]
    /\ UNCHANGED <<fence, locatorVars, conn, settle, chain, lock, told, kicks, genVars>>

\* Login, its last step: the login state, unless the connection is closed.
Login(c) ==
    /\ call[c].pc = "login"
    /\ login' = [login EXCEPT ![c] = @ \/ CommitLogin(c)]
    /\ call' = [call EXCEPT ![c] = IdleCall]
    /\ UNCHANGED <<fence, locatorVars, conn, settle, chain, lock, told, kicks, genVars>>

SendEnterGame(k, c, p) ==
    /\ chain[k] = IdleChain /\ laneFree(c)
    /\ chain' = [chain EXCEPT ![k] = [IdleChain EXCEPT !.pc = "account",
                                                       !.conn = c, !.player = p]]
    /\ asked' = [asked EXCEPT ![c] = @ \cup {p}]
    /\ UNCHANGED <<fence, locatorVars, connVars, lock, told, kicks, key, now, minted>>

SendLeaveGame(c) ==
    /\ laneFree(c) /\ fence[c].gen < MaxLeaves
    /\ call' = [call EXCEPT ![c].pc = "leave"]
    /\ asked' = [asked EXCEPT ![c] = {}]
    /\ UNCHANGED <<fence, locatorVars, conn, settle, login, chain, lock, told, kicks,
                   key, now, minted>>

\* The players a Disconnect or a LeaveGame settles: the one the gate names, if
\* a bind reached it, and the one bound on the connection.
sessionPlayersToSettle(fromGate, boundPlayer) == {fromGate, boundPlayer} \ {None}

settling(todo) == IF todo = {} THEN IdleCall
                  ELSE [IdleCall EXCEPT !.pc = "settle", !.todo = todo]

\* LeaveGame: the fence first, then the login state, then the sessions.
LeaveGame(c) ==
    /\ call[c].pc = "leave"
    /\ \E fromGate \in told[c] \cup {None} :
          call' = [call EXCEPT ![c] =
                      settling(sessionPlayersToSettle(fromGate, fence[c].player))]
    /\ Leave(c)
    /\ login' = [login EXCEPT ![c] = FALSE]
    /\ UNCHANGED <<locatorVars, conn, settle, chain, lock, told, kicks, genVars>>

\* MarkOffline of the version that was read.
markOffline(p, c, ver) ==
    IF sessionOf(session[p], c) /\ session[p].ver = ver
    THEN Locator!Leave(p)
    ELSE UNCHANGED locatorVars

\* DeleteSession reads the record first, and stops at another session id.
deleteApplies(p, c) == session[p] # None /\ SidOf[session[p].conn] = SidOf[c]

settled(c, p) == call' = [call EXCEPT ![c] = settling(@.todo \ {p})]

LeaveGameReads(c, p) ==
    /\ call[c].pc = "settle" /\ p \in call[c].todo
    /\ IF deleteApplies(p, c)
       THEN call' = [call EXCEPT ![c] = [@ EXCEPT !.pc = "delete", !.player = p,
                                                  !.ver = session[p].ver]]
       ELSE settled(c, p)
    /\ UNCHANGED <<fence, locatorVars, conn, settle, login, chain, lock, told, kicks, genVars>>

LeaveGameDeletes(c) ==
    /\ call[c].pc = "delete"
    /\ markOffline(call[c].player, c, call[c].ver)
    /\ settled(c, call[c].player)
    /\ UNCHANGED <<fence, conn, settle, login, chain, lock, told, kicks, genVars>>

-----------------------------------------------------------------------------
(* The connection ends, at the client's will or by a kick *)

closeConnection(c) ==
    /\ conn[c] = "open"
    /\ conn' = [conn EXCEPT ![c] = "close"]
    /\ \E fromGate \in told[c] \cup {None} :
          settle' = [settle EXCEPT ![c] = sessionPlayersToSettle(fromGate, None)]

ConnectionDown(c) ==
    /\ closeConnection(c)
    /\ UNCHANGED <<fence, locatorVars, login, call, chain, lock, told, kicks, genVars>>

\* Disconnect closes the fence before it clears the login state.
DisconnectCloses(c) ==
    /\ conn[c] = "close"
    /\ Close(c)
    /\ conn' = [conn EXCEPT ![c] = "clean"]
    /\ settle' = [settle EXCEPT ![c] = @ \cup sessionPlayersToSettle(None, fence[c].player)]
    /\ UNCHANGED <<locatorVars, login, call, chain, lock, told, kicks, genVars>>

DisconnectCleans(c) ==
    /\ conn[c] = "clean"
    /\ login' = [login EXCEPT ![c] = FALSE]
    /\ conn' = [conn EXCEPT ![c] = IF settle[c] = {} THEN "gone" ELSE "mark"]
    /\ UNCHANGED <<fence, locatorVars, settle, call, chain, lock, told, kicks, genVars>>

\* SetDisconnecting for the session of connection c, retried until it answers.
markPlayerSessionDisconnecting(p, c) ==
    IF sessionOf(session[p], c) /\ session[p].state = "ONLINE"
    THEN Locator!Drop(p)
    ELSE UNCHANGED locatorVars

DisconnectMarks(c, p) ==
    /\ conn[c] = "mark" /\ p \in settle[c]
    /\ markPlayerSessionDisconnecting(p, c)
    /\ settle' = [settle EXCEPT ![c] = @ \ {p}]
    /\ conn' = [conn EXCEPT ![c] = IF settle[c] = {p} THEN "gone" ELSE @]
    /\ UNCHANGED <<fence, login, call, chain, lock, told, kicks, genVars>>

\* A kick reaches the gate, which closes the connection or, by what it knows of
\* the player and the login there, leaves it alone.
KickArrives(m) ==
    /\ m \in kicks
    /\ kicks' = kicks \ {m}
    /\ closeConnection(m.conn) \/ UNCHANGED <<conn, settle>>
    /\ UNCHANGED <<fence, locatorVars, login, call, chain, lock, told, genVars>>

-----------------------------------------------------------------------------
(* The EnterGame handler *)

at(k, pc) == chain[k].pc = pc
goto(k, pc) == chain' = [chain EXCEPT ![k].pc = pc]

\* Mutant: the release deletes the lock whoever holds it.
finish_anyToken(k) ==
    /\ chain' = [chain EXCEPT ![k] = [IdleChain EXCEPT !.pc = "done"]]
    /\ lock' = [lock EXCEPT ![chain[k].player] = None]

\* The deferred release compares the token.
finish(k) ==
    /\ chain' = [chain EXCEPT ![k] = [IdleChain EXCEPT !.pc = "done"]]
    /\ lock' = [p \in Players |-> IF lock[p] = k THEN None ELSE lock[p]]

GetAccount(k) ==
    /\ at(k, "account")
    /\ IF login[chain[k].conn] THEN goto(k, "fence") /\ UNCHANGED lock ELSE finish(k)
    /\ UNCHANGED <<fence, locatorVars, connVars, told, kicks, genVars>>

EnterFence(k) ==
    LET c == chain[k].conn IN
    /\ at(k, "fence")
    /\ IF CheckEnterGame(c, chain[k].player) = "ok"
       THEN /\ chain' = [chain EXCEPT ![k] = [@ EXCEPT !.pc = "lock", !.gen = fence[c].gen]]
            /\ UNCHANGED lock
       ELSE finish(k)
    /\ UNCHANGED <<fence, locatorVars, connVars, told, kicks, genVars>>

TryLock(k) ==
    LET p == chain[k].player IN
    /\ at(k, "lock")
    /\ IF lock[p] = None
       THEN goto(k, "owner") /\ lock' = [lock EXCEPT ![p] = k]
       ELSE finish(k)
    /\ UNCHANGED <<fence, locatorVars, connVars, told, kicks, genVars>>

\* The account owns the role and the preload is queued: the request is answered.
Accept(k) ==
    /\ at(k, "owner")
    /\ goto(k, "preload")
    /\ UNCHANGED <<fence, locatorVars, connVars, lock, told, kicks, genVars>>

-----------------------------------------------------------------------------
(* The chain, once the save is loaded *)

\* The record decides: no record is a first login, a leased one a reconnect,
\* any other is replaced.
DecideEnterGame(existing) ==
    IF existing = None THEN "first"
    ELSE IF existing.state = "DISCONNECTING" THEN "reconnect" ELSE "replace"

GetSession(k) ==
    /\ at(k, "preload")
    /\ chain' = [chain EXCEPT ![k] = [@ EXCEPT !.pc = "mint",
                                               !.existing = session[chain[k].player]]]
    /\ UNCHANGED <<fence, locatorVars, connVars, lock, told, kicks, genVars>>

Larger(a, b) == IF a >= b THEN a ELSE b

\* Mutant: the clock is not a floor.
mintLoginGeneration_noClock(current, clock, floor) == Larger(current + 1, floor + 1)

mintLoginGeneration(current, clock, floor) ==
    Larger(Larger(current + 1, clock), floor + 1)

Mint(k) ==
    LET p == chain[k].player
        floor == IF chain[k].existing = None THEN 0 ELSE chain[k].existing.gen
    IN
    /\ at(k, "mint")
    /\ \E behind \in 0..Skew :
          LET gen == mintLoginGeneration(key[p], now - behind, floor) IN
          /\ gen \in 1..MaxGeneration
          /\ chain' = [chain EXCEPT ![k] = [@ EXCEPT !.pc = "persist", !.mint = gen]]
          /\ key' = [key EXCEPT ![p] = gen]
          /\ minted' = [minted EXCEPT ![p] = Larger(@, gen)]
    /\ UNCHANGED <<fence, locatorVars, connVars, lock, told, kicks, now, asked>>

NewOnlineSession(existing, c, gen) ==
    [state |-> "ONLINE", conn |-> c, gen |-> gen,
     ver |-> IF existing = None THEN 1 ELSE existing.ver + 1]

\* What the chain asks of player_locator: SetSession of the successor of what
\* it read, or Reconnect of whatever is leased there now.
writeSession(k) ==
    LET p == chain[k].player
        c == chain[k].conn
    IN
    IF DecideEnterGame(chain[k].existing) = "reconnect"
    THEN /\ session[p] # None /\ session[p].state = "DISCONNECTING"
         /\ Locator!Enter(p, NewOnlineSession(session[p], c, chain[k].mint))
    ELSE Locator!Enter(p, NewOnlineSession(chain[k].existing, c, chain[k].mint))

\* An error leaves the outcome open; only a replacement looks again.
PersistFails(k) ==
    /\ at(k, "persist")
    /\ IF DecideEnterGame(chain[k].existing) = "replace"
       THEN goto(k, "probe") /\ UNCHANGED lock
       ELSE finish(k)
    /\ UNCHANGED <<fence, locatorVars, connVars, told, kicks, genVars>>

Persisted(k) ==
    /\ at(k, "persist")
    /\ writeSession(k)
    /\ goto(k, IF DecideEnterGame(chain[k].existing) = "replace" THEN "kick" ELSE "bind")
    /\ UNCHANGED <<fence, connVars, lock, told, kicks, genVars>>

\* The write is carried out and its reply is lost: an error to the chain.
ReplyLost(k) ==
    LET decision == DecideEnterGame(chain[k].existing) IN
    /\ at(k, "persist")
    /\ decision \in LostReplies
    /\ writeSession(k)
    /\ IF decision = "replace" THEN goto(k, "probe") /\ UNCHANGED lock ELSE finish(k)
    /\ UNCHANGED <<fence, connVars, told, kicks, genVars>>

setSessionProbeConfirmsCommit(k) ==
    LET s == session[chain[k].player] IN
    s # None /\ SidOf[s.conn] = SidOf[chain[k].conn] /\ s.gen = chain[k].mint

Probe(k) ==
    /\ at(k, "probe")
    /\ IF setSessionProbeConfirmsCommit(k)
       THEN goto(k, "kickLost") /\ UNCHANGED lock
       ELSE finish(k)
    /\ UNCHANGED <<fence, locatorVars, connVars, told, kicks, genVars>>

\* The same connection, or the same session id on another gate instance, is not
\* kicked; sending the kick may also fail.
kickReplacedSession(k) ==
    LET old == chain[k].existing.conn IN
    \/ /\ SidOf[old] # SidOf[chain[k].conn]
       /\ kicks' = kicks \cup {[conn |-> old, player |-> chain[k].player, gen |-> chain[k].mint]}
    \/ UNCHANGED kicks

Kick(k) ==
    /\ at(k, "kick") \/ at(k, "kickLost")
    /\ kickReplacedSession(k)
    /\ goto(k, IF at(k, "kick") THEN "bind" ELSE "lease")
    /\ UNCHANGED <<fence, locatorVars, connVars, lock, told, genVars>>

\* The handshake with Close and Leave: refused, the chain undoes its session.
Bind(k) ==
    LET c == chain[k].conn
        p == chain[k].player
        outcome == BindPlayer(c, p, chain[k].gen)
    IN
    /\ at(k, "bind")
    /\ bound(c, p, chain[k].gen)
    /\ goto(k, CASE outcome = "ok" -> "notify"
                 [] outcome = "closed" -> "lease"
                 [] OTHER -> "undo")
    /\ UNCHANGED <<locatorVars, connVars, lock, told, kicks, genVars>>

\* An error of the binding, whether it was carried out or not.
BindFails(k) ==
    /\ at(k, "bind")
    /\ bound(chain[k].conn, chain[k].player, chain[k].gen) \/ UNCHANGED fence
    /\ goto(k, "lease")
    /\ UNCHANGED <<locatorVars, connVars, lock, told, kicks, genVars>>

SendBindSessionToGate(k) ==
    /\ at(k, "notify")
    /\ told' = [told EXCEPT ![chain[k].conn] = @ \cup {chain[k].player}]
    /\ goto(k, "recheck")
    /\ UNCHANGED <<fence, locatorVars, connVars, lock, kicks, genVars>>

RecheckFence(k) ==
    /\ at(k, "recheck")
    /\ IF Recheck(chain[k].conn, chain[k].gen)
       THEN goto(k, "enter") /\ UNCHANGED lock
       ELSE finish(k)
    /\ UNCHANGED <<fence, locatorVars, connVars, told, kicks, genVars>>

\* The account no longer owns the role.
OwnerGone(k) ==
    /\ at(k, "enter")
    /\ goto(k, "undo")
    /\ UNCHANGED <<fence, locatorVars, connVars, lock, told, kicks, genVars>>

EnterScene(k) ==
    /\ at(k, "enter")
    /\ goto(k, "clean")
    /\ UNCHANGED <<fence, locatorVars, connVars, lock, told, kicks, genVars>>

\* The player is in: the login state goes, and the lock.
Complete(k) ==
    /\ at(k, "clean")
    /\ login' = [login EXCEPT ![chain[k].conn] = FALSE]
    /\ finish(k)
    /\ UNCHANGED <<fence, locatorVars, conn, settle, call, told, kicks, genVars>>

\* compensateFenceBind, with a lease.
PlaceLease(k) ==
    /\ at(k, "lease")
    /\ markPlayerSessionDisconnecting(chain[k].player, chain[k].conn)
    /\ finish(k)
    /\ UNCHANGED <<fence, connVars, told, kicks, genVars>>

\* compensateFenceBind, by deletion.
UndoReads(k) ==
    LET p == chain[k].player IN
    /\ at(k, "undo")
    /\ IF deleteApplies(p, chain[k].conn)
       THEN /\ chain' = [chain EXCEPT ![k] = [@ EXCEPT !.pc = "delete", !.existing = session[p]]]
            /\ UNCHANGED lock
       ELSE finish(k)
    /\ UNCHANGED <<fence, locatorVars, connVars, told, kicks, genVars>>

UndoDeletes(k) ==
    /\ at(k, "delete")
    /\ markOffline(chain[k].player, chain[k].conn, chain[k].existing.ver)
    /\ finish(k)
    /\ UNCHANGED <<fence, connVars, told, kicks, genVars>>

\* A call fails where the chain has nothing to undo, or nothing left to.
Abandon(k) ==
    /\ chain[k].pc \in HandlerSteps \cup {"preload", "mint", "notify", "recheck", "enter"}
    /\ finish(k)
    /\ UNCHANGED <<fence, locatorVars, connVars, told, kicks, genVars>>

-----------------------------------------------------------------------------
(* Around login *)

LoseLock(p) ==
    /\ lock[p] # None
    /\ lock' = [lock EXCEPT ![p] = None]
    /\ lockLost' = TRUE
    /\ UNCHANGED <<fence, locatorVars, connVars, chain, told, kicks, genVars>>

\* The minting key expires after days without a login: the clocks of all
\* replicas are past it by then.
ExpireKey(p) ==
    /\ key[p] # 0
    /\ \E later \in now..MaxNow : later - Skew > key[p] /\ now' = later
    /\ key' = [key EXCEPT ![p] = 0]
    /\ UNCHANGED <<fence, locatorVars, connVars, chain, lock, told, kicks, minted, asked>>

Tick ==
    /\ now < MaxNow
    /\ now' = now + 1
    /\ UNCHANGED <<fence, locatorVars, connVars, chain, lock, told, kicks, key, minted, asked>>

\* What player_locator does by itself.
LocatorStep(p) ==
    /\ \/ Locator!Claim({p}, {})
       \/ Locator!Claim({}, {p})
       \/ Locator!Expire(p)
       \/ Locator!Settle(p)
       \/ Locator!Owe(p)
    /\ UNCHANGED <<fence, connVars, chain, lock, told, kicks, genVars>>

RequestStep(c) ==
    \/ SendLogin(c) \/ Login(c)
    \/ \E k \in Chains, p \in Players : SendEnterGame(k, c, p)
    \/ SendLeaveGame(c) \/ LeaveGame(c) \/ LeaveGameDeletes(c)
    \/ \E p \in Players : LeaveGameReads(c, p)

ConnectionStep(c) ==
    \/ ConnectionDown(c) \/ DisconnectCloses(c) \/ DisconnectCleans(c)
    \/ \E p \in Players : DisconnectMarks(c, p)

ChainStep(k) ==
    \/ GetAccount(k) \/ EnterFence(k) \/ TryLock(k) \/ Accept(k)
    \/ GetSession(k) \/ Mint(k)
    \/ Persisted(k) \/ PersistFails(k) \/ ReplyLost(k) \/ Probe(k) \/ Kick(k)
    \/ Bind(k) \/ BindFails(k) \/ SendBindSessionToGate(k)
    \/ RecheckFence(k) \/ OwnerGone(k) \/ EnterScene(k) \/ Complete(k)
    \/ PlaceLease(k) \/ UndoReads(k) \/ UndoDeletes(k) \/ Abandon(k)

Next ==
    \/ /\ \/ \E c \in Conns : RequestStep(c) \/ ConnectionStep(c)
          \/ \E k \in Chains : ChainStep(k)
          \/ \E m \in kicks : KickArrives(m)
          \/ \E p \in Players : ExpireKey(p) \/ LocatorStep(p)
          \/ Tick
       /\ UNCHANGED lockLost
    \/ \E p \in Players : LoseLock(p)

Spec == Init /\ [][Next]_vars

-----------------------------------------------------------------------------
(* Properties *)

\* Every ONLINE session is somebody's to end: its role is bound on a connection
\* whose Disconnect has not read the binding yet, or a Disconnect, a LeaveGame
\* or the chain that wrote it is about to see to it.  No session stays ONLINE
\* after its connection is gone, whatever the order of Close, LeaveGame and
\* the chain's binding, and no connection keeps two roles.
OnlineIsSettled ==
    /\ EnterTypeOK
    /\ \A p \in Players :
        session[p] # None /\ session[p].state = "ONLINE" =>
            LET c == session[p].conn IN
            \/ fence[c].player = p /\ conn[c] \in {"open", "close"}
            \/ conn[c] # "gone" /\ p \in settle[c]
            \/ p \in call[c].todo
            \/ \E k \in Chains : /\ chain[k].conn = c /\ chain[k].player = p
                                 /\ chain[k].pc \in CommitSteps

\* The role bound on a connection is one its client asked for after its last
\* LeaveGame: a chain accepted before it does not bring the role back.
BoundWasAsked ==
    \A c \in Conns :
        fence[c].player # None /\ call[c].pc # "leave" => fence[c].player \in asked[c]

\* A Login that lands after its connection's Disconnect leaves no login state.
NoLoginAfterGone == \A c \in Conns : conn[c] = "gone" => ~login[c]

\* A session goes from ONLINE to DISCONNECTING only when its own connection has
\* closed or the chain that wrote it gives up: the late Disconnect of an older
\* connection, with another session id or with the same one on a gate instance
\* since restarted, never takes down the session that replaced it.
LeaseStep ==
    \A p \in Players :
        /\ session[p] # None /\ session[p].state = "ONLINE"
        /\ session'[p] # None /\ session'[p].state = "DISCONNECTING"
        => LET c == session[p].conn IN
           \/ conn[c] # "open"
           \/ \E k \in Chains : at(k, "lease") /\ chain[k].conn = c /\ chain[k].player = p

LiveSessionKept == [][LeaseStep]_vars

\* A chain that undoes its session deletes the one it wrote, never that of a
\* later login, as long as Redis keeps the locks: no chain releases another's.
UndoStep ==
    \A k \in Chains :
        at(k, "delete") /\ chain'[k].pc = "done" /\ ~lockLost =>
            LET p == chain[k].player IN
            session'[p] # session[p] => session[p].gen = chain[k].mint

UndoHitsOwn == [][UndoStep]_vars

\* A generation is above every generation minted for the player before it, also
\* after the minting key has expired and whichever replica's clock is behind.
MintStep ==
    \A k \in Chains :
        at(k, "mint") /\ chain'[k].pc = "persist" =>
            chain'[k].mint > minted[chain[k].player]

GenerationsAdvance == [][MintStep]_vars
=============================================================================
