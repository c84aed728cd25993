---------------------------- MODULE TravelHandoff ---------------------------
(***************************************************************************)
(* The handoff of one player between scene nodes: the holder freezes and   *)
(* saves the player, publishes a handoff mark, asks the scene manager for  *)
(* the move, and destroys or resumes its copy when the outcome is known.   *)
(* player_lifecycle.cpp and role_admission_system.cpp are the scene node,  *)
(* enterscenelogic.go and owner_epoch.go the scene manager; HandoffFence   *)
(* holds the Redis scripts.                                                *)
(*                                                                         *)
(* Redis commands travel in wire: a command runs once at some time, its    *)
(* reply comes back or the connection is lost, and then the command may    *)
(* still run late or never.  Scene nodes may crash.                        *)
(***************************************************************************)
EXTENDS HandoffFence, FiniteSets, Functions

CONSTANTS
    Nodes,      \* scene node processes; a restarted process is a new node
    Home,       \* the node that holds the player at first
    Away,       \* the target of a move into another zone
    MaxReq,     \* EnterScene requests
    MaxGen,     \* admissions
    MaxStamp,   \* handoffs and release marks
    MaxVersion, \* changes of the player's data
    MaxLost,    \* lost Redis connections
    MaxFail,    \* failed or lost scene manager and Redis answers
    MaxCrash    \* crashed nodes

VARIABLES
    kv,       \* the player's ownership keys in Redis (see HandoffFence)
    disk,     \* version of the saved player data
    latest,   \* version the player has really reached
    up,       \* node processes that are running
    ent,      \* node -> its player entity or None
    adm,      \* node -> the admission under way or None
    pend,     \* node -> the entry that waits for its load or None
    owed,     \* node -> withdrawals that are not confirmed yet
    wire,     \* node -> its Redis connection: commands in order, with their replies
    late,     \* commands of lost connections that may still run
    sm,       \* EnterScene requests at the scene manager
    routes,   \* routes on their way to scene nodes
    releases, \* requests to release a player whose session has ended
    used      \* budgets used up so far; undone: see Unprotected

worldVars == <<disk, latest, up>>
nodeVars == <<ent, adm, pend, owed>>
netVars == <<wire, late>>
smVars == <<sm, routes, releases>>
vars == <<kv, disk, latest, up, ent, adm, pend, owed, wire, late, sm, routes, releases, used>>

Use(b) == used' = [used EXCEPT ![b] = @ + 1]

\* A player entity fresh from its load.
Copy(held, data) ==
    [epoch |-> held.e, fence |-> held, mem |-> data, saved |-> TRUE,
     exiting |-> FALSE, issued |-> FALSE, travel |-> None]

\* The player was placed on Home and has entered there.
Init ==
    LET held == [e |-> 1, node |-> Home, gen |-> 1, k |-> "H", tok |-> <<>>]
    IN  /\ kv = [owner |-> 1, loc |-> Location(Home, 1, 0),
                 mark |-> None, fence |-> held]
        /\ disk = 0 /\ latest = 0 /\ up = Nodes
        /\ ent = [[n \in Nodes |-> None] EXCEPT ![Home] = Copy(held, 0)]
        /\ adm = [n \in Nodes |-> None]
        /\ pend = [n \in Nodes |-> None]
        /\ owed = [n \in Nodes |-> {}]
        /\ wire = [n \in Nodes |-> <<>>] /\ late = {} /\ sm = {} /\ routes = {}
        /\ releases = {}
        /\ used = [req |-> 0, gen |-> 1, stamp |-> 0, lost |-> 0, fail |-> 0, crash |-> 0, undone |-> 0]

-----------------------------------------------------------------------------
(* Helpers on one node's entity.                                           *)

Travel(n) == IF ent[n] = None THEN None ELSE ent[n].travel
Free(n) == ent[n] # None /\ ent[n].travel = None
Requested(n) == Travel(n) # None /\ Travel(n).at # 0

SetTravel(n, t) == ent' = [ent EXCEPT ![n].travel = t]
DestroyDeposedPlayer(n) == ent' = [ent EXCEPT ![n] = None]

Unanswered == [code |-> "none"]

Command(op, n, held, published, next, at, loc) ==
    [op |-> op, node |-> n, held |-> held, published |-> published, next |-> next,
     at |-> at, loc |-> loc, r |-> Unanswered]

\* sent: the commands of the connection before.
Send(n, sent, c) == wire' = [wire EXCEPT ![n] = Append(sent, c)]
SentOnly(n, sent) == wire' = [wire EXCEPT ![n] = sent]

Published(t) == IF t.published = None THEN t.holder ELSE t.published
-----------------------------------------------------------------------------
(* Scene manager: EnterScene.                                              *)

Request(by, at, to) ==
    [id |-> used.req + 1, by |-> by, at |-> at, to |-> to, step |-> "new", seen |-> None, needed |-> None,
     mint |-> FALSE, placed |-> None]

\* A login or re-login asks for the player to be placed.
Login(to) ==
    /\ used.req < MaxReq /\ Use("req")
    /\ sm' = sm \cup {Request(None, 0, to)}
    /\ UNCHANGED <<kv, worldVars, nodeVars, netVars, routes, releases>>

\* Nobody waits at a node for the answer to a login.
SmStep(q, q2) ==
    sm' = (sm \ {q}) \cup (IF q.by = None /\ q2.step \in {"done", "refused"} THEN {} ELSE {q2})

\* The owner is unknown, awaiting placement or its node is dead.
Unowned(loc) == loc = None \/ loc.node \notin up

\* One observation of placement and epoch; a move off a living node needs a
\* mark of the observed epoch (requireHandoffCommitted).  A redirect of a player
\* nobody holds changes nothing.
Observe(q) ==
    LET sameNode == ~Unowned(kv.loc) /\ kv.loc.node = q.to
        committed == kv.mark # None /\ kv.mark.e = kv.owner
        q2 == [q EXCEPT !.step = "seen", !.seen = [owner |-> kv.owner, loc |-> kv.loc],
                        !.mint = ~sameNode]
    IN  /\ q.step = "new"
        /\ SmStep(q, CASE Unowned(kv.loc) /\ q.to = Away -> [q EXCEPT !.step = "done"]
                       [] Unowned(kv.loc) \/ sameNode     -> q2
                       [] committed                       -> [q2 EXCEPT !.needed = kv.mark]
                       [] OTHER                           -> [q EXCEPT !.step = "refused"])
        /\ releases' = releases \cup
              (IF Unowned(kv.loc) \/ sameNode \/ committed \/ q.by # None \/ q.to = Away THEN {}
               ELSE {[to |-> kv.loc.node, epoch |-> kv.owner]})
        /\ UNCHANGED <<kv, worldVars, nodeVars, netVars, routes, used>>

\* The placement is written; a conflict or a withdrawn mark refuses the request.
Place(q) ==
    LET a == IF q.mint THEN luaMintEpochAndSetLocation(kv, q.seen, q.needed, q.to, q.id)
             ELSE luaSetLocationIfEpoch(kv, q.seen, q.to, q.id)
    IN  /\ q.step = "seen"
        /\ kv' = a.kv
        /\ SmStep(q, IF a.r.code = "1" THEN [q EXCEPT !.step = "placed", !.placed = a.kv.loc]
                     ELSE [q EXCEPT !.step = "refused"])
        /\ UNCHANGED <<worldVars, nodeVars, netVars, routes, releases, used>>

RouteOf(q) == IF q.to = Away THEN {} ELSE {[to |-> q.to, epoch |-> q.placed.epoch]}

\* The route is handed to the gate's topic.
RoutePlayerToNode(q) ==
    /\ q.step = "placed"
    /\ routes' = routes \cup RouteOf(q)
    /\ SmStep(q, [q EXCEPT !.step = "done"])
    /\ UNCHANGED <<kv, worldVars, nodeVars, netVars, used, releases>>

\* The push fails; the route may have been delivered all the same.
RouteFails(q) ==
    /\ q.step = "placed" /\ used.fail < MaxFail /\ Use("fail")
    /\ routes' \in {routes, routes \cup RouteOf(q)}
    /\ SmStep(q, [q EXCEPT !.step = "failed"])
    /\ UNCHANGED <<kv, worldVars, nodeVars, netVars, releases>>

\* A dead owner's placement counts as none.
Before(q) == IF q.needed = None /\ q.seen.loc # None /\ q.seen.loc.node \in Nodes THEN None ELSE q.seen.loc

\* The residual owner_epoch.go names: no token protects a placement minted without
\* a mark, so its undo may follow a delivered route of its epoch.
Unprotected(q) ==
    /\ q.mint /\ q.needed = None /\ RouteOf(q) \cap routes # {} /\ kv.loc = q.placed /\ kv.owner = q.placed.epoch

rollbackPlayerPlacement(q) ==
    /\ q.step = "failed"
    /\ IF Unprotected(q) THEN Use("undone") ELSE UNCHANGED used
    /\ kv' = IF q.mint THEN luaRollbackPlayerPlacement(kv, q.placed, Before(q), q.needed).kv
             ELSE IF kv.loc = q.placed /\ kv.owner = q.placed.epoch
             THEN [kv EXCEPT !.loc = q.seen.loc]
             ELSE kv
    /\ SmStep(q, [q EXCEPT !.step = "refused"])
    /\ UNCHANGED <<worldVars, nodeVars, netVars, routes, releases>>
-----------------------------------------------------------------------------
(* The node that holds the player.                                         *)

\* An exit wins over a handoff: what the handoff may have published is to be
\* withdrawn; the queue repeats the command until it is confirmed.
WithdrawHandoffMark(n) ==
    LET t == Travel(n)
    IN  owed' = [owed EXCEPT ![n] = @ \cup {[held |-> t.holder, published |-> Published(t), at |-> t.at,
                                            next |-> RotateFence(t.holder, "R", "withdraw")]}]

FlushDueHandoffWithdrawals(n, w) ==
    /\ w \in owed[n]
    /\ kv' = kRevokeFenceLua(kv, w.held, w.published, w.next, w.at).kv
    /\ owed' \in {owed, [owed EXCEPT ![n] = @ \ {w}]}
    /\ UNCHANGED <<worldVars, ent, adm, pend, netVars, smVars, used>>

\* The player does something that has to be saved.
Play(n) ==
    /\ Free(n) /\ latest < MaxVersion
    /\ latest' = latest + 1
    /\ ent' = [ent EXCEPT ![n].mem = latest', ![n].saved = FALSE]
    /\ UNCHANGED <<kv, disk, up, adm, pend, owed, netVars, smVars, used>>

\* A save lands if the epoch of the entity is still the owner's; a rejected one
\* destroys the entity.  A requested handoff saves no more.
Save(n) ==
    /\ ent[n] # None /\ ~ent[n].saved /\ ~Requested(n)
    /\ IF kv.owner # ent[n].epoch
       THEN DestroyDeposedPlayer(n) /\ UNCHANGED <<disk, owed>>
       ELSE /\ disk' = ent[n].mem
            /\ IF ent[n].exiting /\ Travel(n) # None
               THEN /\ ent' = [ent EXCEPT ![n].saved = TRUE, ![n].travel = None, ![n].issued = TRUE]
                    /\ WithdrawHandoffMark(n)
               ELSE ent' = [ent EXCEPT ![n].saved = TRUE] /\ UNCHANGED owed
    /\ UNCHANGED <<kv, latest, up, adm, pend, netVars, smVars, used>>

StartTravelHandoff(n) ==
    /\ Free(n) /\ ~ent[n].exiting /\ owed[n] = {} /\ pend[n] = None
    /\ ent[n].fence.k = "H" /\ ent[n].fence.e = ent[n].epoch
    /\ used.stamp < MaxStamp /\ Use("stamp")
    /\ SetTravel(n, [at |-> 0, stamp |-> used.stamp + 1, holder |-> ent[n].fence, published |-> None, revoked |-> None,
                     resume |-> None, resumeLoc |-> None, cancel |-> None, pending |-> FALSE,
                     armed |-> FALSE])
    /\ UNCHANGED <<kv, worldVars, adm, pend, owed, netVars, smVars>>

\* The save has landed: publish the mark.
BeginTravelHandoff(n) ==
    LET t == Travel(n)
        f == IF t.published = None THEN RotateFence(t.holder, "F", "publish") ELSE t.published
    IN  /\ t # None /\ t.at = 0 /\ ent[n].saved /\ ~ent[n].exiting
        /\ SetTravel(n, [t EXCEPT !.at = t.stamp, !.published = f])
        /\ Send(n, wire[n], Command("publish", n, t.holder, t.holder, f, t.stamp, None))
        /\ UNCHANGED <<kv, worldVars, adm, pend, owed, smVars, used, late>>

\* The cancel command of AbortTravelHandoff and the travel record that waits for it.
CancelFence(t) ==
    IF t.cancel = None THEN RotateFence(t.holder, "H", "cancel") ELSE t.cancel

AbortTravelHandoff(n, t, sent) ==
    IF t.pending THEN SentOnly(n, sent) /\ UNCHANGED ent
    ELSE /\ SetTravel(n, [t EXCEPT !.pending = TRUE, !.cancel = CancelFence(t)])
         /\ Send(n, sent, Command("cancel", n, t.holder, Published(t), CancelFence(t), t.at, None))

\* Before the mark is sent the handoff can still be called off: the window has
\* closed, Redis is down or the save does not land in time.
CallOff(n) ==
    /\ Travel(n) # None /\ Travel(n).at = 0
    /\ AbortTravelHandoff(n, Travel(n), wire[n])
    /\ UNCHANGED <<kv, worldVars, adm, pend, owed, smVars, used, late>>

\* The resumption is decided once; a later verdict may only repeat it.
ResumeTravelAfterRevocation(n, t, epoch, loc, sent) ==
    LET f == IF t.resume # None THEN t.resume
             ELSE [RotateFence(t.revoked, "H", "resume") EXCEPT !.e = epoch]
        at == IF t.resume # None THEN t.resumeLoc ELSE loc
    IN  IF t.pending \/ f.e # epoch \/ at # loc
        THEN SetTravel(n, t) /\ SentOnly(n, sent)
        ELSE /\ SetTravel(n, [t EXCEPT !.pending = TRUE, !.resume = f, !.resumeLoc = at])
             /\ Send(n, sent, Command("resume", n, t.revoked, None, f, t.at, at))

\* Ask Redis what became of the handoff, or repeat the resumption decided.
ResolveTravelOutcome(n, t, sent) ==
    LET f == IF t.revoked = None THEN RotateFence(t.holder, "R", "judge") ELSE t.revoked
    IN  IF t.resume # None THEN ResumeTravelAfterRevocation(n, t, t.resume.e, t.resumeLoc, sent)
        ELSE /\ SetTravel(n, [t EXCEPT !.revoked = f])
             /\ Send(n, sent, Command("judge", n, t.holder, Published(t), f, t.at, None))

\* The answer to EnterScene never came.
TravelReplyWatchdog(n) ==
    /\ Requested(n) /\ Travel(n).armed
    /\ ResolveTravelOutcome(n, [Travel(n) EXCEPT !.armed = FALSE], wire[n])
    /\ UNCHANGED <<kv, worldVars, adm, pend, owed, smVars, used, late>>

\* EnterScene answered.  A redirect into another zone ends the copy at once;
\* every other answer is only a reason to ask Redis.
HandleTravelEnterSceneReply(q) ==
    LET mine == q.by \in up /\ Requested(q.by) /\ Travel(q.by).at = q.at
    IN  /\ q.step \in {"done", "refused"}
        /\ sm' = sm \ {q}
        /\ IF ~mine THEN UNCHANGED <<ent, wire>>
           ELSE IF q.step = "done" /\ q.to = Away
           THEN DestroyDeposedPlayer(q.by) /\ UNCHANGED wire
           ELSE ResolveTravelOutcome(q.by, [Travel(q.by) EXCEPT !.armed = FALSE], wire[q.by])
        /\ UNCHANGED <<kv, worldVars, adm, pend, owed, routes, releases, used, late>>

\* The answer is lost, or nobody waits for it.
AnswerLost(q) ==
    /\ q.step \in {"done", "refused"} /\ q.by # None
    /\ used.fail < MaxFail /\ Use("fail")
    /\ sm' = sm \ {q}
    /\ UNCHANGED <<kv, worldVars, nodeVars, netVars, routes, releases>>

\* The freeze cap: no save is under way, so the copy can go without saving.  A
\* mark that was sent is left alone.
ExpireTravelFreeze(n) ==
    /\ Travel(n) # None
    /\ Requested(n) \/ ent[n].saved
    /\ DestroyDeposedPlayer(n)
    /\ UNCHANGED <<kv, worldVars, adm, pend, owed, netVars, smVars, used>>
-----------------------------------------------------------------------------
(* The end of an exit.                                                     *)

HandleExitGameNode(n) ==
    /\ ent[n] # None /\ ~ent[n].exiting
    /\ ent' = [ent EXCEPT ![n].exiting = TRUE]
    /\ UNCHANGED <<kv, worldVars, adm, pend, owed, netVars, smVars, used>>

\* A release mark for the node to which the player comes next.
SendConditionalMarkWrite(n, held) ==
    /\ used.stamp < MaxStamp /\ Use("stamp")
    /\ Send(n, wire[n], Command("release", n, held, held, RotateFence(held, "F", "release"),
                                  used.stamp + 1, None))

\* Everything is saved.  An exit that overtook a handoff writes no release mark;
\* nor do some causes of an exit.
FinishExitAfterPersist(n) ==
    /\ ent[n] # None /\ ent[n].exiting /\ (ent[n].saved \/ Requested(n))
    /\ DestroyDeposedPlayer(n)
    /\ IF Travel(n) # None THEN WithdrawHandoffMark(n) ELSE UNCHANGED owed
    /\ \/ UNCHANGED <<wire, used>>
       \/ Travel(n) = None /\ ~ent[n].issued /\ SendConditionalMarkWrite(n, ent[n].fence)
    /\ UNCHANGED <<kv, worldVars, adm, pend, smVars, late>>
-----------------------------------------------------------------------------
(* Admission of a player at a node.                                        *)

\* A route arrives, maybe again.  The fence is read first; registering is a
\* compare and set against what was read.
RequestEnter(n, rt) ==
    LET cand == [e |-> rt.epoch, node |-> n, gen |-> used.gen + 1, k |-> "H", tok |-> <<>>]
    IN  /\ n \in up /\ rt.to = n /\ adm[n] = None
        /\ used.gen < MaxGen /\ Use("gen")
        /\ adm' = [adm EXCEPT ![n] = [cand |-> cand, prior |-> kv.fence, waiting |-> TRUE]]
        /\ Send(n, wire[n], Command("register", n, kv.fence, None, cand, 0, None))
        /\ UNCHANGED <<kv, worldVars, ent, pend, owed, smVars, late>>

\* The registration was given up; the next admission waits until it is undone.
CancelPendingFence(n) ==
    LET a == adm[n]
        s == kCancelRegistrationLua(kv, a.prior, a.cand, RotateFence(a.cand, "R", "cancel"))
    IN  /\ a # None /\ ~a.waiting
        /\ kv' = s.kv
        /\ IF s.r.code = "error" THEN UNCHANGED adm ELSE adm' \in {adm, [adm EXCEPT ![n] = None]}
        /\ UNCHANGED <<worldVars, ent, pend, owed, netVars, smVars, used>>

\* A copy left behind by a handoff, or two epochs behind, is not the player.
IsStaleCopy(x, epoch) ==
    \/ x.travel # None /\ x.travel.at # 0 /\ epoch > x.epoch
    \/ epoch >= x.epoch + 2

\* HandleEnterGameNode after the registration: enter the copy that is here, or
\* load the player.
Activate(n, cand) ==
    /\ adm' = [adm EXCEPT ![n] = None]
    /\ IF ent[n] # None /\ ~IsStaleCopy(ent[n], cand.e)
       THEN /\ ent' = [ent EXCEPT ![n].epoch = cand.e, ![n].fence = cand, ![n].exiting = FALSE,
                                 ![n].issued = FALSE, ![n].travel = None]
            /\ UNCHANGED pend
       ELSE /\ DestroyDeposedPlayer(n)
            /\ pend' = [pend EXCEPT ![n] = [fence |-> cand, ok |-> FALSE,
                                           data |-> IF pend[n] = None THEN None ELSE pend[n].data]]

\* SendInheritClear: the entry goes on only while its registration stands.
ConfirmEntry(n) ==
    /\ pend[n] # None /\ ~pend[n].ok
    /\ pend' = [pend EXCEPT ![n] = IF kConfirmFenceLua(kv, pend[n].fence).r.code = "0"
                                   THEN [@ EXCEPT !.ok = TRUE] ELSE None]
    /\ UNCHANGED <<kv, worldVars, ent, adm, owed, netVars, smVars, used>>

LoadPlayer(n) ==
    /\ pend[n] # None /\ pend[n].data = None
    /\ pend' = [pend EXCEPT ![n].data = disk]
    /\ UNCHANGED <<kv, worldVars, ent, adm, owed, netVars, smVars, used>>

HandlePlayerAsyncLoaded(n) ==
    LET p == pend[n]
    IN  /\ p # None /\ p.ok /\ p.data # None
        /\ ent' = [ent EXCEPT ![n] = Copy(p.fence, p.data)]
        /\ pend' = [pend EXCEPT ![n] = None]
        /\ UNCHANGED <<kv, worldVars, adm, owed, netVars, smVars, used>>

\* The session ended during the load; the mark may be written again.
AbandonInheritClear(n) ==
    /\ pend[n] # None /\ pend[n].data # None
    /\ pend' = [pend EXCEPT ![n] = None]
    /\ SendConditionalMarkWrite(n, pend[n].fence) \/ UNCHANGED <<wire, used>>
    /\ UNCHANGED <<kv, worldVars, ent, adm, owed, smVars, late>>
-----------------------------------------------------------------------------
(* The release of a player whose session has ended.                        *)

\* DecideSessionEndedCredential: this process has nothing of the player left.
HoldsNothing(n) == ent[n] = None /\ pend[n] = None /\ adm[n] = None

\* A holder of the epoch in question exits; a process without the player reads
\* the fence, to vouch for it.
HandleSessionEndedRelease(n, rel) ==
    /\ rel.to = n /\ n \in up
    /\ releases' = releases \ {rel}
    /\ ent' = IF ent[n] # None /\ ~Requested(n) /\ ent[n].epoch = rel.epoch
              THEN [ent EXCEPT ![n].exiting = TRUE] ELSE ent
    /\ IF HoldsNothing(n)
       THEN Send(n, wire[n], Command("read", n, None, None, None, rel.epoch, None))
       ELSE UNCHANGED wire
    /\ UNCHANGED <<kv, worldVars, adm, pend, owed, late, sm, routes, used>>

\* OnSessionEndedQualificationRead
CredentialReply(n, epoch, r, sent) ==
    IF /\ r.code = "fence" /\ HoldsNothing(n) /\ r.fence # None
       /\ r.fence.node = n /\ r.fence.e = epoch /\ used.stamp < MaxStamp
    THEN /\ Use("stamp")
         /\ Send(n, sent, Command("credential", n, r.fence, r.fence,
                                  RotateFence(r.fence, "F", "credential"), used.stamp + 1, None))
    ELSE SentOnly(n, sent) /\ UNCHANGED used
-----------------------------------------------------------------------------
(* Redis commands and their replies.                                       *)

Script(c, synced) ==
    CASE c.op = "publish"  -> kPublishMarkLua(kv, c.held, c.next, c.at, synced)
      [] c.op = "judge"    -> kJudgeOutcomeLua(kv, c.held, c.published, c.next, c.at)
      [] c.op = "resume"   -> kResumeFenceLua(kv, c.held, c.next, c.loc)
      [] c.op = "cancel"   -> kRevokeFenceLua(kv, c.held, c.published, c.next, c.at)
      [] c.op = "release"  -> kReleaseMarkLua(kv, c.held, c.next, c.at)
      [] c.op = "read"     -> [kv |-> kv, r |-> [code |-> "fence", fence |-> kv.fence]]
      [] c.op = "credential" -> kCredentialMarkLua(kv, c.held, c.next, c.at)
      [] c.op = "register" -> kRegisterFenceLua(kv, c.held, c.next)

\* A connection runs its commands in order.
Execute(n) ==
    /\ \E i \in DOMAIN wire[n], synced \in BOOLEAN :
          LET c == wire[n][i]
              a == Script(c, synced)
          IN  /\ c.r = Unanswered /\ \A j \in 1 .. i - 1 : wire[n][j].r # Unanswered
              /\ kv' = a.kv
              /\ wire' = [wire EXCEPT ![n][i].r = a.r]
    /\ UNCHANGED <<worldVars, nodeVars, late, smVars, used>>

\* Redis refuses the command and changes nothing.
Refuse(n) ==
    /\ used.fail < MaxFail /\ Use("fail")
    /\ \E i \in DOMAIN wire[n] :
          /\ wire[n][i].r = Unanswered /\ \A j \in 1 .. i - 1 : wire[n][j].r # Unanswered
          /\ wire' = [wire EXCEPT ![n][i].r = [code |-> "error"]]
    /\ UNCHANGED <<kv, worldVars, nodeVars, late, smVars>>

Unexecuted(n) == {c \in Range(wire[n]) : c.r = Unanswered}

\* A connection is lost: its callbacks get no reply, and a command that has not
\* run yet may still do so.
ConnectionLost(n) ==
    /\ wire[n] # <<>> /\ used.lost < MaxLost /\ Use("lost")
    /\ wire' = [wire EXCEPT ![n] = [i \in DOMAIN @ |-> [@[i] EXCEPT !.r = [code |-> "lost"]]]]
    /\ late' = late \cup Unexecuted(n)
    /\ UNCHANGED <<kv, worldVars, nodeVars, smVars>>

ExecuteLate(c) ==
    /\ late' = late \ {c}
    /\ \E synced \in BOOLEAN : kv' = Script(c, synced).kv
    /\ UNCHANGED <<worldVars, nodeVars, wire, smVars, used>>

\* The mark is out: ask the scene manager, or end here if that cannot be done.
RequestTravelEnterScene(n, t, sent) ==
    /\ SentOnly(n, sent)
    /\ \/ DestroyDeposedPlayer(n) /\ UNCHANGED <<sm, used>>
       \/ /\ used.req < MaxReq /\ Use("req")
          /\ \E to \in Nodes \cup {Away} : sm' = sm \cup {Request(n, t.at, to)}
          /\ SetTravel(n, [t EXCEPT !.armed = TRUE])

PublishReply(n, r, sent) ==
    LET t == Travel(n)
    IN  IF r.code = "1" THEN RequestTravelEnterScene(n, t, sent)
        ELSE /\ CASE r.code = "lost"  -> ResolveTravelOutcome(n, t, sent)
                  [] r.code = "error" -> AbortTravelHandoff(n, t, sent)
                  [] r.code = "0"     -> SetTravel(n, [t EXCEPT !.at = 0]) /\ SentOnly(n, sent)
                  [] OTHER            -> DestroyDeposedPlayer(n) /\ SentOnly(n, sent)
             /\ UNCHANGED <<sm, used>>

\* ClassifyOwnership: unchanged, or rolled back to this node by its own receipt.
MayResume(n, t, v) ==
    \/ v.owner = ent[n].epoch
    \/ /\ v.loc # None /\ v.loc.receipt = [e |-> ent[n].epoch, at |-> t.at]
       /\ v.owner = ent[n].epoch + 2 /\ v.loc.epoch = v.owner /\ v.loc.node = n

JudgeTravelOutcomeReply(n, r, sent) ==
    LET t == Travel(n)
    IN  IF r.code # "verdict" THEN SetTravel(n, [t EXCEPT !.armed = TRUE]) /\ SentOnly(n, sent)
        ELSE IF MayResume(n, t, r) THEN ResumeTravelAfterRevocation(n, t, r.owner, r.loc, sent)
        ELSE DestroyDeposedPlayer(n) /\ SentOnly(n, sent)

\* A confirmed new holder fence ends the freeze; without it the copy stays frozen.
ThawReply(n, next, r, sent) ==
    /\ ent' = IF r.code = "1" THEN [ent EXCEPT ![n].epoch = next.e, ![n].fence = next, ![n].travel = None]
              ELSE [ent EXCEPT ![n].travel.pending = FALSE]
    /\ SentOnly(n, sent)

\* A registration that stays unanswered is sent again as it was, or given up; a
\* refused one is given up, its expectation being fixed.
RegisterReply(n, c, r, sent) ==
    \/ /\ r.code = "1" /\ Activate(n, c.next) /\ SentOnly(n, sent)
    \/ /\ r.code = "lost" /\ Send(n, sent, [c EXCEPT !.r = Unanswered]) /\ UNCHANGED <<ent, adm, pend>>
    \/ /\ r.code # "1" /\ adm' = [adm EXCEPT ![n].waiting = FALSE] /\ SentOnly(n, sent) /\ UNCHANGED <<ent, pend>>

\* A reply is for the handoff or the admission that sent the command, or ignored.
IsCurrent(c) ==
    LET t == Travel(c.node)
        a == adm[c.node]
    IN  CASE c.op = "register" -> a # None /\ a.waiting /\ a.cand = c.next
          [] c.op = "publish"  -> t # None /\ t.at = c.at /\ t.holder = c.held /\ ~t.pending
          [] c.op = "judge"    -> t # None /\ t.at = c.at /\ t.revoked = c.next
          [] c.op = "resume"   -> t # None /\ t.resume = c.next
          [] c.op = "cancel"   -> t # None /\ t.cancel = c.next
          [] OTHER             -> c.op = "read"

Reply(n, c, sent) ==
    /\ CASE ~IsCurrent(c)      -> SentOnly(n, sent) /\ UNCHANGED <<ent, adm, pend, sm, used>>
         [] c.op = "register" -> RegisterReply(n, c, c.r, sent) /\ UNCHANGED <<sm, used>>
         [] c.op = "read"     -> CredentialReply(n, c.at, c.r, sent) /\ UNCHANGED <<ent, adm, pend, sm>>
         [] c.op = "publish"  -> PublishReply(n, c.r, sent) /\ UNCHANGED <<adm, pend>>
         [] c.op = "judge"    -> JudgeTravelOutcomeReply(n, c.r, sent) /\ UNCHANGED <<adm, pend, sm, used>>
         [] OTHER             -> ThawReply(n, c.next, c.r, sent) /\ UNCHANGED <<adm, pend, sm, used>>
    /\ UNCHANGED <<kv, worldVars, owed, routes, releases, late>>

Answered(n) ==
    /\ wire[n] # <<>> /\ Head(wire[n]).r # Unanswered
    /\ Reply(n, Head(wire[n]), Tail(wire[n]))

\* A node dies with what it had not saved; its commands may still be on the way.
Crash(n) ==
    /\ n \in up /\ used.crash < MaxCrash /\ Use("crash")
    /\ up' = up \ {n}
    /\ ent' = [ent EXCEPT ![n] = None] /\ adm' = [adm EXCEPT ![n] = None]
    /\ pend' = [pend EXCEPT ![n] = None] /\ owed' = [owed EXCEPT ![n] = {}]
    /\ latest' = IF ent[n] # None /\ ent[n].mem = latest /\ ~ent[n].saved THEN disk ELSE latest
    /\ wire' = [wire EXCEPT ![n] = <<>>] /\ late' = late \cup Unexecuted(n)
    /\ UNCHANGED <<kv, disk, smVars>>
-----------------------------------------------------------------------------
Next ==
    \/ \E to \in Nodes : Login(to)
    \/ \E q \in sm : \/ Observe(q) \/ Place(q) \/ RoutePlayerToNode(q) \/ RouteFails(q)
                      \/ rollbackPlayerPlacement(q) \/ HandleTravelEnterSceneReply(q) \/ AnswerLost(q)
    \/ \E n \in Nodes :
          \/ Play(n) \/ Save(n) \/ StartTravelHandoff(n) \/ BeginTravelHandoff(n) \/ CallOff(n)
          \/ TravelReplyWatchdog(n) \/ ExpireTravelFreeze(n)
          \/ HandleExitGameNode(n) \/ FinishExitAfterPersist(n)
          \/ \E w \in owed[n] : FlushDueHandoffWithdrawals(n, w)
          \/ \E rt \in routes : RequestEnter(n, rt)
          \/ CancelPendingFence(n) \/ ConfirmEntry(n) \/ LoadPlayer(n)
          \/ HandlePlayerAsyncLoaded(n) \/ AbandonInheritClear(n) \/ Crash(n)
          \/ Execute(n) \/ Refuse(n) \/ ConnectionLost(n) \/ Answered(n)
          \/ \E rel \in releases : HandleSessionEndedRelease(n, rel)
    \/ \E c \in late : ExecuteLate(c)

Spec == Init /\ [][Next]_vars
-----------------------------------------------------------------------------
HandoffTypeOK ==
    /\ kv.owner \in Nat /\ disk \in 0 .. MaxVersion /\ latest \in 0 .. MaxVersion
    /\ up \subseteq Nodes /\ \A n \in Nodes \ up : ent[n] = None /\ pend[n] = None /\ adm[n] = None
    /\ kv.loc # None => kv.loc.node \in Nodes \cup {Away} /\ kv.loc.epoch <= kv.owner
    /\ \A n \in Nodes : ent[n] # None => ent[n].epoch \in 1 .. kv.owner /\ ent[n].fence.node = n

\* At most one node has a copy of the player that is not frozen in a handoff, and
\* the epoch of that copy is the owner's: a copy is thawed (JudgeTravelOutcomeReply,
\* AbortTravelHandoff) or entered (HandleEnterGameNode) only while no other node
\* can still be granted the player, whatever commands are late, lost or repeated
\* (unless an unprotected placement was undone).
OneHolder ==
    used.undone = 0 =>
    /\ \A n \in Nodes : Free(n) => ent[n].epoch = kv.owner
    /\ \A m, n \in Nodes : Free(m) /\ Free(n) => m = n

\* While a handoff mark of the current epoch stands, which lets EnterScene give
\* the player to any node (requireHandoffCommitted), the player's data is saved to
\* the last change and no node changes it: a late mark write never outlives a
\* thaw, a registration or a withdrawal (unless an unprotected placement was undone).
MarkIsHonest ==
    used.undone = 0 /\ kv.mark # None /\ kv.mark.e = kv.owner => disk = latest /\ \A n \in Nodes : ~Free(n)

\* A copy that is not frozen has every change the player ever made that was not
\* lost with a crashed node: no copy was loaded before the last save of the one
\* before it landed (InitPlayerFromAllData), and none was destroyed unsaved (unless
\* an unprotected placement was undone).
NothingLost ==
    /\ HandoffTypeOK
    /\ used.undone = 0 => \A n \in Nodes : Free(n) => ent[n].mem = latest
=============================================================================
