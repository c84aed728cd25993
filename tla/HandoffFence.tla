---------------------------- MODULE HandoffFence ----------------------------
(***************************************************************************)
(* The Redis scripts that decide who may hold a player: the holder fence   *)
(* of handoff_sql_barrier.h (one record per player, changed only by compare*)
(* and set) and the ownership scripts of owner_epoch.go.                   *)
(*                                                                         *)
(* A script is an operator on the player's keys,                           *)
(*     kv = [owner, loc, mark, fence]                                      *)
(* owner: owner_epoch; loc: the placement (Location) or None;              *)
(* mark: the handoff mark [e, at] or None; fence: the holder record        *)
(* [e, node, gen, k, tok] or None.  Its value is [kv, r]: the keys after   *)
(* the script and the reply.  Each script runs atomically in Redis.        *)
(***************************************************************************)
EXTENDS Integers, Sequences

CONSTANT None

\* A fence names the epoch it holds, the node process and its admission
\* generation, the state (H held, F frozen, R revoked) and a token.
RotateFence(f, k, why) == [f EXCEPT !.k = k, !.tok = Append(@, why)]

Answer(kv, code) == [kv |-> kv, r |-> [code |-> code]]

\* The order registrations must respect: an older epoch never replaces a newer
\* one, and at the same epoch the same process must use a later generation.
Follows(cand, old) ==
    \/ old = None
    \/ cand.e > old.e
    \/ cand.e = old.e /\ cand.node = old.node /\ cand.gen > old.gen

\* The mark is deleted only if it carries the stamp of the caller.
WithoutMarkOf(kv, at) ==
    IF kv.mark # None /\ kv.mark.at = at THEN None ELSE kv.mark

\* Mutant: the mark of the previous holder survives the registration.
kRegisterFenceLua_keepMark(kv, prior, cand) ==
    IF kv.owner # cand.e THEN Answer(kv, "-1")
    ELSE IF kv.fence = cand THEN Answer(kv, "1")
    ELSE IF kv.fence # prior \/ ~Follows(cand, kv.fence) THEN Answer(kv, "-2")
    ELSE Answer([kv EXCEPT !.fence = cand], "1")

kRegisterFenceLua(kv, prior, cand) ==
    IF kv.owner # cand.e THEN Answer(kv, "-1")
    ELSE IF kv.fence = cand THEN Answer(kv, "1")
    ELSE IF kv.fence # prior \/ ~Follows(cand, kv.fence) THEN Answer(kv, "-2")
    ELSE IF kv.mark # None /\ kv.mark.e > cand.e THEN Answer(kv, "error")
    ELSE Answer([kv EXCEPT !.fence = cand, !.mark = None], "1")

kCancelRegistrationLua(kv, prior, cand, next) ==
    IF kv.owner < cand.e THEN Answer(kv, "error")
    ELSE IF kv.fence = next THEN Answer(kv, "1")
    ELSE IF kv.fence # cand /\ (kv.fence # prior \/ ~Follows(cand, prior))
         THEN Answer(kv, "0")
    ELSE Answer([kv EXCEPT !.fence = next], "1")

kConfirmFenceLua(kv, held) ==
    Answer(kv, IF kv.owner = held.e /\ kv.fence = held THEN "0" ELSE "-1")

kRevokeFenceLua(kv, held, published, next, at) ==
    IF \/ next.k = "H" /\ kv.owner # held.e
       \/ kv.fence \notin {held, published, next}
    THEN Answer(kv, "0")
    ELSE Answer([kv EXCEPT !.fence = next, !.mark = WithoutMarkOf(kv, at)], "1")

kReleaseMarkLua(kv, held, published, at) ==
    IF kv.owner # held.e THEN Answer(kv, "0")
    ELSE IF kv.fence = published THEN Answer(kv, "1")
    ELSE IF kv.fence # held THEN Answer(kv, "-2")
    ELSE Answer([kv EXCEPT !.fence = published,
                           !.mark = [e |-> held.e, at |-> at]], "1")

\* A process that holds nothing of the player any more vouches for the fence it
\* has read, in whatever state that is.
kCredentialMarkLua(kv, observed, next, at) ==
    IF kv.owner # observed.e THEN Answer(kv, "0")
    ELSE IF kv.fence = next THEN Answer(kv, "1")
    ELSE IF kv.fence # observed THEN Answer(kv, "-2")
    ELSE Answer([kv EXCEPT !.fence = next, !.mark = [e |-> observed.e, at |-> at]], "1")

\* Mutant: the mark is published whatever the fence says by now.
kPublishMarkLua_unfenced(kv, held, published, at, synced) ==
    IF kv.owner # held.e THEN Answer(kv, "-1")
    ELSE IF kv.fence = published THEN Answer(kv, "1")
    ELSE IF ~synced THEN Answer(kv, "0")
    ELSE Answer([kv EXCEPT !.fence = published,
                           !.mark = [e |-> held.e, at |-> at]], "1")

\* synced: both SQL acknowledgements have caught up with the saved version.
kPublishMarkLua(kv, held, published, at, synced) ==
    IF kv.owner # held.e THEN Answer(kv, "-1")
    ELSE IF kv.fence = published THEN Answer(kv, "1")
    ELSE IF kv.fence # held THEN Answer(kv, "-2")
    ELSE IF ~synced THEN Answer(kv, "0")
    ELSE Answer([kv EXCEPT !.fence = published,
                           !.mark = [e |-> held.e, at |-> at]], "1")

\* The verdict on a handoff: the fence is revoked and the mark, also the one a
\* rollback carried forward, withdrawn in the step that reads the ownership.
kJudgeOutcomeLua(kv, held, published, next, at) ==
    IF kv.fence \notin {held, published, next} THEN Answer(kv, "error")
    ELSE [kv |-> [kv EXCEPT !.fence = next, !.mark = WithoutMarkOf(kv, at)],
          r |-> [code |-> "verdict", owner |-> kv.owner, loc |-> kv.loc]]

kResumeFenceLua(kv, revoked, next, loc) ==
    IF kv.owner # next.e \/ kv.loc # loc \/ kv.mark # None THEN Answer(kv, "0")
    ELSE IF kv.fence = next THEN Answer(kv, "1")
    ELSE IF kv.fence # revoked THEN Answer(kv, "0")
    ELSE Answer([kv EXCEPT !.fence = next], "1")

\* A placement also carries the identity of the login it serves.
Location(node, epoch, id) == [node |-> node, epoch |-> epoch, id |-> id, receipt |-> None]

\* seen: the keys as the request observed them; needed: the mark the admission
\* relied on, None for a placement that needs no mark.
luaMintEpochAndSetLocation(kv, seen, needed, node, id) ==
    IF kv.owner # seen.owner \/ kv.loc # seen.loc THEN Answer(kv, "0")
    ELSE IF needed # None /\ kv.mark # needed THEN Answer(kv, "-1")
    ELSE Answer([kv EXCEPT !.owner = @ + 1,
                           !.loc = Location(node, kv.owner + 1, id)], "1")

luaSetLocationIfEpoch(kv, seen, node, id) ==
    IF kv.owner # seen.owner \/ kv.loc # seen.loc THEN Answer(kv, "0")
    ELSE Answer([kv EXCEPT !.loc = Location(node, kv.owner, id)], "1")

\* Mutant: the placement is undone even when the target took the mark.
luaRollbackPlayerPlacement_anyMark(kv, placed, before, needed) ==
    IF kv.loc # placed \/ kv.owner # placed.epoch THEN Answer(kv, "0")
    ELSE Answer([kv EXCEPT
            !.owner = @ + 1,
            !.loc = IF before = None THEN None
                    ELSE [before EXCEPT !.epoch = kv.owner + 1, !.receipt = needed],
            !.mark = IF needed = None THEN @ ELSE [needed EXCEPT !.e = kv.owner + 1]], "1")

\* Undo of a minted placement: never back to the old epoch but on to the next
\* one; the mark is carried forward with its stamp and, as the receipt, kept in
\* the restored placement.
luaRollbackPlayerPlacement(kv, placed, before, needed) ==
    IF kv.loc # placed \/ kv.owner # placed.epoch THEN Answer(kv, "0")
    ELSE IF needed # None /\ kv.mark # needed THEN Answer(kv, "3")
    ELSE Answer([kv EXCEPT
            !.owner = @ + 1,
            !.loc = IF before = None THEN None
                    ELSE [before EXCEPT !.epoch = kv.owner + 1, !.receipt = needed],
            !.mark = IF needed = None THEN @ ELSE [needed EXCEPT !.e = kv.owner + 1]], "1")
=============================================================================
