---------------------------- MODULE ScenePlacement ----------------------------
(***************************************************************************)
(* player:{id}:location of scene_manager, as far as the end of a session   *)
(* is concerned: EnterScene writes it with the identity of the login,      *)
(* LeaveScene deletes it on behalf of an ended session, once the scene     *)
(* node that holds the player has released it.                             *)
(*                                                                         *)
(* Every location here is tagged with the owner revision of its role:      *)
(* EnterScene refuses a request without one (enterscenelogic.go:140-149).  *)
(* Roles do not change hands and stored locations are never corrupt, so    *)
(* the revision matches wherever it is compared.                           *)
(***************************************************************************)
EXTENDS Integers

CONSTANTS
    Players,
    SessionIds,     \* valid session ids
    MaxGeneration,
    None

VARIABLES
    location,   \* the identity in player:{id}:location, or None
    released    \* is there proof that the holder released the player?

\* gen 0: written or asked for by a release without login generations.
placementIdentity == [sid : SessionIds, gen : 0..MaxGeneration]

SceneTypeOK ==
    /\ location \in [Players -> placementIdentity \cup {None}]
    /\ released \in [Players -> BOOLEAN]

SceneInit ==
    /\ location = [p \in Players |-> None]
    /\ released = [p \in Players |-> FALSE]

-----------------------------------------------------------------------------
(* Identity verdicts *)

\* The identity an admitted EnterScene writes; None if it is refused (stale
\* generation, or an equal one with another session).
decidePlacementIdentity(cur, req) ==
    IF cur = None THEN req
    ELSE IF req.sid = cur.sid
    THEN [cur EXCEPT !.gen = IF req.gen > cur.gen THEN req.gen ELSE cur.gen]
    ELSE IF req.gen = 0 THEN (IF cur.gen # 0 THEN cur ELSE req)
    ELSE IF req.gen > cur.gen THEN req
    ELSE None

\* Mutant: the location is taken for the leaving session's if the ids match.
decideLeaveIdentity_bySessionId(loc, req) ==
    IF req.gen = 0 \/ loc.gen = 0 THEN "legacy"
    ELSE IF loc.sid # req.sid THEN "keep_conflict" ELSE "deleted"

decideLeaveIdentity(loc, req) ==
    IF req.gen = 0 \/ loc.gen = 0 THEN "legacy"
    ELSE IF loc.gen > req.gen THEN "keep_newer"
    ELSE IF loc.gen = req.gen /\ loc.sid # req.sid THEN "keep_conflict"
    ELSE "deleted"

\* Is the location the ended session's to delete?  An end without a generation
\* never touches a tagged location, whatever the verdict would be.
deletes(loc, req) ==
    /\ req.gen # 0
    /\ decideLeaveIdentity(loc, req) \in {"legacy", "deleted"}

-----------------------------------------------------------------------------
(* Operations *)

\* A new placement is a new owner epoch; proofs for the old one are void.
EnterScene(p, id) ==
    LET record == decidePlacementIdentity(location[p], id) IN
    /\ record # None
    /\ location' = [location EXCEPT ![p] = record]
    /\ released' = [released EXCEPT ![p] = FALSE]

\* The holder saves, exits and leaves its marker, or is proven dead.
HolderReleases(p) ==
    /\ location[p] # None /\ ~released[p]
    /\ released' = [released EXCEPT ![p] = TRUE]
    /\ UNCHANGED location

\* One LeaveScene, from the caller's look-up of the scene id to the compare and
\* delete.  overtaken: the location has been written since, so the scene id may
\* differ or the comparison fail, and the answer is success all the same.  ok is
\* what the caller sees; it may see an error whatever happened.
LeaveScene(p, id, overtaken, ok) ==
    LET leaving == location[p] # None /\ deletes(location[p], id) IN
    \/ /\ ~ok \/ ~leaving \/ overtaken
       /\ UNCHANGED <<location, released>>
    \/ /\ leaving /\ released[p]
       /\ location' = [location EXCEPT ![p] = None]
       /\ released' = [released EXCEPT ![p] = FALSE]
=============================================================================
