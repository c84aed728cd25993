---------------------------- MODULE MCSceneEntry ----------------------------
(***************************************************************************)
(* SceneEntry for TLC.  scope is the instance a behaviour stays in: two    *)
(* players and a node that registers anew, or one player and two nodes.    *)
(***************************************************************************)
EXTENDS SceneEntry

CONSTANTS p1, p2, n1, n2

VARIABLE scope

scopedVars == <<vars, scope>>

\* p1's generations run ahead of p2's.
MCGenBase == [p \in Players |-> IF p = p1 THEN 5 ELSE 0]

Scopes ==
    {[players |-> {p1, p2}, nodes |-> {n1}, entities |-> 2, enters |-> 2],
     [players |-> {p1}, nodes |-> {n1, n2}, entities |-> 1, enters |-> 1]}

Within ==
    /\ Len(chains) <= scope.enters
    /\ \A k \in DOMAIN chains : chains[k].player \in scope.players
    /\ \A n \in Nodes : /\ nodes[n].entity <= scope.entities
                        /\ n \notin scope.nodes => nodes[n].link = "ready"
    /\ \A p \in Players : placed[p].at # None => placed[p].at[1] \in scope.nodes

MCInit == Init /\ scope \in Scopes

MCNext == UNCHANGED scope /\ Next /\ Within'

\* The event loop runs its timers: the sweep, and time that passes.
LiveSpec ==
    /\ MCInit
    /\ [][MCNext]_scopedVars
    /\ WF_scopedVars(RetryDueSceneEntries /\ UNCHANGED scope)
    /\ WF_scopedVars(Tick /\ UNCHANGED scope)
    /\ WF_scopedVars(BackoffOver /\ UNCHANGED scope)
=============================================================================
