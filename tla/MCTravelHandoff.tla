--------------------------- MODULE MCTravelHandoff --------------------------
(***************************************************************************)
(* TravelHandoff for TLC.  scope bounds a behaviour: what it may use of    *)
(* requests, admissions, stamps and changes, and the faults it may meet.   *)
(***************************************************************************)
EXTENDS TravelHandoff

VARIABLE scope

Scope(req, gen, stamp, version) ==
    [req |-> req, gen |-> gen, stamp |-> stamp, version |-> version,
     lost |-> 0, fail |-> 0, crash |-> 0]

Scopes ==
    {Scope(2, 2, 1, 1), Scope(1, 3, 2, 1),
     [Scope(2, 1, 1, 0) EXCEPT !.lost = 1], [Scope(1, 2, 1, 1) EXCEPT !.lost = 1],
     [Scope(2, 2, 1, 0) EXCEPT !.fail = 1],
     [Scope(2, 2, 1, 0) EXCEPT !.crash = 1], [Scope(1, 2, 1, 1) EXCEPT !.crash = 1]}

Within ==
    /\ latest <= scope.version
    /\ \A b \in DOMAIN used \ {"undone"} : used[b] <= scope[b]

MCInit == Init /\ scope \in Scopes

MCNext == UNCHANGED scope /\ Next /\ Within'

MCSpec == MCInit /\ [][MCNext]_<<vars, scope>>
=============================================================================
