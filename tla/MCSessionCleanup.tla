--------------------------- MODULE MCSessionCleanup ---------------------------
(***************************************************************************)
(* SessionCleanup for TLC.  scope is the instance a behaviour of           *)
(* ScopedSpec stays in: one monitor at a time, or two monitors, records    *)
(* that are not written again and one EnterScene in flight.                *)
(***************************************************************************)
EXTENDS SessionCleanup, TLC

VARIABLE scope

Records == {session[p] : p \in Players} \cup {call[c].next : c \in Calls}

Within ==
    \/ /\ scope = "one monitor"
       /\ \A m, n \in Monitors : IdleMonitor \in {monitor[m], monitor[n]} \/ m = n
    \/ /\ scope = "two monitors"
       /\ \A s \in Records \ {None} : s.ver = 1
       /\ \A p \in Players : \A i, j \in entering[p] : i = j

ScopedInit == CleanupInit /\ scope \in {"one monitor", "two monitors"} /\ Within

ScopedNext == UNCHANGED scope /\ CleanupNext /\ Within'

ScopedSpec ==
    /\ ScopedInit
    /\ [][ScopedNext]_<<cleanupVars, scope>>

\* No scope: the constants bound the behaviours.
FreeInit == CleanupInit /\ scope = "none"

FreeSpec == FreeInit /\ [][CleanupNext /\ UNCHANGED scope]_<<cleanupVars, scope>>

Symmetry == Permutations(Calls) \cup Permutations(Monitors) \cup Permutations(Tokens)
=============================================================================
