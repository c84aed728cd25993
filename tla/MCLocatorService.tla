--------------------------- MODULE MCLocatorService ---------------------------
(* Model-checking instances of LocatorService. *)
EXTENDS LocatorRefinement, TLC

Symmetry ==
    Permutations(Players) \cup Permutations(Gates) \cup Permutations(Calls)
        \cup Permutations(Monitors) \cup Permutations(Tokens)
=============================================================================
