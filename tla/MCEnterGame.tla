------------------------------ MODULE MCEnterGame ------------------------------
(***************************************************************************)
(* EnterGame for TLC: c1 and c3 share a session id on two gate instances.  *)
(* scope is the instance a behaviour stays in, so that one run covers      *)
(* several small ones: two roles on a connection, two connections, a lock  *)
(* that Redis loses, one session id on two gate instances, and three       *)
(* chains with a LeaveGame or with a clock.                                *)
(***************************************************************************)
EXTENDS EnterGame, TLC

CONSTANTS c1, c2, c3, p1, p2

VARIABLE scope

MCSidOf == c1 :> 1 @@ c2 :> 2 @@ c3 :> 1
MCInstanceOf == c1 :> "g" @@ c2 :> "g" @@ c3 :> "h"

Scope(conns, players, chains, leaves, clock, loss) ==
    [conns |-> conns, players |-> players, chains |-> chains,
     leaves |-> leaves, clock |-> clock, loss |-> loss]

Scopes ==
    {Scope({c1}, {p1, p2}, 2, 1, 1, FALSE),
     Scope({c1, c2}, {p1}, 2, 0, 1, FALSE),
     Scope({c1}, {p1}, 2, 0, 1, TRUE),
     Scope({c1, c3}, {p1}, 2, 0, 1, FALSE),
     Scope({c1}, {p1}, 3, 1, 1, FALSE),
     Scope({c1}, {p1}, 3, 0, 3, FALSE)}

Within ==
    /\ \A c \in Conns :
          /\ call[c] # IdleCall \/ conn[c] # "open" => c \in scope.conns
          /\ call[c].pc = "leave" => fence[c].gen < scope.leaves
    /\ \A k \in Chains :
          /\ chain[k].conn \in scope.conns \cup {None}
          /\ chain[k].player \in scope.players \cup {None}
    /\ Cardinality({k \in Chains : chain[k] # IdleChain}) <= scope.chains
    /\ leased \subseteq scope.players
    /\ now <= scope.clock
    /\ lockLost => scope.loss

MCInit == Init /\ scope \in Scopes

MCNext == UNCHANGED scope /\ Next /\ Within'

MCSpec == MCInit /\ [][MCNext]_<<vars, scope>>

Symmetry == Permutations(Chains)
=============================================================================
