------------------------------ MODULE SessionFence ------------------------------
(***************************************************************************)
(* The session fence of login: one Redis hash per gate connection, touched *)
(* only by atomic scripts.  closed says that the connection is gone, gen   *)
(* counts its LeaveGames, player is the role bound on it.  The record      *)
(* outlives every chain that uses it (its TTL is derived from the budget   *)
(* of the chain), so its expiry is not modelled.                           *)
(***************************************************************************)
EXTENDS Integers

CONSTANTS
    Conns,        \* gate connections, by gate instance and incarnation
    Players,
    None,
    MaxLeaves     \* bound on the LeaveGames of one connection

VARIABLE fence

FenceRecord ==
    [closed : BOOLEAN, gen : 0..MaxLeaves, player : Players \cup {None}]

FenceInit == fence = [c \in Conns |-> [closed |-> FALSE, gen |-> 0, player |-> None]]

\* Whether the login state of the connection may be written.
CommitLogin(c) == ~fence[c].closed

\* Marks the connection closed; the script also returns fence[c].player.
Close(c) == fence' = [fence EXCEPT ![c].closed = TRUE]

CheckEnterGame(c, p) ==
    CASE fence[c].closed -> "closed"
      [] ~fence[c].closed /\ fence[c].player \notin {None, p} -> "other_player"
      [] OTHER -> "ok"

\* Mutant: the entry's count of LeaveGames is not compared.
BindPlayer_anyGen(c, p, gen) ==
    CASE fence[c].closed -> "closed"
      [] ~fence[c].closed /\ fence[c].player \notin {None, p} -> "other_player"
      [] OTHER -> "ok"

\* Mutant: the closed mark is not looked at.
BindPlayer_afterClose(c, p, gen) ==
    CASE fence[c].gen # gen -> "left"
      [] fence[c].gen = gen /\ fence[c].player \notin {None, p} -> "other_player"
      [] OTHER -> "ok"

\* The binding of the chain, with the count its entry saw: the outcome, and
\* what it leaves in the record.
BindPlayer(c, p, gen) ==
    CASE fence[c].closed -> "closed"
      [] ~fence[c].closed /\ fence[c].gen # gen -> "left"
      [] ~fence[c].closed /\ fence[c].gen = gen
            /\ fence[c].player \notin {None, p} -> "other_player"
      [] OTHER -> "ok"

bound(c, p, gen) ==
    fence' = [fence EXCEPT ![c].player =
                 IF BindPlayer(c, p, gen) = "ok" THEN p ELSE @]

\* The check before EnterScene.
Recheck(c, gen) == ~fence[c].closed /\ fence[c].gen = gen

\* Counts a LeaveGame and unbinds; the script also returns fence[c].player.
Leave(c) == fence' = [fence EXCEPT ![c].gen = @ + 1, ![c].player = None]
=============================================================================
