---------------------------- MODULE SessionProtocol ----------------------------
(***************************************************************************)
(* What player_locator promises of a player's session, without Redis,      *)
(* scripts, handlers or monitors: every visible change is one of a few     *)
(* atomic transitions.  leased are the players whose lease is queued or    *)
(* claimed, owed those for whom a cleanup is under way or snapshotted.     *)
(***************************************************************************)
EXTENDS Integers

CONSTANTS
    Players,
    Sessions,    \* session records: state, version, generation and the rest
    None         \* no session

VARIABLES session, leased, owed

protocolVars == <<session, leased, owed>>

Init ==
    /\ session \in [Players -> {None} \cup {s \in Sessions : s.state = "ONLINE"}]
    /\ leased \subseteq Players
    /\ owed = {}

\* The record may be written over what is there: over nothing only when nothing
\* is owed, over a record only as its successor or as itself.
mayFollow(p, s) ==
    IF session[p] = None THEN p \notin owed
    ELSE \/ s = session[p]
         \/ /\ s.ver = session[p].ver + 1
            /\ session[p].gen = 0 \/ s.gen = 0 \/ s.gen > session[p].gen

\* A login, a replacement or a reconnect takes effect.
Enter(p, s) ==
    /\ s.state = "ONLINE"
    /\ mayFollow(p, s)
    /\ session' = [session EXCEPT ![p] = s]
    /\ leased' = leased \ {p}
    /\ owed' = owed \ {p}

\* The connection is gone: the same session, leased.
Drop(p) ==
    /\ session[p] # None /\ session[p].state = "ONLINE"
    /\ session' = [session EXCEPT ![p] = [session[p] EXCEPT !.state = "DISCONNECTING",
                                                            !.ver = @ + 1]]
    /\ leased' = leased \cup {p}
    /\ owed' = owed \ {p}

\* The player leaves the game.
Leave(p) ==
    /\ session[p] # None
    /\ session' = [session EXCEPT ![p] = None]
    /\ leased' = leased \ {p}
    /\ owed' = owed \ {p}

\* Leaving the scene failed: the cleanup is owed.
Owe(p) ==
    /\ session[p] = None
    /\ leased' = leased \cup {p}
    /\ owed' = owed \cup {p}
    /\ UNCHANGED session

\* A monitor takes on the leases taken, and puts others back.
Claim(taken, returned) ==
    /\ taken \cup returned \subseteq leased
    /\ owed' = (owed \cup taken) \ returned
    /\ UNCHANGED <<session, leased>>

\* The lease runs out, under a claim.
Expire(p) ==
    /\ p \in owed
    /\ session[p] # None /\ session[p].state = "DISCONNECTING"
    /\ session' = [session EXCEPT ![p] = None]
    /\ UNCHANGED <<leased, owed>>

\* The cleanup is over; no session waits for it.
Settle(p) ==
    /\ session[p] # None => session[p].state = "ONLINE"
    /\ leased' = leased \ {p}
    /\ owed' = owed \ {p}
    /\ UNCHANGED session

Next ==
    \/ \E p \in Players :
          \/ \E s \in Sessions : Enter(p, s)
          \/ Drop(p) \/ Leave(p) \/ Owe(p) \/ Expire(p) \/ Settle(p)
    \/ \E taken, returned \in SUBSET Players : Claim(taken, returned)

Spec == Init /\ [][Next]_protocolVars
=============================================================================
