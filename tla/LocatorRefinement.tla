--------------------------- MODULE LocatorRefinement ---------------------------
(***************************************************************************)
(* player_locator implements SessionProtocol: a handler takes effect in    *)
(* the one script it submits, however much it read before, and all other   *)
(* steps of handlers, monitors and time are invisible.                     *)
(***************************************************************************)
EXTENDS LocatorService

Leased == {p \in Players : ready[p] # "none" \/ processing[p] # "none"}
Owed == {p \in Players : CleanupPending(p)}

Protocol == INSTANCE SessionProtocol
    WITH Sessions <- PlayerSession, leased <- Leased, owed <- Owed

\* Every behaviour of the replicas over one Redis is one of the protocol
\* (session_cas.go:17-38): no half-done transition is ever visible, a new
\* session never starts over a cleanup that is still owed, and a session only
\* expires while DISCONNECTING and claimed.
ImplementsProtocol == Protocol!Spec

\* A disconnect in flight was decided for an ONLINE record.
DisconnectCoherent ==
    \A c \in Calls : call[c].op = "disconnect" =>
        /\ InState(call[c].expected, Online)
        /\ call[c].next = [call[c].expected EXCEPT !.state = Disconnecting, !.ver = @ + 1]
=============================================================================
