----------------------------- MODULE MCRouterLane -----------------------------
(***************************************************************************)
(* RouterLane for TLC.  scope is the instance a behaviour stays in: one    *)
(* session id with the messages that depend on each other, or two with     *)
(* messages that do not.                                                   *)
(***************************************************************************)
EXTENDS RouterLane

CONSTANTS s1, s2

VARIABLE scope

scopedVars == <<vars, scope>>

Scopes ==
    {[sids |-> {s1}, messages |-> {"Login", "EnterGame"}, requests |-> 4],
     [sids |-> {s1, s2}, messages |-> {"other"}, requests |-> 3]}

Within ==
    /\ live \subseteq scope.sids
    /\ \A i \in DOMAIN issued : issued[i].msg \in scope.messages
    /\ Len(issued) <= scope.requests

MCInit == Init /\ scope \in Scopes

MCNext == UNCHANGED scope /\ Next /\ Within'

\* Weak fairness of the sweep, which can run exactly while a call is overdue.
SweepRuns ==
    []<>(overdue = {}) \/ []<><<ExpireDue /\ UNCHANGED scope>>_scopedVars

\* The sweep runs and time passes; nothing else is owed by anyone.
LiveSpec ==
    /\ MCInit
    /\ [][MCNext]_scopedVars
    /\ SweepRuns
    /\ \A q \in Requests : WF_scopedVars(Deadline(q) /\ UNCHANGED scope)
=============================================================================
