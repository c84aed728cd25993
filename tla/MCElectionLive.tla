---------------------------- MODULE MCElectionLive ----------------------------
(***************************************************************************)
(* Liveness of LeaderElection: calls fail, replicas crash and Redis loses  *)
(* the key for a while, then the faults stop.                              *)
(***************************************************************************)
EXTENDS LeaderElection

VARIABLE calm   \* have the faults stopped for good?

liveVars == <<vars, calm>>

Fault ==
    \/ \E n \in Holders : CampaignFails(n) \/ Yield(n) \/ Released(n) \/ Crash(n)
    \/ /\ \/ \E n \in Holders : RenewFails(n) \/ ResultDropped(n)
          \/ LoseKey
       /\ UNCHANGED runVars

LateCommand == (\E c \in late : ExecuteLate(c)) /\ UNCHANGED runVars

LiveNext ==
    \/ ~calm /\ Fault /\ UNCHANGED calm
    \/ ~calm /\ late = {} /\ calm' = TRUE /\ UNCHANGED vars
    \/ (\E n \in Holders : Progress(n)) /\ UNCHANGED calm
    \/ (LateCommand \/ Tick) /\ UNCHANGED calm

Fairness ==
    /\ WF_liveVars(Tick /\ UNCHANGED calm)
    /\ \A n \in Holders : WF_liveVars(Progress(n) /\ UNCHANGED calm)

LiveInit == Init /\ calm = FALSE

LiveSpec == LiveInit /\ [][LiveNext]_liveVars /\ Fairness

\* Once the faults are over a follower takes over from a leader that is gone
\* (leader.go:19-20).
VacancyIsFilled == calm ~> \E n \in Holders : IsLeader(n)

Deposed(n) == IsLeader(n) /\ key # val[n]

\* Once they are, a leader whose key is gone notices and resigns; it does not go
\* on beside the next one (leader.go:19).
DeposedResigns == \A n \in Holders : calm /\ Deposed(n) ~> ~Deposed(n)
=============================================================================
