------------------------- MODULE LeaderElectionProofs -------------------------
(***************************************************************************)
(* Proofs about LeaderElection, for any number of replicas and any TTL,    *)
(* interval and delays that satisfy HeartbeatAssumption.                   *)
(***************************************************************************)
EXTENDS LeaderElection, TLAPS

\* A caller that gives up adds at most its own command to the wire.
LEMMA Linger ==
    ASSUME LockTypeOK, NEW n \in Holders, NEW op \in Op, mayLinger(n, op),
           rpc[n] # "none" => val[n] # None
    PROVE  /\ late' \subseteq [op : Op, val : Values]
           /\ \A c \in late' : c \in late \/ (c.op = op /\ c.val = val[n] /\ val[n] # None)
BY DEF LockTypeOK, mayLinger

\* A candidate, or a follower whose wait is over, draws a fresh value and sends SETNX.
LEMMA CampaignStep ==
    ASSUME IInv, NEW n \in Holders, Campaign(n)
    PROVE  IInv'
<1> USE DEF Campaign, FreshValues, goto, send
<1>1. ElectionTypeOK'
  BY LockAssumption DEF IInv, ElectionTypeOK, LockTypeOK, Op
<1>2. HolderOwnsKey'
  BY LockAssumption DEF IInv, ElectionTypeOK, LockTypeOK, HolderOwnsKey, ValuesDistinct,
     HeartbeatCoherent, BeatsInTime, Holds, IsLeader
<1>3. ValuesDistinct'
  BY LockAssumption DEF IInv, ElectionTypeOK, LockTypeOK, HolderOwnsKey, ValuesDistinct,
     HeartbeatCoherent
<1>4. HeartbeatCoherent'
  BY DEF IInv, ElectionTypeOK, LockTypeOK, HeartbeatCoherent
<1>5. BeatsInTime'
  BY LockAssumption, HeartbeatAssumption
  DEF IInv, ElectionTypeOK, LockTypeOK, HeartbeatCoherent, BeatsInTime, nextBeat, Larger,
      LatestBeat
<1> QED
  BY Zenon, <1>1, <1>2, <1>3, <1>4, <1>5 DEF IInv

\* SETNX is answered: the winner holds the key from the moment it was stored.
LEMMA CampaignReturnsStep ==
    ASSUME IInv, NEW n \in Holders, CampaignReturns(n)
    PROVE  IInv'
<1> USE DEF CampaignReturns, wait, goto, returned
<1>1. ElectionTypeOK'
  BY LockAssumption DEF IInv, ElectionTypeOK, LockTypeOK, Op
<1>2. HolderOwnsKey'
  BY LockAssumption DEF IInv, ElectionTypeOK, LockTypeOK, HolderOwnsKey, ValuesDistinct,
     HeartbeatCoherent, BeatsInTime, Holds, IsLeader
<1>3. ValuesDistinct'
  BY LockAssumption DEF IInv, ElectionTypeOK, LockTypeOK, HolderOwnsKey, ValuesDistinct,
     HeartbeatCoherent
<1>4. HeartbeatCoherent'
  BY DEF IInv, ElectionTypeOK, LockTypeOK, HeartbeatCoherent
<1>5. BeatsInTime'
  BY LockAssumption, HeartbeatAssumption
  DEF IInv, ElectionTypeOK, LockTypeOK, HeartbeatCoherent, BeatsInTime, nextBeat, Larger,
      LatestBeat
<1> QED
  BY Zenon, <1>1, <1>2, <1>3, <1>4, <1>5 DEF IInv

\* A SETNX that fails may still be executed, but for a value nobody uses.
LEMMA CampaignFailsStep ==
    ASSUME IInv, NEW n \in Holders, CampaignFails(n)
    PROVE  IInv'
<1> USE DEF CampaignFails, wait, goto, returned
<1>0. /\ late' \subseteq [op : Op, val : Values]
      /\ \A c \in late' :
            c \in late \/ (c.op = "setnx" /\ c.val = val[n] /\ val[n] # None)
  BY Zenon, Linger DEF IInv, ElectionTypeOK, ValuesDistinct, Op
<1>1. ElectionTypeOK'
  BY Zenon, <1>0, LockAssumption DEF IInv, ElectionTypeOK, LockTypeOK, Op
<1>2. HolderOwnsKey'
  BY LockAssumption DEF IInv, ElectionTypeOK, LockTypeOK, HolderOwnsKey, ValuesDistinct,
     HeartbeatCoherent, BeatsInTime, Holds, IsLeader
<1>3. ValuesDistinct'
  BY <1>0, LockAssumption DEF IInv, ElectionTypeOK, LockTypeOK, HolderOwnsKey, ValuesDistinct,
     HeartbeatCoherent
<1>4. HeartbeatCoherent'
  BY Zenon DEF IInv, ElectionTypeOK, LockTypeOK, HeartbeatCoherent
<1>5. BeatsInTime'
  BY <1>0, LockAssumption, HeartbeatAssumption
  DEF IInv, ElectionTypeOK, LockTypeOK, HeartbeatCoherent, BeatsInTime, nextBeat, Larger,
      LatestBeat
<1> QED
  BY Zenon, <1>1, <1>2, <1>3, <1>4, <1>5 DEF IInv

\* The heartbeat starts within StartDelay of the SETNX.
LEMMA StartHeartbeatStep ==
    ASSUME IInv, NEW n \in Holders, StartHeartbeat(n)
    PROVE  IInv'
<1> USE DEF StartHeartbeat, goto
<1>1. ElectionTypeOK'
  BY Zenon, LockAssumption DEF IInv, ElectionTypeOK, LockTypeOK, Op
<1>2. HolderOwnsKey'
  BY LockAssumption DEF IInv, ElectionTypeOK, LockTypeOK, HolderOwnsKey, ValuesDistinct,
     HeartbeatCoherent, BeatsInTime, Holds, IsLeader
<1>3. ValuesDistinct'
  BY LockAssumption DEF IInv, ElectionTypeOK, LockTypeOK, HolderOwnsKey, ValuesDistinct,
     HeartbeatCoherent
<1>4. HeartbeatCoherent'
  BY Zenon DEF IInv, ElectionTypeOK, LockTypeOK, HeartbeatCoherent
<1>5. BeatsInTime'
  BY LockAssumption, HeartbeatAssumption
  DEF IInv, ElectionTypeOK, LockTypeOK, HeartbeatCoherent, BeatsInTime, nextBeat, Larger,
      LatestBeat
<1> QED
  BY Zenon, <1>1, <1>2, <1>3, <1>4, <1>5 DEF IInv

\* Neither the end of the leader's work nor Stop touches the lock.
LEMMA CancelStep ==
    ASSUME IInv, NEW n \in Holders, Yield(n) \/ Stop(n)
    PROVE  IInv'
<1> USE DEF Yield, Stop, lockVars
<1>1. ElectionTypeOK'
  BY Zenon, LockAssumption DEF IInv, ElectionTypeOK, LockTypeOK, Op
<1>2. HolderOwnsKey'
  BY LockAssumption DEF IInv, ElectionTypeOK, LockTypeOK, HolderOwnsKey, ValuesDistinct,
     HeartbeatCoherent, BeatsInTime, Holds, IsLeader
<1>3. ValuesDistinct'
  BY LockAssumption DEF IInv, ElectionTypeOK, LockTypeOK, HolderOwnsKey, ValuesDistinct,
     HeartbeatCoherent
<1>4. HeartbeatCoherent'
  BY Zenon DEF IInv, ElectionTypeOK, LockTypeOK, HeartbeatCoherent
<1>5. BeatsInTime'
  BY Zenon, LockAssumption, HeartbeatAssumption
  DEF IInv, ElectionTypeOK, LockTypeOK, HeartbeatCoherent, BeatsInTime, nextBeat, Larger,
      LatestBeat
<1> QED
  BY Zenon, <1>1, <1>2, <1>3, <1>4, <1>5 DEF IInv

\* stopHB lets a renewal in flight finish.
LEMMA EndTermStep ==
    ASSUME IInv, NEW n \in Holders, EndTerm(n)
    PROVE  IInv'
<1> USE DEF EndTerm, mustEnd, goto
<1>1. ElectionTypeOK'
  BY Zenon, LockAssumption DEF IInv, ElectionTypeOK, LockTypeOK, Op
<1>2. HolderOwnsKey'
  BY LockAssumption DEF IInv, ElectionTypeOK, LockTypeOK, HolderOwnsKey, ValuesDistinct,
     HeartbeatCoherent, BeatsInTime, Holds, IsLeader
<1>3. ValuesDistinct'
  BY LockAssumption DEF IInv, ElectionTypeOK, LockTypeOK, HolderOwnsKey, ValuesDistinct,
     HeartbeatCoherent
<1>4. HeartbeatCoherent'
  BY Zenon DEF IInv, ElectionTypeOK, LockTypeOK, HeartbeatCoherent
<1>5. BeatsInTime'
  BY LockAssumption, HeartbeatAssumption
  DEF IInv, ElectionTypeOK, LockTypeOK, HeartbeatCoherent, BeatsInTime, nextBeat, Larger,
      LatestBeat
<1> QED
  BY Zenon, <1>1, <1>2, <1>3, <1>4, <1>5 DEF IInv

\* The release is sent by a replica that no longer leads.
LEMMA StepDownStep ==
    ASSUME IInv, NEW n \in Holders, StepDown(n)
    PROVE  IInv'
<1> USE DEF StepDown, goto, send
<1>1. ElectionTypeOK'
  BY Zenon, LockAssumption DEF IInv, ElectionTypeOK, LockTypeOK, Op
<1>2. HolderOwnsKey'
  BY LockAssumption DEF IInv, ElectionTypeOK, LockTypeOK, HolderOwnsKey, ValuesDistinct,
     HeartbeatCoherent, BeatsInTime, Holds, IsLeader
<1>3. ValuesDistinct'
  BY LockAssumption DEF IInv, ElectionTypeOK, LockTypeOK, HolderOwnsKey, ValuesDistinct,
     HeartbeatCoherent, Holds, IsLeader
<1>4. HeartbeatCoherent'
  BY Zenon DEF IInv, ElectionTypeOK, LockTypeOK, HeartbeatCoherent
<1>5. BeatsInTime'
  BY LockAssumption, HeartbeatAssumption
  DEF IInv, ElectionTypeOK, LockTypeOK, HeartbeatCoherent, BeatsInTime, nextBeat, Larger,
      LatestBeat
<1> QED
  BY Zenon, <1>1, <1>2, <1>3, <1>4, <1>5 DEF IInv

\* After the release the value is never used again.
LEMMA ReleasedStep ==
    ASSUME IInv, NEW n \in Holders, Released(n)
    PROVE  IInv'
<1> USE DEF Released, goto, returned
<1>0. /\ late' \subseteq [op : Op, val : Values]
      /\ \A c \in late' :
            c \in late \/ (c.op = "release" /\ c.val = val[n] /\ val[n] # None)
  BY Zenon, Linger DEF IInv, ElectionTypeOK, ValuesDistinct, Op
<1>1. ElectionTypeOK'
  BY Zenon, <1>0, LockAssumption DEF IInv, ElectionTypeOK, LockTypeOK, Op
<1>2. HolderOwnsKey'
  BY LockAssumption DEF IInv, ElectionTypeOK, LockTypeOK, HolderOwnsKey, ValuesDistinct,
     HeartbeatCoherent, BeatsInTime, Holds, IsLeader
<1>3. ValuesDistinct'
  BY <1>0, LockAssumption DEF IInv, ElectionTypeOK, LockTypeOK, HolderOwnsKey, ValuesDistinct,
     HeartbeatCoherent
<1>4. HeartbeatCoherent'
  BY Zenon DEF IInv, ElectionTypeOK, LockTypeOK, HeartbeatCoherent
<1>5. BeatsInTime'
  BY <1>0, LockAssumption, HeartbeatAssumption
  DEF IInv, ElectionTypeOK, LockTypeOK, HeartbeatCoherent, BeatsInTime, nextBeat, Larger,
      LatestBeat
<1> QED
  BY Zenon, <1>1, <1>2, <1>3, <1>4, <1>5 DEF IInv

\* A crash forgets the value; what is on the wire carries it.
LEMMA CrashStep ==
    ASSUME IInv, NEW n \in Holders, Crash(n)
    PROVE  IInv'
<1> USE DEF Crash, goto, returned
<1>0. /\ late' \subseteq [op : Op, val : Values]
      /\ \A c \in late' :
            c \in late \/ (c.op = opOf(n) /\ c.val = val[n] /\ val[n] # None)
  BY Zenon, Linger DEF IInv, ElectionTypeOK, ValuesDistinct, Op, opOf
<1>1. ElectionTypeOK'
  BY Zenon, <1>0, LockAssumption DEF IInv, ElectionTypeOK, LockTypeOK, Op
<1>2. HolderOwnsKey'
  BY LockAssumption DEF IInv, ElectionTypeOK, LockTypeOK, HolderOwnsKey, ValuesDistinct,
     HeartbeatCoherent, BeatsInTime, Holds, IsLeader
<1>3. ValuesDistinct'
  BY <1>0, LockAssumption DEF IInv, ElectionTypeOK, LockTypeOK, HolderOwnsKey, ValuesDistinct,
     HeartbeatCoherent
<1>4. HeartbeatCoherent'
  BY Zenon DEF IInv, ElectionTypeOK, LockTypeOK, HeartbeatCoherent
<1>5. BeatsInTime'
  BY <1>0, LockAssumption, HeartbeatAssumption
  DEF IInv, ElectionTypeOK, LockTypeOK, HeartbeatCoherent, BeatsInTime, nextBeat, Larger,
      LatestBeat
<1> QED
  BY Zenon, <1>1, <1>2, <1>3, <1>4, <1>5 DEF IInv

\* Redis executes the command in flight.
LEMMA ServeStep ==
    ASSUME IInv, NEW n \in Holders, Serve(n, opOf(n)) /\ UNCHANGED runVars
    PROVE  IInv'
<1> USE DEF Serve, opOf, execute, answer, runVars
<1>1. ElectionTypeOK'
  BY LockAssumption DEF IInv, ElectionTypeOK, LockTypeOK, Op
<1>2. HolderOwnsKey'
  BY LockAssumption DEF IInv, ElectionTypeOK, LockTypeOK, HolderOwnsKey, ValuesDistinct,
     HeartbeatCoherent, BeatsInTime, Holds, IsLeader
<1>3. ValuesDistinct'
  BY LockAssumption DEF IInv, ElectionTypeOK, LockTypeOK, HolderOwnsKey, ValuesDistinct,
     HeartbeatCoherent
<1>4. HeartbeatCoherent'
  BY Zenon DEF IInv, ElectionTypeOK, LockTypeOK, HeartbeatCoherent
<1>5. BeatsInTime'
  BY Zenon, LockAssumption, HeartbeatAssumption
  DEF IInv, ElectionTypeOK, LockTypeOK, HeartbeatCoherent, BeatsInTime, nextBeat, Larger,
      LatestBeat
<1> QED
  BY Zenon, <1>1, <1>2, <1>3, <1>4, <1>5 DEF IInv

\* A beat is sent when it is due.
LEMMA BeatStep ==
    ASSUME IInv, NEW n \in Holders, Beat(n) /\ UNCHANGED runVars
    PROVE  IInv'
<1> USE DEF Beat, send, runVars
<1>1. ElectionTypeOK'
  BY Zenon, LockAssumption DEF IInv, ElectionTypeOK, LockTypeOK, Op
<1>2. HolderOwnsKey'
  BY LockAssumption DEF IInv, ElectionTypeOK, LockTypeOK, HolderOwnsKey, ValuesDistinct,
     HeartbeatCoherent, BeatsInTime, Holds, IsLeader
<1>3. ValuesDistinct'
  BY LockAssumption DEF IInv, ElectionTypeOK, LockTypeOK, HolderOwnsKey, ValuesDistinct,
     HeartbeatCoherent, Holds, IsLeader
<1>4. HeartbeatCoherent'
  BY Zenon DEF IInv, ElectionTypeOK, LockTypeOK, HeartbeatCoherent
<1>5. BeatsInTime'
  BY LockAssumption, HeartbeatAssumption
  DEF IInv, ElectionTypeOK, LockTypeOK, HeartbeatCoherent, BeatsInTime, nextBeat, Larger,
      LatestBeat
<1> QED
  BY Zenon, <1>1, <1>2, <1>3, <1>4, <1>5 DEF IInv

\* A successful renewal counts from when it was sent.
LEMMA RenewedStep ==
    ASSUME IInv, NEW n \in Holders, Renewed(n) /\ UNCHANGED runVars
    PROVE  IInv'
<1> USE DEF Renewed, returned, runVars
<1>1. ElectionTypeOK'
  BY Zenon, LockAssumption DEF IInv, ElectionTypeOK, LockTypeOK, Op
<1>2. HolderOwnsKey'
  BY LockAssumption DEF IInv, ElectionTypeOK, LockTypeOK, HolderOwnsKey, ValuesDistinct,
     HeartbeatCoherent, BeatsInTime, Holds, IsLeader
<1>3. ValuesDistinct'
  BY LockAssumption DEF IInv, ElectionTypeOK, LockTypeOK, HolderOwnsKey, ValuesDistinct,
     HeartbeatCoherent
<1>4. HeartbeatCoherent'
  BY Zenon DEF IInv, ElectionTypeOK, LockTypeOK, HeartbeatCoherent
<1>5. BeatsInTime'
  BY LockAssumption, HeartbeatAssumption
  DEF IInv, ElectionTypeOK, LockTypeOK, HeartbeatCoherent, BeatsInTime, nextBeat, Larger,
      LatestBeat
<1> QED
  BY Zenon, <1>1, <1>2, <1>3, <1>4, <1>5 DEF IInv

\* A refused renewal ends the heartbeat.
LEMMA RenewRefusedStep ==
    ASSUME IInv, NEW n \in Holders, RenewRefused(n) /\ UNCHANGED runVars
    PROVE  IInv'
<1> USE DEF RenewRefused, returned, runVars
<1>1. ElectionTypeOK'
  BY Zenon, LockAssumption DEF IInv, ElectionTypeOK, LockTypeOK, Op
<1>2. HolderOwnsKey'
  BY Zenon, LockAssumption DEF IInv, ElectionTypeOK, LockTypeOK, HolderOwnsKey, ValuesDistinct,
     HeartbeatCoherent, BeatsInTime, Holds, IsLeader
<1>3. ValuesDistinct'
  BY Zenon, LockAssumption DEF IInv, ElectionTypeOK, LockTypeOK, HolderOwnsKey, ValuesDistinct,
     HeartbeatCoherent
<1>4. HeartbeatCoherent'
  BY Zenon DEF IInv, ElectionTypeOK, LockTypeOK, HeartbeatCoherent
<1>5. BeatsInTime'
  BY LockAssumption, HeartbeatAssumption
  DEF IInv, ElectionTypeOK, LockTypeOK, HeartbeatCoherent, BeatsInTime, nextBeat, Larger,
      LatestBeat
<1> QED
  BY Zenon, <1>1, <1>2, <1>3, <1>4, <1>5 DEF IInv

\* The second failed beat ends the heartbeat, the first does not.
LEMMA RenewFailsStep ==
    ASSUME IInv, NEW n \in Holders, RenewFails(n) /\ UNCHANGED runVars
    PROVE  IInv'
<1> USE DEF RenewFails, FenceAfter, returned, runVars
<1>0. /\ late' \subseteq [op : Op, val : Values]
      /\ \A c \in late' :
            c \in late \/ (c.op = "renew" /\ c.val = val[n] /\ val[n] # None)
  BY Zenon, Linger DEF IInv, ElectionTypeOK, ValuesDistinct, Op
<1>1. ElectionTypeOK'
  BY <1>0, LockAssumption DEF IInv, ElectionTypeOK, LockTypeOK, Op
<1>2. HolderOwnsKey'
  BY LockAssumption DEF IInv, ElectionTypeOK, LockTypeOK, HolderOwnsKey, ValuesDistinct,
     HeartbeatCoherent, BeatsInTime, Holds, IsLeader
<1>3. ValuesDistinct'
  BY <1>0, LockAssumption DEF IInv, ElectionTypeOK, LockTypeOK, HolderOwnsKey, ValuesDistinct,
     HeartbeatCoherent
<1>4. HeartbeatCoherent'
  BY DEF IInv, ElectionTypeOK, LockTypeOK, HeartbeatCoherent
<1>5. BeatsInTime'
  BY <1>0, LockAssumption, HeartbeatAssumption
  DEF IInv, ElectionTypeOK, LockTypeOK, HeartbeatCoherent, BeatsInTime, nextBeat, Larger,
      LatestBeat
<1> QED
  BY Zenon, <1>1, <1>2, <1>3, <1>4, <1>5 DEF IInv

\* A renewal that returns after stop changes nothing.
LEMMA ResultDroppedStep ==
    ASSUME IInv, NEW n \in Holders, ResultDropped(n) /\ UNCHANGED runVars
    PROVE  IInv'
<1> USE DEF ResultDropped, returned, runVars
<1>0. /\ late' \subseteq [op : Op, val : Values]
      /\ \A c \in late' :
            c \in late \/ (c.op = "renew" /\ c.val = val[n] /\ val[n] # None)
  BY Zenon, Linger DEF IInv, ElectionTypeOK, ValuesDistinct, Op
<1>1. ElectionTypeOK'
  BY Zenon, <1>0, LockAssumption DEF IInv, ElectionTypeOK, LockTypeOK, Op
<1>2. HolderOwnsKey'
  BY LockAssumption DEF IInv, ElectionTypeOK, LockTypeOK, HolderOwnsKey, ValuesDistinct,
     HeartbeatCoherent, BeatsInTime, Holds, IsLeader
<1>3. ValuesDistinct'
  BY <1>0, LockAssumption DEF IInv, ElectionTypeOK, LockTypeOK, HolderOwnsKey, ValuesDistinct,
     HeartbeatCoherent
<1>4. HeartbeatCoherent'
  BY Zenon DEF IInv, ElectionTypeOK, LockTypeOK, HeartbeatCoherent
<1>5. BeatsInTime'
  BY <1>0, LockAssumption, HeartbeatAssumption
  DEF IInv, ElectionTypeOK, LockTypeOK, HeartbeatCoherent, BeatsInTime, nextBeat, Larger,
      LatestBeat
<1> QED
  BY Zenon, <1>1, <1>2, <1>3, <1>4, <1>5 DEF IInv

\* A command executed late cannot take the key from its holder: a SETNX finds it
\* occupied, a release carries another value, a renewal only helps.
LEMMA LateStep ==
    ASSUME IInv, NEW c \in late, ExecuteLate(c), UNCHANGED runVars
    PROVE  IInv'
<1> USE DEF ExecuteLate, execute, answer, runVars
<1>1. ElectionTypeOK'
  BY LockAssumption DEF IInv, ElectionTypeOK, LockTypeOK, Op
<1>2. HolderOwnsKey'
  BY LockAssumption DEF IInv, ElectionTypeOK, LockTypeOK, HolderOwnsKey, ValuesDistinct,
     Holds, IsLeader, Op
<1>3. ValuesDistinct'
  BY Zenon DEF IInv, ValuesDistinct
<1>4. HeartbeatCoherent'
  BY Zenon DEF IInv, HeartbeatCoherent
<1>5. BeatsInTime'
  BY Zenon DEF IInv, BeatsInTime, nextBeat
<1> QED
  BY Zenon, <1>1, <1>2, <1>3, <1>4, <1>5 DEF IInv

\* A holder of the key that has not stepped down is younger than the TTL.
LEMMA HolderYoung ==
    ASSUME IInv, NEW n \in Holders, Holds(n)
    PROVE  age[n] < TTL
<1>1. CASE pc[n] = "leading" /\ hb[n] = "running"
  <2>1. nextBeat(n) \in Int /\ nextBeat(n) <= 2 * Interval
    BY <1>1, LockAssumption DEF IInv, BeatsInTime, nextBeat
  <2> QED
    BY <1>1, <2>1, LockAssumption, HeartbeatAssumption
    DEF IInv, ElectionTypeOK, LockTypeOK, BeatsInTime, LatestBeat, Larger
<1>2. CASE ~(pc[n] = "leading" /\ hb[n] = "running")
  BY <1>2, LockAssumption, HeartbeatAssumption
  DEF IInv, ElectionTypeOK, LockTypeOK, HeartbeatCoherent, BeatsInTime, Holds, IsLeader,
      LatestBeat, Larger
<1> QED
  BY Zenon, <1>1, <1>2

\* Time passes: the key of a holder does not expire, because the holder's next
\* beat or its resignation comes first.
LEMMA TickStep ==
    ASSUME IInv, Tick
    PROVE  IInv'
<1> USE DEF Tick, keyTicks
<1>1. ElectionTypeOK'
  BY LockAssumption DEF IInv, ElectionTypeOK, LockTypeOK
<1>2. HolderOwnsKey'
  <2> SUFFICES ASSUME NEW n \in Holders
               PROVE  /\ Holds(n)' => (key = val[n] /\ val[n] # None /\ TTL <= left + age[n])'
                      /\ (pc[n] \in {"leading", "draining"})'
                            => (rpc[n] # "zero" /\ (rpc[n] = "ok" => TTL <= left + since[n]))'
    BY Zenon DEF HolderOwnsKey
  <2>1. Holds(n)' => Holds(n) /\ Ages(n)
    BY Zenon DEF Holds, IsLeader, Ages
  <2>2. Holds(n) => age[n] + 1 < TTL
    <3>1. CASE pc[n] = "leading" /\ hb[n] = "running"
      <4>1. nextBeat(n) \in Int /\ nextBeat(n) <= 2 * Interval
        BY <3>1, LockAssumption DEF IInv, BeatsInTime, nextBeat
      <4> QED
        BY <3>1, <4>1, LockAssumption, HeartbeatAssumption
        DEF IInv, ElectionTypeOK, LockTypeOK, BeatsInTime, LatestBeat, Larger, beatInTime
    <3>2. CASE ~(pc[n] = "leading" /\ hb[n] = "running")
      BY <3>2, LockAssumption, HeartbeatAssumption
      DEF IInv, ElectionTypeOK, LockTypeOK, HeartbeatCoherent, BeatsInTime, Holds, IsLeader,
          LatestBeat, Larger, beatInTime, mustEnd
    <3> QED
      BY Zenon, <3>1, <3>2
  <2>3. pc[n] \in {"leading", "draining"} => Holds(n)
    BY Zenon DEF Holds, IsLeader
  <2>4. age[n] \in Nat /\ since[n] \in Nat /\ left \in Nat /\ TTL \in Nat
    BY LockAssumption DEF IInv, ElectionTypeOK, LockTypeOK
  <2>5. Holds(n) => key = val[n] /\ val[n] # None /\ TTL <= left + age[n]
    BY Zenon DEF IInv, HolderOwnsKey
  <2>6. Holds(n) => left > 1 /\ left' = left - 1 /\ key' = key
    BY <2>2, <2>4, <2>5
  <2>7. /\ age'[n] = (IF Ages(n) THEN age[n] + 1 ELSE age[n])
        /\ since'[n] = (IF rpc[n] = "none" THEN 0 ELSE since[n] + 1)
        /\ val' = val /\ rpc' = rpc /\ pc' = pc
    BY Zenon
  <2>8. pc[n] \in {"leading", "draining"} =>
           rpc[n] # "zero" /\ (rpc[n] = "ok" => TTL <= left + since[n])
    BY Zenon DEF IInv, HolderOwnsKey
  <2> HIDE DEF Tick, keyTicks
  <2> QED
    BY <2>1, <2>3, <2>4, <2>5, <2>6, <2>7, <2>8
<1>3. ValuesDistinct'
  BY Zenon DEF IInv, ValuesDistinct
<1>4. HeartbeatCoherent'
  BY Zenon DEF IInv, HeartbeatCoherent
<1>5. BeatsInTime'
  BY LockAssumption, HeartbeatAssumption
  DEF IInv, ElectionTypeOK, LockTypeOK, HeartbeatCoherent, BeatsInTime, nextBeat, Larger,
      LatestBeat, beatInTime, mustEnd, Ages, IsLeader
<1> QED
  BY Zenon, <1>1, <1>2, <1>3, <1>4, <1>5 DEF IInv

\* The invariant holds initially.
LEMMA InitInv ==
    ASSUME Init
    PROVE  IInv
BY LockAssumption
DEF Init, IInv, ElectionTypeOK, LockTypeOK, HolderOwnsKey, ValuesDistinct, HeartbeatCoherent,
    BeatsInTime, Holds, IsLeader

\* Every step keeps it.
LEMMA NextInv ==
    ASSUME IInv, [Next]_vars
    PROVE  IInv'
<1>1. ASSUME NEW n \in Holders, Progress(n) PROVE IInv'
  BY Zenon, <1>1, CampaignStep, CampaignReturnsStep, StartHeartbeatStep, EndTermStep, StepDownStep,
     ReleasedStep, ServeStep, BeatStep, RenewedStep, RenewRefusedStep, ResultDroppedStep
  DEF Progress
<1>2. ASSUME NEW n \in Holders, Trouble(n) PROVE IInv'
  BY Zenon, <1>2, CampaignFailsStep, CancelStep, ReleasedStep, CrashStep, RenewFailsStep,
     ResultDroppedStep
  DEF Trouble
<1>3. CASE UNCHANGED vars
  BY <1>3 DEF vars, IInv, ElectionTypeOK, LockTypeOK, HolderOwnsKey, ValuesDistinct,
     HeartbeatCoherent, BeatsInTime, Holds, IsLeader, nextBeat
<1> QED
  BY Zenon, <1>1, <1>2, <1>3, LateStep, TickStep DEF Next

\* The invariant holds throughout.
THEOREM Invariance == Spec => []IInv
<1>1. Init => IInv
  BY Zenon, InitInv
<1>2. IInv /\ [Next]_vars => IInv'
  BY Zenon, NextInv
<1> QED
  BY <1>1, <1>2, PTL DEF Spec

\* Never two leaders (leader.go:12-16): both would own the one key, with values
\* no two attempts share.
THEOREM NeverTwoLeaders == Spec => []MutualExclusion
<1>1. IInv => MutualExclusion
  BY Zenon DEF IInv, HolderOwnsKey, ValuesDistinct, MutualExclusion, Holds
<1> QED
  BY <1>1, Invariance, PTL

\* A leader's last successful request is younger than the TTL: it resigns before
\* the key can expire (fence.go:48-50, 57-58).
THEOREM TermWithinLease == Spec => []LeadsWithinLease
<1>1. IInv => LeadsWithinLease
  BY Zenon, HolderYoung DEF LeadsWithinLease, Holds
<1> QED
  BY <1>1, Invariance, PTL

\* One failed beat does not depose a leader that owns its key, when timers and
\* calls together are late by less than a beat (fence.go:48, 53).
THEOREM OneSlip ==
    ASSUME Delay + MaxCall < Interval, StartDelay <= Interval
    PROVE  Spec => OneSlipTolerated
<1>1. ASSUME IInv, [Next]_vars PROVE OneSlipToleratedStep
  <2> SUFFICES ASSUME NEW m \in Holders, hb[m] = "running", errs[m] = 0, key = val[m],
                      hb'[m] = "lost"
               PROVE  FALSE
    BY Zenon DEF OneSlipToleratedStep
  <2>1. RenewRefused(m) \/ RenewFails(m)
    <3>1. ASSUME NEW n \in Holders, Progress(n) PROVE RenewRefused(m)
      BY Zenon, <1>1, <3>1 DEF Progress, Campaign, CampaignReturns, StartHeartbeat, EndTerm, StepDown,
         Released, Serve, Beat, Renewed, RenewRefused, ResultDropped, IInv, ElectionTypeOK,
         LockTypeOK
    <3>2. ASSUME NEW n \in Holders, Trouble(n) PROVE RenewFails(m)
      BY Zenon, <1>1, <3>2 DEF Trouble, CampaignFails, Yield, Stop, lockVars, Released, Crash, RenewFails,
         ResultDropped, IInv, ElectionTypeOK, LockTypeOK
    <3> QED
      BY Zenon, <1>1, <3>1, <3>2 DEF Next, vars, ExecuteLate, Tick
  <2>2. pc[m] = "leading" /\ rpc[m] # "zero"
    BY Zenon, <1>1 DEF IInv, ElectionTypeOK, HeartbeatCoherent, HolderOwnsKey
  <2>3. age[m] >= 2 * Interval /\ rpc[m] # "none"
    <3>1. FenceAfter(TTL, Interval, MaxCall) = 2 * Interval
      BY HeartbeatAssumption, LockAssumption DEF FenceAfter, Larger
    <3>2. RenewFails(m)
      BY Zenon, <2>1, <2>2 DEF RenewRefused
    <3>3. hb' # hb
      BY Zenon
    <3> QED
      BY Zenon, <3>1, <3>2, <3>3 DEF RenewFails
  <2>4. age[m] <= Larger(Interval, StartDelay) + Delay + since[m] /\ since[m] <= MaxCall
    BY Zenon, <1>1, <2>3 DEF IInv, BeatsInTime
  <2>5. age[m] \in Nat /\ since[m] \in Nat
    BY Zenon, <1>1 DEF IInv, ElectionTypeOK, LockTypeOK
  <2> QED
    BY <2>3, <2>4, <2>5, LockAssumption DEF Larger
<1> QED
  BY <1>1, Invariance, PTL DEF Spec, OneSlipTolerated

=============================================================================
