---------------------------- MODULE LeaderElection ----------------------------
(***************************************************************************)
(* The elector of src/go/shared/leader: replicas campaign for the lock,    *)
(* lead while the heartbeat keeps it, and step down when it is lost, when  *)
(* Stop is called or when the leader's work returns.                       *)
(***************************************************************************)
EXTENDS RedisLock

\* The conditions under which the self-fencing is promised (fence.go:37-58): the
\* second failed beat returns before the key expires, late timers included.
ASSUME HeartbeatAssumption ==
    /\ MaxCall < Interval
    /\ Larger(2 * Interval, StartDelay) + Delay + MaxCall < TTL

VARIABLES
    pc,         \* where Run is
    cancelled,  \* has the leader context been cancelled?
    stopped     \* has Stop been called?

vars == <<key, left, late, val, hb, age, errs, rpc, since, pc, cancelled, stopped>>
runVars == <<pc, cancelled, stopped>>

goto(n, p) == pc' = [pc EXCEPT ![n] = p]

Init ==
    /\ key = None /\ left = 0 /\ late = {}
    /\ val = [n \in Holders |-> None]
    /\ hb = [n \in Holders |-> "off"]
    /\ age = [n \in Holders |-> 0]
    /\ errs = [n \in Holders |-> 0]
    /\ rpc = [n \in Holders |-> "none"]
    /\ since = [n \in Holders |-> 0]
    /\ pc = [n \in Holders |-> "candidate"]
    /\ cancelled = [n \in Holders |-> FALSE]
    /\ stopped = [n \in Holders |-> FALSE]

\* A value nobody has drawn before.
FreshValues == Values \ ({key} \cup {val[n] : n \in Holders} \cup {c.val : c \in late})

\* What Run sends in each of its states.
opOf(n) ==
    IF pc[n] = "campaign" THEN "setnx" ELSE IF pc[n] = "release" THEN "release" ELSE "renew"

IsLeader(n) == pc[n] \in {"elected", "leading", "draining"}

-----------------------------------------------------------------------------
(* Run *)

\* The top of the loop.
Campaign(n) ==
    /\ \/ pc[n] = "candidate"
       \/ pc[n] = "waiting" /\ age[n] >= Interval
    /\ IF stopped[n]
       THEN /\ goto(n, "exited")
            /\ UNCHANGED <<val, age, rpc, since>>
       ELSE \E v \in FreshValues :
            /\ goto(n, "campaign")
            /\ val' = [val EXCEPT ![n] = v]
            /\ age' = [age EXCEPT ![n] = 0]
            /\ send(n)
    /\ UNCHANGED <<key, left, late, hb, errs, cancelled, stopped>>

wait(n) ==
    /\ goto(n, "waiting")
    /\ val' = [val EXCEPT ![n] = None]
    /\ age' = [age EXCEPT ![n] = 0]

\* SETNX has answered: leader, or another round after Interval.
CampaignReturns(n) ==
    /\ pc[n] = "campaign" /\ rpc[n] \in {"ok", "zero"}
    /\ IF rpc[n] = "ok" THEN goto(n, "elected") /\ UNCHANGED <<val, age>> ELSE wait(n)
    /\ returned(n)
    /\ UNCHANGED <<key, left, late, hb, errs, cancelled, stopped>>

\* Mutant: an error of SETNX ends the candidate loop.
CampaignFails_exits(n) ==
    /\ pc[n] = "campaign"
    /\ goto(n, "exited")
    /\ val' = [val EXCEPT ![n] = None]
    /\ mayLinger(n, "setnx")
    /\ returned(n)
    /\ UNCHANGED <<key, left, hb, age, errs, cancelled, stopped>>

CampaignFails(n) ==
    /\ pc[n] = "campaign"
    /\ wait(n)
    /\ mayLinger(n, "setnx")
    /\ returned(n)
    /\ UNCHANGED <<key, left, hb, errs, cancelled, stopped>>

\* notify(true) has returned; leadCancel is published, the heartbeat starts.
StartHeartbeat(n) ==
    /\ pc[n] = "elected"
    /\ goto(n, "leading")
    /\ hb' = [hb EXCEPT ![n] = "running"]
    /\ errs' = [errs EXCEPT ![n] = 0]
    /\ UNCHANGED <<key, left, late, val, age, rpc, since, cancelled, stopped>>

\* The leader's work returns before it is told to.
Yield(n) ==
    /\ pc[n] = "leading"
    /\ cancelled' = [cancelled EXCEPT ![n] = TRUE]
    /\ UNCHANGED <<lockVars, pc, stopped>>

\* Stop cancels the leader context only if Run has already published it.
Stop(n) ==
    /\ ~stopped[n]
    /\ stopped' = [stopped EXCEPT ![n] = TRUE]
    /\ cancelled' = [cancelled EXCEPT ![n] = @ \/ pc[n] = "leading"]
    /\ UNCHANGED <<lockVars, pc>>

mustEnd(n) == pc[n] = "leading" /\ (cancelled[n] \/ hb[n] = "lost")

\* whileLeader has returned: stopHB closes stopCh and waits for the goroutine.
EndTerm(n) ==
    /\ mustEnd(n)
    /\ goto(n, "draining")
    /\ hb' = [hb EXCEPT ![n] = "stopped"]
    /\ UNCHANGED <<key, left, late, val, age, errs, rpc, since, cancelled, stopped>>

\* isLeader is cleared and the release sent.
StepDown(n) ==
    /\ pc[n] = "draining" /\ rpc[n] = "none"
    /\ goto(n, "release")
    /\ hb' = [hb EXCEPT ![n] = "off"]
    /\ send(n)
    /\ UNCHANGED <<key, left, late, val, age, errs, cancelled, stopped>>

\* The release has answered or failed; either way the loop goes on.
Released(n) ==
    /\ pc[n] = "release"
    /\ goto(n, "candidate")
    /\ cancelled' = [cancelled EXCEPT ![n] = FALSE]
    /\ val' = [val EXCEPT ![n] = None]
    /\ age' = [age EXCEPT ![n] = 0]
    /\ mayLinger(n, "release")
    /\ returned(n)
    /\ UNCHANGED <<key, left, hb, errs, stopped>>

\* The process dies and another one is started.
Crash(n) ==
    /\ pc[n] # "candidate"
    /\ goto(n, "candidate")
    /\ cancelled' = [cancelled EXCEPT ![n] = FALSE]
    /\ stopped' = [stopped EXCEPT ![n] = FALSE]
    /\ val' = [val EXCEPT ![n] = None]
    /\ hb' = [hb EXCEPT ![n] = "off"]
    /\ age' = [age EXCEPT ![n] = 0]
    /\ errs' = [errs EXCEPT ![n] = 0]
    /\ mayLinger(n, opOf(n))
    /\ returned(n)
    /\ UNCHANGED <<key, left>>

-----------------------------------------------------------------------------

Ages(n) == IsLeader(n) \/ pc[n] \in {"campaign"} \/ (pc[n] = "waiting" /\ age[n] < Interval)

\* Time passes unless something is due now.
Tick ==
    /\ \A n \in Holders :
          /\ beatInTime(n)
          /\ pc[n] \in {"campaign", "elected"} => age[n] < StartDelay
          /\ pc[n] = "release" => since[n] < MaxCall
          /\ ~mustEnd(n)
          /\ ~(pc[n] = "draining" /\ rpc[n] = "none")
    /\ keyTicks
    /\ age' = [n \in Holders |-> IF Ages(n) THEN age[n] + 1 ELSE age[n]]
    /\ since' = [n \in Holders |-> IF rpc[n] = "none" THEN 0 ELSE since[n] + 1]
    /\ UNCHANGED <<late, val, hb, errs, rpc, pc, cancelled, stopped>>

Progress(n) ==
    \/ Campaign(n)
    \/ CampaignReturns(n)
    \/ StartHeartbeat(n)
    \/ EndTerm(n)
    \/ StepDown(n)
    \/ rpc[n] \in {"ok", "zero"} /\ Released(n)
    \/ /\ \/ Serve(n, opOf(n))
          \/ Beat(n)
          \/ Renewed(n)
          \/ RenewRefused(n)
          \/ rpc[n] # "sent" /\ ResultDropped(n)
       /\ UNCHANGED runVars

Trouble(n) ==
    \/ CampaignFails(n)
    \/ Yield(n)
    \/ Stop(n)
    \/ Released(n)
    \/ Crash(n)
    \/ (RenewFails(n) \/ ResultDropped(n)) /\ UNCHANGED runVars

Next ==
    \/ \E n \in Holders : Progress(n) \/ Trouble(n)
    \/ (\E c \in late : ExecuteLate(c)) /\ UNCHANGED runVars
    \/ Tick

Spec == Init /\ [][Next]_vars

-----------------------------------------------------------------------------

\* The run is at one of its calls, and every counter is a time.
ElectionTypeOK ==
    /\ LockTypeOK
    /\ pc \in [Holders -> {"candidate", "waiting", "campaign", "elected", "leading",
                           "draining", "release", "exited"}]
    /\ cancelled \in [Holders -> BOOLEAN]
    /\ stopped \in [Holders -> BOOLEAN]

\* Never two leaders: whoever cannot renew has stepped down before Redis lets
\* the key expire, whatever calls fail, hang or are executed late
\* (leader.go:12-16, fence.go:60-66).
MutualExclusion ==
    \A m, n \in Holders : IsLeader(m) /\ IsLeader(n) => m = n

\* A leader's last successful request was sent less than a TTL ago, even one
\* whose key Redis has lost: its term is bounded (fence.go:58).
LeadsWithinLease == \A n \in Holders : IsLeader(n) => age[n] < TTL

OneSlipToleratedStep ==
    \A n \in Holders :
        hb[n] = "running" /\ errs[n] = 0 /\ key = val[n] => hb'[n] # "lost"

\* A leader that still owns the key does not resign over its first failed beat
\* (fence.go:56).
OneSlipTolerated == [][OneSlipToleratedStep]_vars

-----------------------------------------------------------------------------
(* What makes mutual exclusion inductive *)

\* Has n's value been stored by Redis, as far as n may know?
Holds(n) == IsLeader(n) \/ (pc[n] = "campaign" /\ rpc[n] = "ok")

\* A holder's key stands, for at least what remains of the TTL counted from the
\* sending of the last successful request.
HolderOwnsKey ==
    \A n \in Holders :
        /\ Holds(n) => key = val[n] /\ val[n] # None /\ TTL <= left + age[n]
        /\ pc[n] \in {"leading", "draining"} =>
              rpc[n] # "zero" /\ (rpc[n] = "ok" => TTL <= left + since[n])

\* No two attempts share a value; of the commands still on the wire only a
\* renewal can be one of a present attempt.
ValuesDistinct ==
    /\ \A m, n \in Holders : val[m] = val[n] /\ val[m] # None => m = n
    /\ \A c \in late, n \in Holders : c.val = val[n] => c.op = "renew"
    /\ \A n \in Holders : rpc[n] # "none" => val[n] # None

HeartbeatCoherent ==
    \A n \in Holders :
        /\ hb[n] = CASE pc[n] = "draining" -> "stopped"
                     [] pc[n] = "leading" /\ hb[n] = "lost" -> "lost"
                     [] pc[n] = "leading" /\ hb[n] # "lost" -> "running"
                     [] OTHER -> "off"
        /\ hb[n] = "lost" => rpc[n] = "none"
        /\ pc[n] \in {"candidate", "waiting", "elected", "exited"} => rpc[n] = "none"

LatestBeat == Larger(2 * Interval, StartDelay) + Delay

\* The second failed beat is the last, and every beat is in time.
BeatsInTime ==
    \A n \in Holders :
        /\ pc[n] \in {"campaign", "elected"} => age[n] <= StartDelay
        /\ pc[n] = "leading" => errs[n] \in {0, 1}
        /\ hb[n] = "running" /\ rpc[n] = "none" =>
              age[n] <= Larger(nextBeat(n), StartDelay) + Delay
        /\ hb[n] = "running" /\ rpc[n] # "none" => age[n] >= nextBeat(n)
        /\ hb[n] = "running" /\ rpc[n] # "none" /\ errs[n] = 0 =>
              age[n] <= Larger(Interval, StartDelay) + Delay + since[n]
        /\ hb[n] \in {"running", "stopped"} /\ rpc[n] # "none" =>
              since[n] <= MaxCall /\ age[n] <= LatestBeat + since[n]
        /\ hb[n] \in {"lost", "stopped"} => age[n] <= LatestBeat + MaxCall

IInv ==
    /\ ElectionTypeOK /\ HolderOwnsKey /\ ValuesDistinct
    /\ HeartbeatCoherent /\ BeatsInTime
=============================================================================
