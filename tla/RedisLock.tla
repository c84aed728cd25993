------------------------------- MODULE RedisLock -------------------------------
(***************************************************************************)
(* A lock in Redis with a TTL and a heartbeat that renews it, as shared by *)
(* the leader election of src/go/shared/leader and the player lock of      *)
(* login.  Time is discrete and only differences matter: left is what      *)
(* remains of the key's TTL, age[n] the time since n SENT its last         *)
(* successful SETNX or renewal (lastOK), since[n] the age of the call n    *)
(* has in flight.  A call may fail before or after Redis executed it, and  *)
(* a command whose caller gave up may still be executed later (late).      *)
(***************************************************************************)
EXTENDS Integers, FiniteSets

CONSTANTS
    Holders,     \* processes that compete for the key
    Values,      \* lock values: random, fresh for every attempt
    None,        \* no such key
    TTL,         \* time to live of the key
    Interval,    \* time between two beats
    MaxCall,     \* a renewal returns within this time
    Delay,       \* how late a timer may fire
    StartDelay,  \* from sending SETNX to the first wait of the heartbeat
    MaxLate      \* bound on the commands still on the wire

ASSUME LockAssumption ==
    /\ None \notin Values
    /\ TTL \in Nat /\ Interval \in Nat /\ MaxCall \in Nat
    /\ Delay \in Nat /\ StartDelay \in Nat /\ MaxLate \in Nat

VARIABLES
    key,    \* the value stored under the lock key, or None
    left,   \* remaining time to live of the key
    late,   \* commands of callers that gave up
    val,    \* the value of each process's present attempt
    hb,     \* heartbeat goroutine: "off", "running", "lost" or "stopped"
    age,    \* time since lastOK
    errs,   \* failed beats since lastOK
    rpc,    \* call in flight: "none", "sent", or its answer "ok" / "zero"
    since   \* time since that call was sent

serverVars == <<key, left, late>>
beatVars == <<hb, age, errs, rpc, since>>
lockVars == <<key, left, late, val, hb, age, errs, rpc, since>>

Op == {"setnx", "renew", "release"}

LockTypeOK ==
    /\ key \in Values \cup {None}
    /\ left \in 0..TTL
    /\ late \subseteq [op : Op, val : Values]
    /\ val \in [Holders -> Values \cup {None}]
    /\ hb \in [Holders -> {"off", "running", "lost", "stopped"}]
    /\ age \in [Holders -> Nat]
    /\ errs \in [Holders -> Nat]
    /\ rpc \in [Holders -> {"none", "sent", "ok", "zero"}]
    /\ since \in [Holders -> Nat]

Larger(a, b) == IF a < b THEN b ELSE a

-----------------------------------------------------------------------------
(* What Redis does *)

\* SETNX needs a free key, the two scripts the caller's own value in it.
answer(op, v) ==
    IF key = (IF op = "setnx" THEN None ELSE v) THEN "ok" ELSE "zero"

execute(op, v) ==
    IF answer(op, v) = "ok"
    THEN /\ key' = IF op = "release" THEN None ELSE v
         /\ left' = IF op = "release" THEN 0 ELSE TTL
    ELSE UNCHANGED <<key, left>>

Serve(n, op) ==
    /\ rpc[n] = "sent"
    /\ execute(op, val[n])
    /\ rpc' = [rpc EXCEPT ![n] = answer(op, val[n])]
    /\ UNCHANGED <<late, val, hb, age, errs, since>>

\* The caller stops waiting; a command not yet executed may stay on the wire.
mayLinger(n, op) ==
    \/ late' = late
    \/ /\ rpc[n] = "sent"
       /\ Cardinality(late) < MaxLate
       /\ late' = late \cup {[op |-> op, val |-> val[n]]}

ExecuteLate(c) ==
    /\ c \in late
    /\ execute(c.op, c.val)
    /\ late' = late \ {c}
    /\ UNCHANGED <<val, hb, age, errs, rpc, since>>

\* A failover of Redis loses the key.
LoseKey ==
    /\ key # None
    /\ key' = None /\ left' = 0
    /\ UNCHANGED <<late, val, hb, age, errs, rpc, since>>

-----------------------------------------------------------------------------
(* The heartbeat *)

send(n) ==
    /\ rpc' = [rpc EXCEPT ![n] = "sent"]
    /\ since' = [since EXCEPT ![n] = 0]

returned(n) ==
    /\ rpc' = [rpc EXCEPT ![n] = "none"]
    /\ since' = [since EXCEPT ![n] = 0]

\* Mutant: the threshold is a single interval.
FenceAfter_oneBeat(ttl, interval, maxCall) == interval

\* How long after lastOK a failed renewal makes the holder give up: the second
\* failed beat, when that one is sure to return before the key expires;
\* otherwise any.
FenceAfter(ttl, interval, maxCall) ==
    IF maxCall < interval /\ 2 * interval + maxCall < ttl THEN 2 * interval ELSE 0

\* Beats are scheduled from lastOK, not from when the goroutine started.
nextBeat(n) == (errs[n] + 1) * Interval

Beat(n) ==
    /\ hb[n] = "running"
    /\ rpc[n] = "none"
    /\ age[n] >= nextBeat(n)
    /\ send(n)
    /\ UNCHANGED <<key, left, late, val, hb, age, errs>>

\* Mutant: lastOK is when the answer arrived, not when the request left.
Renewed_atReply(n) ==
    /\ hb[n] = "running" /\ rpc[n] = "ok"
    /\ age' = [age EXCEPT ![n] = 0]
    /\ errs' = [errs EXCEPT ![n] = 0]
    /\ returned(n)
    /\ UNCHANGED <<key, left, late, val, hb>>

Renewed(n) ==
    /\ hb[n] = "running" /\ rpc[n] = "ok"
    /\ age' = [age EXCEPT ![n] = since[n]]
    /\ errs' = [errs EXCEPT ![n] = 0]
    /\ returned(n)
    /\ UNCHANGED <<key, left, late, val, hb>>

\* Mutant: a renewal that extended nothing is taken for a success.
RenewRefused_ignored(n) ==
    /\ hb[n] = "running" /\ rpc[n] = "zero"
    /\ age' = [age EXCEPT ![n] = since[n]]
    /\ errs' = [errs EXCEPT ![n] = 0]
    /\ returned(n)
    /\ UNCHANGED <<key, left, late, val, hb>>

\* Somebody else owns the key, or nobody.
RenewRefused(n) ==
    /\ hb[n] = "running" /\ rpc[n] = "zero"
    /\ hb' = [hb EXCEPT ![n] = "lost"]
    /\ returned(n)
    /\ UNCHANGED <<key, left, late, val, age, errs>>

\* Mutant: an error is always taken for a transient one.
RenewFails_retriesForever(n) ==
    /\ hb[n] = "running" /\ rpc[n] # "none"
    /\ errs' = [errs EXCEPT ![n] = @ + 1]
    /\ mayLinger(n, "renew")
    /\ returned(n)
    /\ UNCHANGED <<key, left, val, age, hb>>

RenewFails(n) ==
    /\ hb[n] = "running" /\ rpc[n] # "none"
    /\ IF age[n] >= FenceAfter(TTL, Interval, MaxCall)
       THEN hb' = [hb EXCEPT ![n] = "lost"] /\ UNCHANGED errs
       ELSE errs' = [errs EXCEPT ![n] = @ + 1] /\ UNCHANGED hb
    /\ mayLinger(n, "renew")
    /\ returned(n)
    /\ UNCHANGED <<key, left, val, age>>

\* A renewal that comes back after stop() was called: its result is dropped.
ResultDropped(n) ==
    /\ hb[n] = "stopped" /\ rpc[n] # "none"
    /\ mayLinger(n, "renew")
    /\ returned(n)
    /\ UNCHANGED <<key, left, val, hb, age, errs>>

\* Time cannot pass a timer by more than Delay, nor a call by MaxCall.
beatInTime(n) ==
    /\ hb[n] = "running" /\ rpc[n] = "none" =>
          age[n] < Larger(nextBeat(n), StartDelay) + Delay
    /\ hb[n] \in {"running", "stopped"} /\ rpc[n] # "none" => since[n] < MaxCall

keyTicks ==
    /\ key' = IF left <= 1 THEN None ELSE key
    /\ left' = IF left = 0 THEN 0 ELSE left - 1
=============================================================================
