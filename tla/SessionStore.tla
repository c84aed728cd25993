----------------------------- MODULE SessionStore -----------------------------
(***************************************************************************)
(* The Redis-resident state of player_locator and the Lua scripts that are *)
(* the only writers of it (session_cas.go, gate_session_index.go).  Every  *)
(* script runs atomically, so each is one step; the Go code around a       *)
(* script decides from a record it read EARLIER, which is why a script     *)
(* takes that record ("expected") as an argument and compares whole bytes. *)
(*                                                                         *)
(* Scores of the two lease ZSETs are deadlines.  Only "has it passed?"     *)
(* matters to the scripts, so a deadline is "pending" or "due", and time   *)
(* is a step of its own (LeaseFallsDue, ClaimFallsDue).                    *)
(***************************************************************************)
EXTENDS Integers, FiniteSets

CONSTANTS
    Players,        \* player ids
    Gates,          \* gate_instance_id of gate processes
    NoGate,         \* the empty gate_instance_id
    SessionIds,     \* session ids handed out by gates (reused across instances)
    Accounts,       \* account names
    MaxVersion,     \* bound on session_version
    MaxGeneration,  \* bound on login_generation (0 = legacy login without one)
    Tokens,         \* claim tokens: uuids, fresh when drawn
    NoToken,        \* no entry in the token hash
    BatchSize,      \* LeaseMonitor batch size
    None            \* redis nil: no session, no payload

ASSUME StoreAssumption ==
    /\ NoGate \notin Gates
    /\ NoToken \notin Tokens
    /\ MaxVersion \in Nat \ {0}
    /\ MaxGeneration \in Nat
    /\ BatchSize \in Nat \ {0}
    /\ None \notin Players

VARIABLES
    session,     \* player:session:{id}: the record, or None
    ready,       \* lease ZSET: "none", "pending" or "due"
    processing,  \* lease processing ZSET: "none", "pending" or "due"
    token,       \* claim token hash
    payload,     \* claim payload hash
    index,       \* player:gate_index:{gate}: set of players
    registry     \* gates whose index may be non-empty

storeVars == <<session, ready, processing, token, payload, index, registry>>

Online == "ONLINE"
Disconnecting == "DISCONNECTING"

PlayerSession ==
    [sid : SessionIds, ver : 1..MaxVersion, gen : 0..MaxGeneration,
     gate : Gates \cup {NoGate}, account : Accounts,
     state : {Online, Disconnecting}]

ASSUME NoneAssumption == None \notin PlayerSession

Deadline == {"none", "pending", "due"}

StoreTypeOK ==
    /\ session \in [Players -> PlayerSession \cup {None}]
    /\ ready \in [Players -> Deadline]
    /\ processing \in [Players -> Deadline]
    /\ token \in [Players -> Tokens \cup {NoToken}]
    /\ payload \in [Players -> PlayerSession \cup {None}]
    /\ index \in [Gates -> SUBSET Players]
    /\ registry \subseteq Gates

-----------------------------------------------------------------------------
(* Derived facts *)

InState(s, st) == s # None /\ s.state = st

\* The index a session belongs in; the empty id is "in none".
indexedGate(s) == IF InState(s, Online) THEN s.gate ELSE NoGate

\* 0 is "no generation": never compared.
loginGenerationAdvances(current, incoming) ==
    current = 0 \/ incoming = 0 \/ incoming > current

CleanupPending(p) ==
    processing[p] # "none" \/ token[p] # NoToken \/ payload[p] # None

-----------------------------------------------------------------------------
(* Pieces shared by the scripts *)

dropClaim(p) ==
    /\ processing' = [processing EXCEPT ![p] = "none"]
    /\ token' = [token EXCEPT ![p] = NoToken]
    /\ payload' = [payload EXCEPT ![p] = None]

\* SREM from the old index unless it is also the new one, then SADD.
moveIndex(p, old, new) ==
    /\ index' = [g \in Gates |->
                    IF g = new THEN index[g] \cup {p}
                    ELSE IF g = old THEN index[g] \ {p} ELSE index[g]]
    /\ registry' = registry \cup ({new} \cap Gates)

-----------------------------------------------------------------------------
(* The scripts.  expected = None is the "missing" mode. *)

\* Mutant: the script writes whatever the current bytes are.
replaceSessionResult_noCas(p, expected) ==
    IF expected = None /\ CleanupPending(p) THEN "cleanupPending" ELSE "applied"

\* Mutant: a first write does not wait for a cleanup to be acknowledged.
replaceSessionResult_noFailClosed(p, expected) ==
    IF session[p] # expected THEN "conflict" ELSE "applied"

replaceSessionResult(p, expected) ==
    IF session[p] # expected THEN "conflict"
    ELSE IF expected = None /\ CleanupPending(p) THEN "cleanupPending"
    ELSE "applied"

replaceSessionAndCancelLease(p, expected, next) ==
    IF replaceSessionResult(p, expected) = "applied"
    THEN /\ session' = [session EXCEPT ![p] = next]
         /\ ready' = [ready EXCEPT ![p] = "none"]
         /\ dropClaim(p)
         /\ moveIndex(p, indexedGate(expected), indexedGate(next))
    ELSE UNCHANGED storeVars

\* Mutant: the player is left in the old gate's index.
transitionToDisconnecting_keepsIndex(p, expected, next) ==
    IF session[p] = expected
    THEN /\ session' = [session EXCEPT ![p] = next]
         /\ ready' = [ready EXCEPT ![p] = "pending"]
         /\ dropClaim(p)
         /\ UNCHANGED <<index, registry>>
    ELSE UNCHANGED storeVars

transitionToDisconnecting(p, expected, next) ==
    IF session[p] = expected
    THEN /\ session' = [session EXCEPT ![p] = next]
         /\ ready' = [ready EXCEPT ![p] = "pending"]
         /\ dropClaim(p)
         /\ moveIndex(p, indexedGate(expected), NoGate)
    ELSE UNCHANGED storeVars

deleteSessionIfUnchanged(p, expected) ==
    IF session[p] = expected
    THEN /\ session' = [session EXCEPT ![p] = None]
         /\ ready' = [ready EXCEPT ![p] = "none"]
         /\ dropClaim(p)
         /\ moveIndex(p, indexedGate(expected), NoGate)
    ELSE UNCHANGED storeVars

enqueueOfflineCleanup(p, snapshot) ==
    IF session[p] = None
    THEN /\ \E when \in {"pending", "due"} : ready' = [ready EXCEPT ![p] = when]
         /\ payload' = [payload EXCEPT ![p] = snapshot]
         /\ UNCHANGED <<session, processing, token, index, registry>>
    ELSE UNCHANGED storeVars

\* A prefix of a ZRANGEBYSCORE ... LIMIT over the members S.
Limited(S) ==
    {T \in SUBSET S : Cardinality(T) = BatchSize
                      \/ (T = S /\ Cardinality(S) < BatchSize)}

\* The payload a claim returns: the live record, else what the hash kept.
claimedPayload(p) == IF session[p] # None THEN session[p] ELSE payload[p]

\* Mutant: timed-out claims stay where they are.
claimExpiredLeases_noRecovery(recovered, claimed, t) ==
    /\ recovered = {}
    /\ claimed \in Limited({p \in Players : ready[p] = "due"})
    /\ ready' = [p \in Players |-> IF p \in claimed THEN "none" ELSE ready[p]]
    /\ processing' = [p \in Players |-> IF p \in claimed THEN "pending" ELSE processing[p]]
    /\ token' = [p \in Players |-> IF p \in claimed THEN t ELSE token[p]]
    /\ payload' = [p \in Players |-> IF p \in claimed THEN claimedPayload(p) ELSE payload[p]]
    /\ UNCHANGED <<session, index, registry>>

\* Timed-out claims go back to ready without their token, then due leases are
\* moved to processing under the token t of this batch.
claimExpiredLeases(recovered, claimed, t) ==
    /\ recovered \in Limited({p \in Players : processing[p] = "due"})
    /\ claimed \in Limited({p \in Players : ready[p] = "due"} \cup recovered)
    /\ ready' = [p \in Players |-> IF p \in claimed THEN "none"
                                   ELSE IF p \in recovered THEN "due"
                                   ELSE ready[p]]
    /\ processing' = [p \in Players |-> IF p \in claimed THEN "pending"
                                        ELSE IF p \in recovered THEN "none"
                                        ELSE processing[p]]
    /\ token' = [p \in Players |-> IF p \in claimed THEN t
                                   ELSE IF p \in recovered THEN NoToken
                                   ELSE token[p]]
    /\ payload' = [p \in Players |-> IF p \in claimed THEN claimedPayload(p)
                                     ELSE payload[p]]
    /\ UNCHANGED <<session, index, registry>>

commitLeaseExpiryResult(p, t, snapshot) ==
    IF token[p] # t THEN "notOwned"
    ELSE IF session[p] # None /\ session[p] # snapshot THEN "superseded"
    ELSE "committed"

\* Mutant: the script checks the claim and leaves the session in place.
commitLeaseExpiry_leavesSession(p, t, snapshot) ==
    /\ IF commitLeaseExpiryResult(p, t, snapshot) = "superseded"
       THEN dropClaim(p) ELSE UNCHANGED <<processing, token, payload>>
    /\ UNCHANGED <<session, ready, index, registry>>

commitLeaseExpiry(p, t, snapshot) ==
    LET result == commitLeaseExpiryResult(p, t, snapshot) IN
    /\ session' = IF result = "committed" THEN [session EXCEPT ![p] = None] ELSE session
    /\ IF result = "superseded" THEN dropClaim(p)
                                ELSE UNCHANGED <<processing, token, payload>>
    /\ UNCHANGED <<ready, index, registry>>

ackLeaseClaim(p, t) ==
    IF token[p] = t
    THEN dropClaim(p) /\ UNCHANGED <<session, ready, index, registry>>
    ELSE UNCHANGED storeVars

\* Mutant: a claim is renewed without comparing its token.
renewLeaseClaims_anyToken(claims) ==
    /\ processing' = [p \in Players |->
                        IF \E c \in claims : c.player = p
                        THEN "pending" ELSE processing[p]]
    /\ UNCHANGED <<session, ready, token, payload, index, registry>>

renewLeaseClaims(claims) ==
    /\ processing' = [p \in Players |->
                        IF \E c \in claims : c.player = p /\ c.token = token[p]
                        THEN "pending" ELSE processing[p]]
    /\ UNCHANGED <<session, ready, token, payload, index, registry>>

\* Mutant: the claim is dropped and the lease not put back.
rearmLeaseClaim_noZadd(p, t, snapshot) ==
    IF token[p] # t THEN UNCHANGED storeVars
    ELSE dropClaim(p) /\ UNCHANGED <<session, ready, index, registry>>

rearmLeaseClaim(p, t, snapshot) ==
    IF token[p] # t THEN UNCHANGED storeVars
    ELSE /\ dropClaim(p)
         /\ ready' = [ready EXCEPT ![p] =
                        IF session[p] # None /\ session[p] = snapshot
                        THEN "pending" ELSE @]
         /\ UNCHANGED <<session, index, registry>>

-----------------------------------------------------------------------------
(* The passing of time *)

LeaseFallsDue(p) ==
    /\ ready[p] = "pending"
    /\ ready' = [ready EXCEPT ![p] = "due"]
    /\ UNCHANGED <<session, processing, token, payload, index, registry>>

ClaimFallsDue(p) ==
    /\ processing[p] = "pending"
    /\ processing' = [processing EXCEPT ![p] = "due"]
    /\ UNCHANGED <<session, ready, token, payload, index, registry>>
=============================================================================
