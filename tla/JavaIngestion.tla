---------------------------- MODULE JavaIngestion ----------------------------
(***************************************************************************)
(* The Java service/BridgeIngestionService.java with IdempotencyService    *)
(* .java, in front of JpaSettlement.  Every request has a thread, so that  *)
(* between the claim, the checks and settle() anything may happen: the     *)
(* eviction timer, POST /api/mesh/reset, the clock.  Time is counted in    *)
(* ticks, of which a second has SecondTicks, because ages are computed in  *)
(* whole seconds and cache entries are not.                                *)
(***************************************************************************)
EXTENDS JpaSettlement

CONSTANTS
    Tampered,        \* packets whose ciphertext was altered on the way
    SecondTicks,     \* ticks per second
    MaxAge,          \* upi.mesh.packet-max-age-seconds
    Ttl,             \* upi.mesh.idempotency-ttl-seconds
    Skew,            \* the 300 seconds of clock-skew tolerance
    ClockOffsets,    \* how many ticks a sender's clock may be off
    MaxTime          \* bound: the last tick

VARIABLES
    now,             \* Instant.now() of the server
    signedAt,        \* signedAt[p] : the sender's clock when p was made
    made,            \* the packets made so far
    seen,            \* seen[p] : when p was claimed, 0 if not in the map
    upload,          \* upload[c] : the packet request c delivers
    gate             \* gate[c] : where ingest() stands, or its verdict

ingestVars == <<now, signedAt, made, seen, upload, gate>>

javaVars == <<ingestVars, jpaVars>>

ASSUME IngestAssumption ==
    /\ SecondTicks \in Nat \ {0}
    /\ MaxAge \in Nat /\ Ttl \in Nat /\ Skew \in Nat
    /\ ClockOffsets \subseteq Int
    /\ MaxTime \in Nat

IngestInit ==
    /\ JpaInit
    /\ now = 1
    /\ signedAt = [p \in Payments |-> 0]
    /\ made = {}
    /\ seen = [p \in Payments |-> 0]
    /\ upload = [c \in Calls |-> NoPayment]
    /\ gate = [c \in Calls |-> "none"]

-----------------------------------------------------------------------------
CreatePacket(p, offset) ==
    /\ p \notin made
    /\ made' = made \cup {p}
    /\ signedAt' = [signedAt EXCEPT ![p] = now + offset]
    /\ UNCHANGED <<now, seen, upload, gate, jpaVars>>

\* mutant: all packets share one entry
ClaimAnyHash(c, p) ==
    /\ gate[c] = "none" /\ p \in made
    /\ upload' = [upload EXCEPT ![c] = p]
    /\ IF \A q \in Payments : seen[q] = 0
       THEN /\ seen' = [seen EXCEPT ![p] = now]
            /\ gate' = [gate EXCEPT ![c] = "claimed"]
       ELSE gate' = [gate EXCEPT ![c] = "duplicate"] /\ UNCHANGED seen
    /\ UNCHANGED <<now, signedAt, made, jpaVars>>

\* putIfAbsent: one thread gets the hash, the others are turned away.
Claim(c, p) ==
    /\ gate[c] = "none" /\ p \in made
    /\ upload' = [upload EXCEPT ![c] = p]
    /\ IF seen[p] = 0
       THEN /\ seen' = [seen EXCEPT ![p] = now]
            /\ gate' = [gate EXCEPT ![c] = "claimed"]
       ELSE gate' = [gate EXCEPT ![c] = "duplicate"] /\ UNCHANGED seen
    /\ UNCHANGED <<now, signedAt, made, jpaVars>>

\* Java divides towards zero.
Seconds(ticks) == IF ticks >= 0 THEN ticks \div SecondTicks
                  ELSE -((-ticks) \div SecondTicks)

AgeInTicks(p) == now - signedAt[p]

ageSeconds(p) == Seconds(AgeInTicks(p))

\* The decryption and the freshness check of a claimed packet.
Check(c) ==
    LET p == upload[c]
        verdict == IF p \in Tampered THEN "undecryptable"
                   ELSE IF ageSeconds(p) > MaxAge THEN "stale"
                   ELSE IF ageSeconds(p) < -Skew THEN "future"
                   ELSE "passed" IN
    /\ gate[c] = "claimed"
    /\ gate' = [gate EXCEPT ![c] = verdict]
    /\ IF verdict = "passed" THEN Begin(c, p) ELSE UNCHANGED jpaVars
    /\ UNCHANGED <<now, signedAt, made, seen, upload>>

Settling(c) ==
    /\ JpaStep(c) \/ Throw(c)
    /\ UNCHANGED ingestVars

evictExpired ==
    /\ \E p \in Payments : seen[p] # 0 /\ seen[p] < now - Ttl * SecondTicks
    /\ seen' = [p \in Payments |-> IF seen[p] < now - Ttl * SecondTicks THEN 0 ELSE seen[p]]
    /\ UNCHANGED <<now, signedAt, made, upload, gate, jpaVars>>

\* The second half of POST /api/mesh/reset.
clear ==
    /\ \E p \in Payments : seen[p] # 0
    /\ seen' = [p \in Payments |-> 0]
    /\ UNCHANGED <<now, signedAt, made, upload, gate, jpaVars>>

Tick ==
    /\ now < MaxTime
    /\ now' = now + 1
    /\ UNCHANGED <<signedAt, made, seen, upload, gate, jpaVars>>

IngestNext ==
    \/ \E p \in Payments, offset \in ClockOffsets : CreatePacket(p, offset)
    \/ \E c \in Calls, p \in Payments : Claim(c, p)
    \/ \E c \in Calls : Check(c) \/ Settling(c)
    \/ evictExpired
    \/ clear
    \/ Tick

IngestSpec == IngestInit /\ [][IngestNext]_javaVars

\* The scheduler runs every thread, and H2 ends every wait.
IngestFairSpec ==
    IngestSpec /\ \A c \in Calls : WF_javaVars(JpaStep(c) /\ UNCHANGED ingestVars)

-----------------------------------------------------------------------------
(* Whenever the map forgets a hash, even with its first copy still on the  *)
(* way through, a second copy changes nothing: a packet that passes again  *)
(* ends without a verdict of its own, and the record stays.                *)
SecondPassIsHarmless ==
    \A c, d \in Calls :
        (c # d /\ gate[c] = "passed" /\ gate[d] = "passed" /\ upload[c] = upload[d]) =>
            ~(pc[c] \in {"settled", "rejected"} /\ pc[d] \in {"settled", "rejected"})

(* A copy is dropped only if another request had claimed the same packet.  *)
DropsOnlyCopies ==
    \A c \in Calls :
        gate[c] = "duplicate" =>
            \E d \in Calls : upload[d] = upload[c] /\ gate[d] \notin {"none", "duplicate"}

=============================================================================
