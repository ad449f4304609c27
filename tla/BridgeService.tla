---------------------------- MODULE BridgeService ----------------------------
(***************************************************************************)
(* backend/services/bridgeService.js: ingest(), the pipeline every         *)
(* uploaded packet runs through, in front of settle().  The idempotency    *)
(* cache, the decryption and the freshness check run in one turn of the    *)
(* event loop, so they are one step; what follows is SettlementService.    *)
(*                                                                         *)
(* A packet is named by the hash of its ciphertext, which is what the      *)
(* cache and the unique index go by.  The mesh may deliver it any number   *)
(* of times, late and in any order.  The server's clock moves in ticks and *)
(* starts at 1, so that 0 marks a hash the cache does not hold.            *)
(***************************************************************************)
EXTENDS SettlementService

CONSTANTS
    Tampered,        \* packets whose ciphertext was altered on the way
    MaxAge,          \* PACKET_MAX_AGE_SECONDS, in ticks
    Ttl,             \* IDEMPOTENCY_TTL_SECONDS, in ticks
    Skew,            \* clockSkewSeconds, in ticks
    ClockOffsets,    \* how far a sender's clock may be off the server's
    MaxTime,         \* bound: the last tick
    MaxEpoch         \* bound: the server is started this many times

VARIABLES
    now,             \* Date.now() of the server
    keyEpoch,        \* the server's key pair: a new one with every start
    key,             \* key[p] : the key p was encrypted for; 0 before p exists
    signedAt,        \* signedAt[p] : the sender's clock when p was made
    seen,            \* seen[p] : when p was claimed, 0 if not in the cache
    upload,          \* upload[c] : the packet request c delivers
    gate             \* gate[c] : what the steps before settle() made of it

gateVars == <<now, keyEpoch, key, signedAt, seen, upload, gate>>

bridgeVars == <<gateVars, settlementVars>>

\* Nothing but the cache stands in front of settle().
ASSUME BridgeAssumption ==
    /\ Duplicates = TRUE
    /\ MaxAge \in Nat /\ Ttl \in Nat /\ Skew \in Nat
    /\ ClockOffsets \subseteq Int
    /\ MaxTime \in Nat /\ MaxEpoch \in Nat

Verdicts == {"none", "duplicate", "undecryptable", "stale", "future", "passed"}

BridgeTypeOK ==
    /\ SettlementTypeOK
    /\ now \in Nat \ {0} /\ keyEpoch \in Nat \ {0}
    /\ key \in [Payments -> Nat]
    /\ signedAt \in [Payments -> Int]
    /\ seen \in [Payments -> Nat]
    /\ upload \in [Calls -> Payments \cup {NoPayment}]
    /\ gate \in [Calls -> Verdicts]
    /\ \A c \in Calls : gate[c] # "none" => upload[c] \in Payments
    /\ \A c \in Calls : pay[c] = IF gate[c] = "passed" THEN upload[c] ELSE NoPayment
    /\ \A c \in Calls : gate[c] = "passed" <=> pc[c] # "idle"

BridgeInit ==
    /\ SettlementInit
    /\ now = 1 /\ keyEpoch = 1
    /\ key = [p \in Payments |-> 0]
    /\ signedAt = [p \in Payments |-> 0]
    /\ seen = [p \in Payments |-> 0]
    /\ upload = [c \in Calls |-> NoPayment]
    /\ gate = [c \in Calls |-> "none"]

-----------------------------------------------------------------------------
\* A sender's phone fills in signedAt and encrypts for the key it was given.
CreatePacket(p, offset) ==
    /\ key[p] = 0
    /\ key' = [key EXCEPT ![p] = keyEpoch]
    /\ signedAt' = [signedAt EXCEPT ![p] = now + offset]
    /\ UNCHANGED <<now, keyEpoch, seen, upload, gate, settlementVars>>

claimAnyKey(p) == seen' = [q \in Payments |-> now]   \* mutant: one key for all packets
\* idempotencyService.claim: the first claim of a hash wins.
claim(p) == seen' = [seen EXCEPT ![p] = now]

IsClaimed(p) == seen[p] # 0

Decrypts(p) == key[p] = keyEpoch /\ p \notin Tampered

IsStale(p) == now - signedAt[p] > MaxAge

IsFutureDated(p) == now - signedAt[p] < -Skew

\* Request c arrives with a copy of p; verdict is what the gate says of it.
Arrive(c, p, verdict) ==
    /\ gate[c] = "none" /\ key[p] # 0
    /\ upload' = [upload EXCEPT ![c] = p]
    /\ gate' = [gate EXCEPT ![c] = verdict]
    /\ UNCHANGED <<now, keyEpoch, key, signedAt>>

DropDuplicate(c, p) ==
    /\ IsClaimed(p)
    /\ Arrive(c, p, "duplicate")
    /\ UNCHANGED <<seen, settlementVars>>

\* The hash stays claimed whatever the checks after it say.
RejectUndecryptable(c, p) ==
    /\ ~IsClaimed(p) /\ ~Decrypts(p)
    /\ claim(p)
    /\ Arrive(c, p, "undecryptable")
    /\ UNCHANGED settlementVars

RejectStale(c, p) ==
    /\ ~IsClaimed(p) /\ Decrypts(p) /\ IsStale(p)
    /\ claim(p)
    /\ Arrive(c, p, "stale")
    /\ UNCHANGED settlementVars

RejectFutureDated(c, p) ==
    /\ ~IsClaimed(p) /\ Decrypts(p) /\ ~IsStale(p) /\ IsFutureDated(p)
    /\ claim(p)
    /\ Arrive(c, p, "future")
    /\ UNCHANGED settlementVars

PassToSettlement(c, p) ==
    /\ ~IsClaimed(p) /\ Decrypts(p) /\ ~IsStale(p) /\ ~IsFutureDated(p)
    /\ claim(p)
    /\ Arrive(c, p, "passed")
    /\ Begin(c, p)

Ingest(c, p) ==
    \/ DropDuplicate(c, p)
    \/ RejectUndecryptable(c, p)
    \/ RejectStale(c, p)
    \/ RejectFutureDated(c, p)
    \/ PassToSettlement(c, p)

Settling(c) ==
    /\ SettlementStep(c) \/ DatabaseError(c)
    /\ UNCHANGED gateVars

-----------------------------------------------------------------------------
evictEarly ==                                       \* mutant: the age of an entry is off by one
    /\ seen' = [p \in Payments |-> IF seen[p] <= now - Ttl THEN 0 ELSE seen[p]]
    /\ UNCHANGED <<now, keyEpoch, key, signedAt, upload, gate, settlementVars>>

\* The timer of idempotencyService.js, at no particular moment.
evictExpired ==
    /\ \E p \in Payments : IsClaimed(p) /\ seen[p] < now - Ttl
    /\ seen' = [p \in Payments |-> IF seen[p] < now - Ttl THEN 0 ELSE seen[p]]
    /\ UNCHANGED <<now, keyEpoch, key, signedAt, upload, gate, settlementVars>>

\* mutant: the key pair outlives the process, the cache does not
RestartWithSameKey ==
    /\ keyEpoch < MaxEpoch
    /\ seen' = [p \in Payments |-> 0]
    /\ pc' = [c \in Calls |-> IF pc[c] \in Active THEN "lost" ELSE pc[c]]
    /\ UNCHANGED <<now, keyEpoch, key, signedAt, upload, gate,
                   balance, transactions, version, pay, view, missed>>

\* The process dies and comes back with an empty cache and a new key pair.
RestartServer ==
    /\ keyEpoch < MaxEpoch
    /\ keyEpoch' = keyEpoch + 1
    /\ seen' = [p \in Payments |-> 0]
    /\ pc' = [c \in Calls |-> IF pc[c] \in Active THEN "lost" ELSE pc[c]]
    /\ UNCHANGED <<now, key, signedAt, upload, gate,
                   balance, transactions, version, pay, view, missed>>

Tick ==
    /\ now < MaxTime
    /\ now' = now + 1
    /\ UNCHANGED <<keyEpoch, key, signedAt, seen, upload, gate, settlementVars>>

\* Every request has been answered: not a deadlock.
Answered ==
    /\ \A c \in Calls : gate[c] # "none" /\ pc[c] \notin Active
    /\ UNCHANGED bridgeVars

BridgeNext ==
    \/ \E p \in Payments, offset \in ClockOffsets : CreatePacket(p, offset)
    \/ \E c \in Calls, p \in Payments : Ingest(c, p)
    \/ \E c \in Calls : Settling(c)
    \/ evictExpired
    \/ RestartServer
    \/ Tick
    \/ Answered

BridgeSpec == BridgeInit /\ [][BridgeNext]_bridgeVars

-----------------------------------------------------------------------------
(* The gate hands a packet to settle() once: not twice at the same time,   *)
(* not again after its claim was evicted, not again after a restart.       *)
PassedOnce ==
    \A c, d \in Calls :
        gate[c] = "passed" /\ gate[d] = "passed" /\ upload[c] = upload[d] => c = d

(* Hence, seen from settle(), every packet is handed in once: the pipeline *)
(* is SettlementService without duplicates.                                *)
OneDelivery == INSTANCE SettlementService WITH
                   Duplicates <- FALSE, Faults <- Faults \cup {"crash"}
DeliversOnce == OneDelivery!SettlementSpec

(* A dropped copy is never the only one the server had: another request    *)
(* had brought the same packet and got a verdict of its own.               *)
DropsOnlyCopies ==
    \A c \in Calls :
        gate[c] = "duplicate" =>
            \E d \in Calls : upload[d] = upload[c] /\ gate[d] \notin {"none", "duplicate"}

(* A debit that lost the version race answers "retry", a lost or failed    *)
(* call says less; but the hash stays claimed for as long as the packet is *)
(* good, so no bridge that delivers it again changes what is on record of  *)
(* it: only a new packet is a retry.                                       *)
RetriesAreDropped ==
    [][\A c \in Calls :
          pc[c] \in {"conflict", "failed", "lost"} =>
              transactions'[pay[c]] = transactions[pay[c]]]_bridgeVars

\* A request that ends: in one of these statuses on record, or in the middle.
Ends(c, statuses) ==
    /\ gate[c] = "passed"
    /\ transactions[upload[c]] \in statuses \/ pc[c] \in {"failed", "lost"}

(* What passes the gate is decided: it is recorded as settled or rejected, *)
(* unless its call ends in the middle; or a payment out of the same        *)
(* account overtakes it ("retry", settlementService.js, line 102), and     *)
(* then that one is settled, unless its call ends in the middle.           *)
DeliveredIsDecided ==
    \A c \in Calls :
        gate[c] = "passed" ~>
            \/ Ends(c, {"SETTLED", "REJECTED"})
            \/ /\ pc[c] = "conflict"
               /\ \E d \in Calls \ {c} : /\ Ends(d, {"SETTLED"})
                                         /\ Sender[upload[d]] = Sender[upload[c]]

=============================================================================
