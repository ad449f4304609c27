------------------------------ MODULE Simulator ------------------------------
(***************************************************************************)
(* The demo endpoints: demoController.js and meshController.js drive the   *)
(* phones of MeshService and feed what the bridges hold to the pipeline of *)
(* BridgeService, all in one process.  A request that does not wait for    *)
(* the database is one step; of meshFlush, what comes before the first     *)
(* wait of each ingest() is one step, and the settlements then interleave. *)
(***************************************************************************)
EXTENDS BridgeService, Functions, Sequences

CONSTANTS DeviceOrder, HasInternet, InitialTtls     \* as in MeshService

VARIABLES held, sentTtl, hops                       \* as in MeshService

Mesh == INSTANCE MeshService WITH Packets <- Payments

ASSUME SimulatorAssumption ==
    /\ DeviceOrder \in Seq(Range(DeviceOrder))
    /\ HasInternet \subseteq Range(DeviceOrder)
    /\ InitialTtls \subseteq Nat

phoneVars == <<held, sentTtl, hops>>

simVars == <<phoneVars, bridgeVars>>

SimInit == BridgeInit /\ Mesh!MeshInit

-----------------------------------------------------------------------------
\* The sender's phone is simulated by the server, with its clock and its key.
demoSend(p, d, ttl) ==
    /\ CreatePacket(p, 0)
    /\ Mesh!inject(p, d, ttl)

meshGossip == Mesh!gossipOnce /\ UNCHANGED bridgeVars

\* What ingest() says of the first copy it gets to see.
Verdict(p) ==
    IF IsClaimed(p) THEN "duplicate"
    ELSE IF ~Decrypts(p) THEN "undecryptable"
    ELSE IF IsStale(p) THEN "stale"
    ELSE IF IsFutureDated(p) THEN "future"
    ELSE "passed"

Place(d) == CHOOSE i \in DOMAIN DeviceOrder : DeviceOrder[i] = d

\* Of several bridges with a copy, the one listed first is served first.
IsFirst(u) ==
    \A v \in Mesh!collectBridgeUploads : v[2] = u[2] => Place(u[1]) <= Place(v[1])

EveryCopy(u) == Verdict(u[2])       \* mutant: the claim is made after a wait
UploadVerdict(u) == IF IsFirst(u) THEN Verdict(u[2]) ELSE "duplicate"

(* Promise.all over the uploads: request[c] is the upload that call c      *)
(* ingests.  Calls only name requests, so any that are idle will do.       *)
meshFlush ==
    LET uploads == Mesh!collectBridgeUploads
        idle == {c \in Calls : gate[c] = "none"}
        C == CHOOSE S \in SUBSET idle : Cardinality(S) = Cardinality(uploads)
        request == CHOOSE f \in Bijection(C, uploads) : TRUE
        passed == {c \in C : UploadVerdict(request[c]) = "passed"}
    IN
    /\ uploads # {} /\ Cardinality(uploads) <= Cardinality(idle)
    /\ gate' = [c \in Calls |-> IF c \in C THEN UploadVerdict(request[c]) ELSE gate[c]]
    /\ upload' = [c \in Calls |-> IF c \in C THEN request[c][2] ELSE upload[c]]
    /\ pay' = [c \in Calls |-> IF c \in passed THEN request[c][2] ELSE pay[c]]
    /\ pc' = [c \in Calls |-> IF c \in passed THEN "sender" ELSE pc[c]]
    /\ seen' = [p \in Payments |->
                   IF ~IsClaimed(p) /\ \E u \in uploads : u[2] = p THEN now ELSE seen[p]]
    /\ UNCHANGED <<now, keyEpoch, key, signedAt, phoneVars,
                   balance, transactions, version, view, missed>>

\* mutant: the phones keep what they hold
meshResetCacheOnly ==
    /\ seen' = [p \in Payments |-> 0]
    /\ UNCHANGED <<now, keyEpoch, key, signedAt, upload, gate, settlementVars,
                   phoneVars>>

meshReset ==
    /\ Mesh!resetMesh
    /\ seen' = [p \in Payments |-> 0]
    /\ UNCHANGED <<now, keyEpoch, key, signedAt, upload, gate, settlementVars>>

\* mutant: the phones outlive the server that simulates them
RestartWithoutPhones == RestartServer /\ UNCHANGED phoneVars

\* The phones live in the server's memory.
RestartSimulator == RestartServer /\ Mesh!resetMesh

SimNext ==
    \/ \E p \in Payments, d \in Mesh!Devices, ttl \in InitialTtls : demoSend(p, d, ttl)
    \/ meshGossip
    \/ meshFlush
    \/ meshReset
    \/ RestartSimulator
    \/ (\E c \in Calls : Settling(c)) /\ UNCHANGED phoneVars
    \/ evictExpired /\ UNCHANGED phoneVars
    \/ Tick /\ UNCHANGED phoneVars

SimSpec == SimInit /\ [][SimNext]_simVars

\* The event loop resumes every call the database has answered.
SimFairSpec ==
    SimSpec /\ \A c \in Calls : WF_simVars(Settling(c) /\ UNCHANGED phoneVars)

-----------------------------------------------------------------------------
(* The server accepts its own packets: what a bridge flushes was made for  *)
(* the key the server still has, and by its own clock.                     *)
OwnPacketsAreAccepted == \A c \in Calls : gate[c] \notin {"undecryptable", "future"}

(* Flushing again, whatever is reset, gossiped or evicted in between, is   *)
(* harmless: every settlement of a packet has been started by the one call *)
(* that passed it, so its sender is debited for it at most once.           *)
DebitedOnce ==
    \A a \in Accounts :
        version[a] <= Cardinality({p \in Payments :
                                      Sender[p] = a /\ \E c \in Calls : pay[c] = p})

=============================================================================
