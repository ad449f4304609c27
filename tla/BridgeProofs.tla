----------------------------- MODULE BridgeProofs -----------------------------
(***************************************************************************)
(* The idempotency gate, for every set of packets, requests and accounts,  *)
(* every TTL and every number of restarts.                                 *)
(***************************************************************************)
EXTENDS BridgeService, SettlementProofs

(* The gate is only as good as its settings: an entry must outlive the     *)
(* packets it guards, by the tolerated skew if senders' clocks run ahead.  *)
SoundSettings ==
    \/ MaxAge + Skew <= Ttl
    \/ MaxAge <= Ttl /\ \A offset \in ClockOffsets : offset <= 0

LEMMA BridgeInitTypeOK == BridgeInit => BridgeTypeOK
  <1> SUFFICES ASSUME BridgeInit PROVE BridgeTypeOK
    OBVIOUS
  <1>1. SettlementTypeOK
    BY InitTypeOK DEF BridgeInit
  <1>2. \A c \in Calls : gate[c] = "none" /\ pc[c] = "idle" /\ pay[c] = NoPayment
    BY DEF BridgeInit, SettlementInit
  <1> QED
    BY <1>1, <1>2 DEF BridgeInit, BridgeTypeOK, Verdicts

\* A step of a call under way keeps its payment and never makes it idle again.
LEMMA SettlingKeepsCalls ==
  ASSUME SettlementTypeOK, NEW c \in Calls, Settling(c)
  PROVE  /\ pay' = pay /\ UNCHANGED gateVars
         /\ pc[c] # "idle" /\ pc'[c] # "idle"
         /\ \A d \in Calls \ {c} : pc'[d] = pc[d]
         /\ SettlementNext
  <1>1. CASE SettlementStep(c)
    <2>1. ReadSender(c) \/ ReadReceiver(c) => /\ pay' = pay
                                              /\ pc[c] # "idle" /\ pc'[c] # "idle"
                                              /\ \A d \in Calls \ {c} : pc'[d] = pc[d]
      BY DEF ReadSender, ReadReceiver, Goto, SettlementTypeOK
    <2>2. DebitSender(c) \/ CreditReceiver(c) => /\ pay' = pay
                                                 /\ pc[c] # "idle" /\ pc'[c] # "idle"
                                                 /\ \A d \in Calls \ {c} : pc'[d] = pc[d]
      BY DEF DebitSender, CreditReceiver, Goto, Answer, SettlementTypeOK
    <2>3. RecordSettled(c) \/ RecordRejected(c) => /\ pay' = pay
                                                   /\ pc[c] # "idle" /\ pc'[c] # "idle"
                                                   /\ \A d \in Calls \ {c} : pc'[d] = pc[d]
      BY DEF RecordSettled, RecordRejected, Insert, Goto, Answer, SettlementTypeOK
    <2>4. CommitSettled(c) \/ CommitRejected(c) => /\ pay' = pay
                                                   /\ pc[c] # "idle" /\ pc'[c] # "idle"
                                                   /\ \A d \in Calls \ {c} : pc'[d] = pc[d]
      BY DEF CommitSettled, CommitRejected, Goto, Answer, SettlementTypeOK
    <2> QED
      BY <1>1, <2>1, <2>2, <2>3, <2>4 DEF SettlementStep, SettlementNext, Settling
  <1>2. CASE DatabaseError(c)
    BY <1>2 DEF DatabaseError, Goto, SettlementTypeOK, SettlementNext, Settling, Active
  <1> QED
    BY <1>1, <1>2 DEF Settling

LEMMA BridgeStepTypeOK == BridgeTypeOK /\ [BridgeNext]_bridgeVars => BridgeTypeOK'
  <1> USE LedgerAssumption, SettlementAssumption, BridgeAssumption
  <1> SUFFICES ASSUME BridgeTypeOK, [BridgeNext]_bridgeVars
               PROVE  BridgeTypeOK'
    OBVIOUS
  <1>t. SettlementTypeOK
    BY DEF BridgeTypeOK
  <1>1. ASSUME NEW p \in Payments, NEW offset \in ClockOffsets, CreatePacket(p, offset)
        PROVE  BridgeTypeOK'
    <2>1. SettlementTypeOK'
      BY <1>1, <1>t, StepTypeOK DEF CreatePacket
    <2>2. now + offset \in Int
      BY DEF BridgeTypeOK
    <2>3. key' \in [Payments -> Nat] /\ signedAt' \in [Payments -> Int]
      BY <1>1, <2>2 DEF CreatePacket, BridgeTypeOK
    <2> QED
      BY <1>1, <2>1, <2>3 DEF CreatePacket, BridgeTypeOK, settlementVars
  <1>2. ASSUME NEW c \in Calls, NEW p \in Payments, NEW verdict \in Verdicts \ {"none", "passed"},
               Arrive(c, p, verdict), UNCHANGED settlementVars,
               claim(p) \/ UNCHANGED seen
        PROVE  BridgeTypeOK'
    <2>1. SettlementTypeOK'
      BY <1>2, <1>t, StepTypeOK
    <2>2. seen' \in [Payments -> Nat]
      BY <1>2 DEF claim, BridgeTypeOK
    <2> QED
      BY <1>2, <2>1, <2>2 DEF Arrive, BridgeTypeOK, settlementVars, Verdicts
  <1>3. ASSUME NEW c \in Calls, NEW p \in Payments, PassToSettlement(c, p)
        PROVE  BridgeTypeOK'
    <2>1. SettlementTypeOK'
      BY <1>3, <1>t, StepTypeOK DEF PassToSettlement, SettlementNext
    <2>2. seen' \in [Payments -> Nat]
      BY <1>3 DEF PassToSettlement, claim, BridgeTypeOK
    <2>3. /\ pc' = [pc EXCEPT ![c] = "sender"] /\ pay' = [pay EXCEPT ![c] = p]
          /\ gate' = [gate EXCEPT ![c] = "passed"] /\ upload' = [upload EXCEPT ![c] = p]
          /\ UNCHANGED <<now, keyEpoch, key, signedAt>>
      BY <1>3 DEF PassToSettlement, Arrive, Begin, Goto
    <2>4. pc \in [Calls -> {"idle"} \cup Active \cup Returned] /\ pay \in [Calls -> Payments \cup {NoPayment}]
      BY <1>t DEF SettlementTypeOK
    <2> QED
      BY <2>1, <2>2, <2>3, <2>4 DEF BridgeTypeOK, Verdicts
  <1>4. ASSUME NEW c \in Calls, Settling(c)
        PROVE  BridgeTypeOK'
    <2>1. SettlementTypeOK'
      BY <1>4, <1>t, StepTypeOK, SettlingKeepsCalls
    <2> QED
      BY <1>4, <1>t, <2>1, SettlingKeepsCalls DEF BridgeTypeOK, gateVars
  <1>5. CASE evictExpired
    <2>1. SettlementTypeOK'
      BY <1>5, <1>t, StepTypeOK DEF evictExpired
    <2> QED
      BY <1>5, <2>1 DEF evictExpired, BridgeTypeOK, settlementVars
  <1>6. CASE RestartServer
    <2>1. SettlementTypeOK'
      BY <1>6, <1>t DEF RestartServer, SettlementTypeOK, Active, Returned
    <2>2. \A c \in Calls : pc'[c] # "idle" <=> pc[c] # "idle"
      BY <1>6 DEF RestartServer, Active
    <2> QED
      BY <1>6, <2>1, <2>2 DEF RestartServer, BridgeTypeOK
  <1>7. CASE Tick
    <2>1. SettlementTypeOK'
      BY <1>7, <1>t, StepTypeOK DEF Tick
    <2> QED
      BY <1>7, <2>1 DEF Tick, BridgeTypeOK, settlementVars
  <1>8. CASE UNCHANGED bridgeVars
    <2>1. SettlementTypeOK'
      BY <1>8, <1>t, StepTypeOK DEF bridgeVars
    <2> QED
      BY <1>8, <2>1 DEF bridgeVars, gateVars, settlementVars, BridgeTypeOK
  <1> QED
    BY <1>1, <1>2, <1>3, <1>4, <1>5, <1>6, <1>7, <1>8
    DEF BridgeNext, Ingest, DropDuplicate, RejectUndecryptable, RejectStale, RejectFutureDated,
        Verdicts, Answered

(* Every variable of the pipeline keeps its type, whatever the settings.   *)
THEOREM BridgeTypeCorrect == BridgeSpec => []BridgeTypeOK
  BY BridgeInitTypeOK, BridgeStepTypeOK, PTL DEF BridgeSpec

-----------------------------------------------------------------------------
\* Why a packet that has passed cannot pass again: its key is gone, or its
\* claim stands and will for as long as the packet is good, or it is stale.
Guarded(p) ==
    \/ key[p] < keyEpoch
    \/ IsClaimed(p) /\ signedAt[p] + MaxAge <= seen[p] + Ttl
    \/ IsStale(p)

GateInv ==
    /\ PassedOnce
    /\ \A p \in Payments : key[p] <= keyEpoch
    /\ (\A offset \in ClockOffsets : offset <= 0) =>
          \A p \in Payments : key[p] # 0 => signedAt[p] <= now
    /\ \A c \in Calls : gate[c] = "passed" => key[upload[c]] # 0 /\ Guarded(upload[c])

\* Only a packet nobody has passed yet can pass.
LEMMA PassesFirst ==
  ASSUME BridgeTypeOK, GateInv, NEW c \in Calls, NEW p \in Payments, PassToSettlement(c, p)
  PROVE  \A d \in Calls : gate[d] = "passed" => upload[d] # p
  <1> SUFFICES ASSUME NEW d \in Calls, gate[d] = "passed", upload[d] = p
               PROVE  FALSE
    OBVIOUS
  <1>1. Guarded(p)
    BY DEF GateInv
  <1>2. key[p] = keyEpoch /\ ~IsClaimed(p) /\ ~IsStale(p)
    BY DEF PassToSettlement, Decrypts
  <1>3. keyEpoch \in Nat
    BY DEF BridgeTypeOK
  <1> QED
    BY <1>1, <1>2, <1>3 DEF Guarded

LEMMA StepGateInv ==
  ASSUME SoundSettings
  PROVE  BridgeTypeOK /\ GateInv /\ [BridgeNext]_bridgeVars => GateInv'
  <1> USE LedgerAssumption, SettlementAssumption, BridgeAssumption
  <1> SUFFICES ASSUME BridgeTypeOK, GateInv, [BridgeNext]_bridgeVars
               PROVE  GateInv'
    OBVIOUS
  <1>t. /\ now \in Nat /\ keyEpoch \in Nat
        /\ key \in [Payments -> Nat] /\ signedAt \in [Payments -> Int]
        /\ seen \in [Payments -> Nat]
        /\ upload \in [Calls -> Payments \cup {NoPayment}] /\ gate \in [Calls -> Verdicts]
        /\ \A c \in Calls : gate[c] = "passed" => upload[c] \in Payments
    BY DEF BridgeTypeOK
  <1>1. ASSUME NEW p \in Payments, NEW offset \in ClockOffsets, CreatePacket(p, offset)
        PROVE  GateInv'
    <2>1. offset \in Int
      OBVIOUS
    <2>2. /\ key' = [key EXCEPT ![p] = keyEpoch] /\ signedAt' = [signedAt EXCEPT ![p] = now + offset]
          /\ UNCHANGED <<now, keyEpoch, seen, upload, gate>> /\ key[p] = 0
      BY <1>1 DEF CreatePacket
    <2>3. \A c \in Calls : gate[c] = "passed" => upload[c] # p
      BY <2>2 DEF GateInv
    <2>4. \A q \in Payments \ {p} : Guarded(q) => Guarded(q)'
      BY <2>2 DEF Guarded, IsClaimed, IsStale
    <2>5. /\ \A q \in Payments : key'[q] <= keyEpoch'
          /\ (\A o \in ClockOffsets : o <= 0) =>
                \A q \in Payments : key'[q] # 0 => signedAt'[q] <= now'
      BY <1>t, <2>1, <2>2 DEF GateInv
    <2>6. \A c \in Calls : gate[c] = "passed" => /\ upload[c] \in Payments \ {p}
                                                /\ key'[upload[c]] # 0 /\ Guarded(upload[c])
      BY <1>t, <2>2, <2>3 DEF GateInv
    <2> QED
      BY <2>2, <2>4, <2>5, <2>6 DEF GateInv, PassedOnce, Guarded, IsClaimed, IsStale
  <1>2. ASSUME NEW c \in Calls, NEW p \in Payments, NEW verdict \in Verdicts \ {"none", "passed"},
               Arrive(c, p, verdict),
               (claim(p) /\ ~IsClaimed(p)) \/ UNCHANGED seen
        PROVE  GateInv'
    <2>1. /\ UNCHANGED <<now, keyEpoch, key, signedAt>> /\ key[p] # 0
          /\ \A d \in Calls : gate'[d] = "passed" => gate[d] = "passed" /\ upload'[d] = upload[d]
      BY <1>2, <1>t DEF Arrive
    <2>2. \A q \in Payments : IsClaimed(q) => seen'[q] = seen[q]
      BY <1>2, <1>t DEF claim
    <2>3. \A q \in Payments : Guarded(q) => Guarded(q)'
      BY <2>1, <2>2 DEF Guarded, IsClaimed, IsStale
    <2> QED
      BY <1>t, <2>1, <2>3 DEF GateInv, PassedOnce, Guarded, IsClaimed, IsStale
  <1>3. ASSUME NEW c \in Calls, NEW p \in Payments, PassToSettlement(c, p)
        PROVE  GateInv'
    <2>1. /\ UNCHANGED <<now, keyEpoch, key, signedAt>> /\ key[p] # 0
          /\ seen' = [seen EXCEPT ![p] = now]
          /\ upload' = [upload EXCEPT ![c] = p] /\ gate' = [gate EXCEPT ![c] = "passed"]
          /\ gate[c] = "none"
      BY <1>3 DEF PassToSettlement, Arrive, claim
    <2>2. now # 0 /\ signedAt[p] + MaxAge <= now + Ttl
      <3>1. /\ now # 0 /\ now \in Int /\ signedAt[p] \in Int
            /\ MaxAge \in Int /\ Ttl \in Int /\ Skew \in Int
        BY DEF BridgeTypeOK
      <3>2. CASE MaxAge + Skew <= Ttl
        <4>1. now - signedAt[p] >= -Skew
          BY <1>3, <3>1 DEF PassToSettlement, IsFutureDated
        <4> QED
          BY <3>1, <3>2, <4>1
      <3>3. CASE MaxAge <= Ttl /\ \A offset \in ClockOffsets : offset <= 0
        <4>1. signedAt[p] <= now
          BY <2>1, <3>3 DEF GateInv
        <4> QED
          BY <3>1, <3>3, <4>1
      <3> QED
        BY <3>2, <3>3 DEF SoundSettings
    <2>3. \A q \in Payments : (Guarded(q) \/ q = p) => Guarded(q)'
      BY <1>t, <2>1, <2>2 DEF Guarded, IsClaimed, IsStale
    <2>4. \A d \in Calls : gate[d] = "passed" => upload[d] # p
      BY <1>3, PassesFirst
    <2>5. PassedOnce'
      BY <1>t, <2>1, <2>4 DEF GateInv, PassedOnce
    <2>6. \A d \in Calls : gate'[d] = "passed" =>
             \/ d = c /\ upload'[d] = p
             \/ gate[d] = "passed" /\ upload'[d] = upload[d]
      BY <1>t, <2>1
    <2> QED
      BY <1>t, <2>1, <2>3, <2>5, <2>6 DEF GateInv, Guarded, IsClaimed, IsStale
  <1>4. ASSUME UNCHANGED gateVars
        PROVE  GateInv'
    BY <1>4 DEF gateVars, GateInv, PassedOnce, Guarded, IsClaimed, IsStale
  <1>5. CASE evictExpired
    <2>1. /\ UNCHANGED <<now, keyEpoch, key, signedAt, upload, gate>>
          /\ \A q \in Payments : seen'[q] = seen[q] \/ seen[q] < now - Ttl
      BY <1>5, <1>t DEF evictExpired
    <2>2. MaxAge \in Nat /\ Ttl \in Nat
      OBVIOUS
    <2>3. \A q \in Payments : Guarded(q) => Guarded(q)'
      BY <1>t, <2>1, <2>2 DEF Guarded, IsClaimed, IsStale
    <2> QED
      BY <1>t, <2>1, <2>3 DEF GateInv, PassedOnce, Guarded, IsClaimed, IsStale
  <1>6. CASE RestartServer
    <2>1. /\ keyEpoch' = keyEpoch + 1
          /\ UNCHANGED <<now, key, signedAt, upload, gate>>
      BY <1>6 DEF RestartServer
    <2>2. \A q \in Payments : key[q] < keyEpoch'
      BY <1>t, <2>1 DEF GateInv
    <2> QED
      BY <1>t, <2>1, <2>2 DEF GateInv, PassedOnce, Guarded
  <1>7. CASE Tick
    <2>1. now' = now + 1 /\ UNCHANGED <<keyEpoch, key, signedAt, seen, upload, gate>>
      BY <1>7 DEF Tick
    <2>2. \A q \in Payments : Guarded(q) => Guarded(q)'
      BY <1>t, <2>1 DEF Guarded, IsClaimed, IsStale
    <2> QED
      BY <1>t, <2>1, <2>2 DEF GateInv, PassedOnce, Guarded, IsClaimed, IsStale
  <1> QED
    BY <1>1, <1>2, <1>3, <1>4, <1>5, <1>6, <1>7
    DEF BridgeNext, Ingest, DropDuplicate, RejectUndecryptable, RejectStale, RejectFutureDated,
        Settling, Verdicts, Answered, bridgeVars

LEMMA GateInvariant ==
  ASSUME SoundSettings
  PROVE  BridgeSpec => [](BridgeTypeOK /\ GateInv)
  <1>1. BridgeInit => GateInv
    BY DEF BridgeInit, GateInv, PassedOnce
  <1>2. BridgeTypeOK /\ GateInv /\ [BridgeNext]_bridgeVars => GateInv'
    BY StepGateInv
  <1> QED
    BY <1>1, <1>2, BridgeTypeCorrect, PTL DEF BridgeSpec

(* If entries outlive packets, by the tolerated skew or with no clock      *)
(* ahead, no packet passes the gate twice, across evictions and restarts   *)
(* (idempotencyService.js, evictExpired; keyService.js, _ensureKey).       *)
THEOREM GatePassesOnce ==
  ASSUME SoundSettings
  PROVE  BridgeSpec => []PassedOnce
  <1>1. BridgeTypeOK /\ GateInv => PassedOnce
    BY DEF GateInv
  <1> QED
    BY <1>1, GateInvariant, PTL

-----------------------------------------------------------------------------
\* A call's own steps read the same in both specifications.
LEMMA SettlingIsOneDelivery ==
  ASSUME NEW c \in Calls, SettlementStep(c) \/ DatabaseError(c)
  PROVE  OneDelivery!SettlementStep(c) \/ OneDelivery!DatabaseError(c)
  <1>1. ReadSender(c) => OneDelivery!ReadSender(c)
    BY DEF ReadSender, OneDelivery!ReadSender, Goto, OneDelivery!Goto,
           BalanceOf, OneDelivery!BalanceOf
  <1>2. ReadReceiver(c) => OneDelivery!ReadReceiver(c)
    BY DEF ReadReceiver, OneDelivery!ReadReceiver, Goto, OneDelivery!Goto,
           BalanceOf, OneDelivery!BalanceOf, InsufficientFunds, OneDelivery!InsufficientFunds
  <1>a. \A label : Answer(c, label) => OneDelivery!Answer(c, label)
    BY DEF Answer, OneDelivery!Answer, Goto, OneDelivery!Goto
  <1>b. \A d : Written(d) = OneDelivery!Written(d)
    BY DEF Written, OneDelivery!Written
  <1>c. \A a : WriteConflict(c, a) <=> OneDelivery!WriteConflict(c, a)
    BY <1>b DEF WriteConflict, OneDelivery!WriteConflict
  <1>d. DuplicateKey(c) <=> OneDelivery!DuplicateKey(c)
    BY DEF DuplicateKey, OneDelivery!DuplicateKey
  <1>3. DebitSender(c) => OneDelivery!DebitSender(c)
    BY <1>a, <1>c DEF DebitSender, OneDelivery!DebitSender, Goto, OneDelivery!Goto,
                      StaleSender, OneDelivery!StaleSender
  <1>4. CreditReceiver(c) => OneDelivery!CreditReceiver(c)
    BY <1>a, <1>c DEF CreditReceiver, OneDelivery!CreditReceiver, Goto, OneDelivery!Goto
  <1>5. RecordSettled(c) => OneDelivery!RecordSettled(c)
    BY <1>a, <1>d DEF RecordSettled, OneDelivery!RecordSettled, Insert, OneDelivery!Insert,
                      Goto, OneDelivery!Goto
  <1>6. RecordRejected(c) => OneDelivery!RecordRejected(c)
    BY <1>a, <1>d DEF RecordRejected, OneDelivery!RecordRejected, Insert, OneDelivery!Insert,
                      Goto, OneDelivery!Goto
  <1>7. CommitSettled(c) => OneDelivery!CommitSettled(c)
    BY <1>a, <1>b DEF CommitSettled, OneDelivery!CommitSettled
  <1>8. CommitRejected(c) => OneDelivery!CommitRejected(c)
    BY <1>a DEF CommitRejected, OneDelivery!CommitRejected
  <1>9. DatabaseError(c) => OneDelivery!DatabaseError(c)
    BY DEF DatabaseError, OneDelivery!DatabaseError, Goto, OneDelivery!Goto,
           Active, OneDelivery!Active
  <1> QED
    BY <1>1, <1>2, <1>3, <1>4, <1>5, <1>6, <1>7, <1>8, <1>9
    DEF SettlementStep, OneDelivery!SettlementStep

(* Behind such a gate settle() is handed every packet once: the pipeline,  *)
(* restarts included, implements the settlement service without            *)
(* duplicates.                                                             *)
THEOREM GateDeliversOnce ==
  ASSUME SoundSettings
  PROVE  BridgeSpec => DeliversOnce
  <1>1. BridgeInit => OneDelivery!SettlementInit
    BY DEF BridgeInit, SettlementInit, OneDelivery!SettlementInit, LedgerInit,
           OneDelivery!LedgerInit
  <1>2. ASSUME BridgeTypeOK, GateInv, [BridgeNext]_bridgeVars
        PROVE  [OneDelivery!SettlementNext]_OneDelivery!settlementVars
    <2>1. ASSUME NEW c \in Calls, NEW p \in Payments, PassToSettlement(c, p)
          PROVE  OneDelivery!SettlementNext
      <3>1. \A d \in Calls : pay[d] # p
        BY <1>2, <2>1, PassesFirst, SettlementAssumption DEF BridgeTypeOK
      <3>2. OneDelivery!Begin(c, p)
        BY <2>1, <3>1 DEF PassToSettlement, Begin, OneDelivery!Begin, Goto, OneDelivery!Goto
      <3> QED
        BY <3>2 DEF OneDelivery!SettlementNext
    <2>2. ASSUME NEW c \in Calls, Settling(c)
          PROVE  OneDelivery!SettlementNext
      BY <2>2, SettlingIsOneDelivery DEF Settling, OneDelivery!SettlementNext
    <2>3. CASE RestartServer
      <3>1. CASE \E c \in Calls : pc[c] \in Active
        <4>1. OneDelivery!Crash
          BY <2>3, <3>1 DEF RestartServer, OneDelivery!Crash, Active, OneDelivery!Active
        <4> QED
          BY <4>1 DEF OneDelivery!SettlementNext
      <3>2. CASE ~ \E c \in Calls : pc[c] \in Active
        <4>1. pc' = pc
          BY <1>2, <2>3, <3>2 DEF RestartServer, BridgeTypeOK, SettlementTypeOK
        <4> QED
          BY <2>3, <4>1 DEF RestartServer, OneDelivery!settlementVars
      <3> QED
        BY <3>1, <3>2
    <2>4. CASE UNCHANGED settlementVars
      BY <2>4 DEF settlementVars, OneDelivery!settlementVars
    <2> QED
      BY <1>2, <2>1, <2>2, <2>3, <2>4
      DEF BridgeNext, Ingest, DropDuplicate, RejectUndecryptable, RejectStale,
          RejectFutureDated, CreatePacket, evictExpired, Tick, Answered, bridgeVars
  <1> QED
    BY <1>1, <1>2, GateInvariant, PTL
    DEF BridgeSpec, DeliversOnce, OneDelivery!SettlementSpec

-----------------------------------------------------------------------------
\* What a call records is its own payment, and only a running call records.
LEMMA OnlyRunningCallsRecord ==
  ASSUME BridgeTypeOK, NEW c \in Calls, Settling(c),
         NEW p \in Payments, transactions'[p] # transactions[p]
  PROVE  pc[c] \in {"save", "reject", "commit", "commitRejected"} /\ pay[c] = p
  <1>1. RecordSettled(c) \/ RecordRejected(c) \/ CommitSettled(c) \/ CommitRejected(c)
    BY DEF Settling, SettlementStep, ReadSender, ReadReceiver, DebitSender, CreditReceiver,
           DatabaseError
  <1> QED
    BY <1>1 DEF RecordSettled, RecordRejected, Insert, CommitSettled, CommitRejected,
                BridgeTypeOK, SettlementTypeOK

(* Behind such a gate a call that failed, lost the version race or died    *)
(* with its process has had the last word on its packet: no later delivery *)
(* records it (settlementService.js, line 102, advises to retry).          *)
THEOREM RetriesDoNothing ==
  ASSUME SoundSettings
  PROVE  BridgeSpec => RetriesAreDropped
  <1> DEFINE Kept == \A c \in Calls :
                         pc[c] \in {"conflict", "failed", "lost"} =>
                             transactions'[pay[c]] = transactions[pay[c]]
  <1>1. ASSUME BridgeTypeOK, PassedOnce, BridgeNext,
               NEW c \in Calls, pc[c] \in {"conflict", "failed", "lost"}
        PROVE  transactions'[pay[c]] = transactions[pay[c]]
    <2>1. ASSUME NEW d \in Calls, Settling(d)
          PROVE  transactions'[pay[c]] = transactions[pay[c]]
      <3> SUFFICES ASSUME transactions'[pay[c]] # transactions[pay[c]] PROVE FALSE
        OBVIOUS
      <3>1. pay[c] \in Payments /\ gate[c] = "passed" /\ pay[c] = upload[c]
        BY <1>1 DEF BridgeTypeOK, SettlementTypeOK
      <3>2. pc[d] \in {"save", "reject", "commit", "commitRejected"} /\ pay[d] = pay[c]
        BY <1>1, <2>1, <3>1, OnlyRunningCallsRecord
      <3>3. gate[d] = "passed" /\ pay[d] = upload[d]
        BY <1>1, <3>2 DEF BridgeTypeOK
      <3>4. c = d
        BY <1>1, <3>1, <3>2, <3>3 DEF PassedOnce
      <3> QED
        BY <1>1, <3>2, <3>4
    <2>2. CASE UNCHANGED transactions
      BY <2>2
    <2> QED
      BY <1>1, <2>1, <2>2
      DEF BridgeNext, Ingest, DropDuplicate, RejectUndecryptable, RejectStale,
          RejectFutureDated, PassToSettlement, Begin, CreatePacket, evictExpired,
          RestartServer, Tick, Answered, settlementVars, bridgeVars
  <1>2. BridgeTypeOK /\ PassedOnce /\ [BridgeNext]_bridgeVars => [Kept]_bridgeVars
    BY <1>1
  <1> QED
    BY <1>2, BridgeTypeCorrect, GatePassesOnce, PTL DEF RetriesAreDropped, BridgeSpec

-----------------------------------------------------------------------------
\* A hash in the cache was put there by a request with a verdict of its own.
FirstCopy(c, p) == upload[c] = p /\ gate[c] \notin {"none", "duplicate"}

ClaimsHaveOwners ==
    /\ \A p \in Payments : IsClaimed(p) => \E d \in Calls : FirstCopy(d, p)
    /\ DropsOnlyCopies

LEMMA StepClaimsHaveOwners ==
  BridgeTypeOK /\ ClaimsHaveOwners /\ [BridgeNext]_bridgeVars => ClaimsHaveOwners'
  <1> SUFFICES ASSUME BridgeTypeOK, ClaimsHaveOwners, [BridgeNext]_bridgeVars
               PROVE  ClaimsHaveOwners'
    OBVIOUS
  <1>t. /\ seen \in [Payments -> Nat]
        /\ upload \in [Calls -> Payments \cup {NoPayment}] /\ gate \in [Calls -> Verdicts]
        /\ \A c \in Calls : gate[c] # "none" => upload[c] \in Payments
    BY DEF BridgeTypeOK
  <1>h. /\ \A p \in Payments : IsClaimed(p) => \E d \in Calls : FirstCopy(d, p)
        /\ \A c \in Calls : gate[c] = "duplicate" => \E d \in Calls : FirstCopy(d, upload[c])
    BY DEF ClaimsHaveOwners, DropsOnlyCopies, FirstCopy
  <1>g. ASSUME \A p \in Payments : IsClaimed(p)' => \E d \in Calls : FirstCopy(d, p)',
               \A c \in Calls : gate'[c] = "duplicate" =>
                                  \E d \in Calls : FirstCopy(d, upload[c])'
        PROVE  ClaimsHaveOwners'
    BY <1>g DEF ClaimsHaveOwners, DropsOnlyCopies, FirstCopy
  <1>1. ASSUME NEW c \in Calls, NEW p \in Payments, DropDuplicate(c, p)
        PROVE  ClaimsHaveOwners'
    <2>1. /\ gate[c] = "none" /\ UNCHANGED seen
          /\ upload' = [upload EXCEPT ![c] = p] /\ gate' = [gate EXCEPT ![c] = "duplicate"]
      BY <1>1 DEF DropDuplicate, Arrive
    <2>2. \A d \in Calls : \A q : FirstCopy(d, q) => FirstCopy(d, q)'
      BY <1>t, <2>1 DEF FirstCopy
    <2>3. \E d \in Calls : FirstCopy(d, p)'
      BY <1>1, <1>h, <2>2 DEF DropDuplicate
    <2>4. \A q \in Payments : IsClaimed(q)' => \E d \in Calls : FirstCopy(d, q)'
      BY <1>h, <2>1, <2>2 DEF IsClaimed
    <2>5. ASSUME NEW e \in Calls, gate'[e] = "duplicate"
          PROVE  \E d \in Calls : FirstCopy(d, upload[e])'
      <3>1. CASE e = c
        <4>1. upload'[e] = p
          BY <1>t, <2>1, <3>1
        <4> QED
          BY <2>3, <4>1
      <3>2. CASE e # c
        <4>1. upload'[e] = upload[e] /\ gate[e] = "duplicate"
          BY <1>t, <2>1, <2>5, <3>2
        <4> QED
          BY <1>h, <2>2, <4>1
      <3> QED
        BY <3>1, <3>2
    <2> QED
      BY <1>g, <2>4, <2>5
  <1>2. ASSUME NEW c \in Calls, NEW p \in Payments,
               NEW verdict \in Verdicts \ {"none", "duplicate"}, Arrive(c, p, verdict), claim(p)
        PROVE  ClaimsHaveOwners'
    <2>1. /\ gate[c] = "none" /\ seen' = [seen EXCEPT ![p] = now]
          /\ upload' = [upload EXCEPT ![c] = p] /\ gate' = [gate EXCEPT ![c] = verdict]
      BY <1>2 DEF Arrive, claim
    <2>2. \A d \in Calls : \A q : FirstCopy(d, q) => FirstCopy(d, q)'
      BY <1>t, <2>1 DEF FirstCopy
    <2>3. FirstCopy(c, p)'
      BY <1>t, <2>1 DEF FirstCopy
    <2>4. \A q \in Payments : IsClaimed(q)' => q = p \/ IsClaimed(q)
      BY <1>t, <2>1 DEF IsClaimed
    <2>5. \A e \in Calls : gate'[e] = "duplicate" => upload'[e] = upload[e] /\ gate[e] = "duplicate"
      BY <1>t, <2>1
    <2> QED
      BY <1>g, <1>h, <2>2, <2>3, <2>4, <2>5
  <1>3. ASSUME UNCHANGED <<upload, gate>>,
               \A p \in Payments : seen'[p] = seen[p] \/ seen'[p] = 0
        PROVE  ClaimsHaveOwners'
    BY <1>g, <1>h, <1>3 DEF FirstCopy, IsClaimed
  <1>4. evictExpired \/ RestartServer => ClaimsHaveOwners'
    BY <1>t, <1>3 DEF evictExpired, RestartServer
  <1> QED
    BY <1>1, <1>2, <1>3, <1>4
    DEF BridgeNext, Ingest, RejectUndecryptable, RejectStale, RejectFutureDated,
        PassToSettlement, CreatePacket, Settling, Tick, Answered, gateVars, bridgeVars, Verdicts

(* A copy is dropped only for another one that was looked at: with any     *)
(* settings, evictions and restarts, no packet is dropped unseen           *)
(* (bridgeService.js, lines 42 to 45).                                     *)
THEOREM OnlyCopiesAreDropped == BridgeSpec => []DropsOnlyCopies
  <1>1. BridgeInit => ClaimsHaveOwners
    BY DEF BridgeInit, ClaimsHaveOwners, DropsOnlyCopies, IsClaimed
  <1>2. ClaimsHaveOwners => DropsOnlyCopies
    BY DEF ClaimsHaveOwners
  <1> QED
    BY <1>1, <1>2, StepClaimsHaveOwners, BridgeTypeCorrect, PTL DEF BridgeSpec

=============================================================================
