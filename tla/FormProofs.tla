------------------------------ MODULE FormProofs ------------------------------
(***************************************************************************)
(* The page, the endpoints behind it and the phones they simulate, for     *)
(* every list of phones, any number of packets, requests and clicks.       *)
(***************************************************************************)
EXTENDS PaymentForm, BridgeProofs, FunctionTheorems

Holds(d, p) == Mesh!holds(d, p)

\* The phones hold what was made for the key the server has, by its own clock.
PhonesOK ==
    /\ held = [d \in Mesh!Devices |-> [p \in Payments |-> held[d][p]]]
    /\ \A d \in Mesh!Devices, p \in Payments : Holds(d, p) => key[p] = keyEpoch
    /\ \A p \in Payments : key[p] # 0 => signedAt[p] <= now
    /\ \A c \in Calls : gate[c] # "none" => key[upload[c]] # 0

\* Why a packet that has passed will not pass again: no phone has it any more,
\* or its claim stands for as long as it is good, or it is stale.
SimGuarded(p) ==
    \/ \A d \in Mesh!Devices : ~Holds(d, p)
    \/ IsClaimed(p) /\ signedAt[p] + MaxAge <= seen[p] + Ttl
    \/ IsStale(p)

SimGateInv ==
    /\ PassedOnce
    /\ \A c \in Calls : gate[c] = "passed" => SimGuarded(upload[c])

SimSettlementInv == BridgeTypeOK /\ VerdictInv /\ MoneyInv /\ SnapshotsHold

\* A call that may have debited its sender.
MayHaveDebited(c) ==
    IF SupportsTransactions THEN pc[c] \in Returned
    ELSE pc[c] \notin {"idle", "sender", "receiver", "debit"}

Paid(a) == {p \in Payments : Sender[p] = a /\ \E c \in Calls : pay[c] = p /\ MayHaveDebited(c)}

DebitsInv == \A a \in Accounts : version[a] <= Cardinality(Paid(a))

-----------------------------------------------------------------------------
\* Calls may begin, many at once, and calls may be lost: nothing that is held
\* by a session, seen by a call or on record is touched by it.
LEMMA CallsComeAndGo ==
  ASSUME SettlementTypeOK, VerdictInv, MoneyInv, SnapshotsHold,
         UNCHANGED <<balance, transactions, version, view, missed>>,
         \A c \in Calls :
            \/ pc'[c] = pc[c] /\ pay'[c] = pay[c]
            \/ pc[c] = "idle" /\ pc'[c] = "sender"
            \/ pc'[c] = "lost" /\ pay'[c] = pay[c]
  PROVE  VerdictInv' /\ MoneyInv' /\ SnapshotsHold'
  <1>1. \A c \in Calls : pc'[c] \notin {"idle", "sender", "lost"} =>
                            pc'[c] = pc[c] /\ pay'[c] = pay[c]
    OBVIOUS
  <1>2. InsertsAreExclusive'
    BY <1>1 DEF VerdictInv, InsertsAreExclusive
  <1>3. OneVerdict'
    BY <1>1 DEF VerdictInv, OneVerdict
  <1>4. NoOverdraft'
    BY DEF MoneyInv, NoOverdraft
  <1>5. DecisionsAreFounded'
    BY <1>1 DEF MoneyInv, DecisionsAreFounded, Decided, WellFormed
  <1>6. \A c \in Calls : Written(c)' \subseteq Written(c)
    BY <1>1 DEF Written
  <1>7. SnapshotsHold'
    <2>1. CASE SupportsTransactions
      <3>1. (\A c \in Calls : Seen(c)) /\ Apart
        BY <2>1, SnapshotsSplit
      <3>2. \A c \in Calls : Seen(c)'
        BY <1>1, <1>6, <3>1 DEF Seen, Decided
      <3>3. Apart'
        BY <1>6, <3>1 DEF Apart
      <3> QED
        BY <2>1, <3>2, <3>3, SnapshotsSplit
    <2>2. CASE ~SupportsTransactions
      BY <2>2 DEF SnapshotsHold
    <2> QED
      BY <2>1, <2>2
  <1> QED
    BY <1>2, <1>3, <1>4, <1>5, <1>7 DEF VerdictInv, MoneyInv

\* A step of one call.
LEMMA SettlingKeepsSettlement ==
  ASSUME SimSettlementInv, NEW c \in Calls, Settling(c)
  PROVE  SimSettlementInv'
  <1>1. SettlementTypeOK
    BY DEF SimSettlementInv, BridgeTypeOK
  <1>2. SettlementNext
    BY <1>1, SettlingKeepsCalls
  <1>3. BridgeNext
    BY DEF BridgeNext
  <1>4. BridgeTypeOK'
    BY <1>3, BridgeStepTypeOK DEF SimSettlementInv
  <1>5. VerdictInv' /\ MoneyInv'
    BY <1>1, <1>2, StepVerdictInv, StepMoneyInv DEF SimSettlementInv
  <1>6. SnapshotsHold'
    <2>1. CASE SupportsTransactions
      BY <1>1, <1>2, <2>1, StepSnapshotsHold DEF SimSettlementInv
    <2>2. CASE ~SupportsTransactions
      BY <2>2 DEF SnapshotsHold
    <2> QED
      BY <2>1, <2>2
  <1> QED
    BY <1>4, <1>5, <1>6 DEF SimSettlementInv

-----------------------------------------------------------------------------
LEMMA PhonesAreListed ==
  /\ IsFiniteSet(Mesh!Devices) /\ HasInternet \subseteq Mesh!Devices
  /\ DOMAIN DeviceOrder \subseteq Nat
  /\ \A i \in DOMAIN DeviceOrder : DeviceOrder[i] \in Mesh!Devices
  /\ \A d \in Mesh!Devices : Place(d) \in DOMAIN DeviceOrder /\ DeviceOrder[Place(d)] = d
  <1>1. DeviceOrder \in Seq(Range(DeviceOrder)) /\ HasInternet \subseteq Range(DeviceOrder)
    BY SimulatorAssumption
  <1>2. DOMAIN DeviceOrder = 1 .. Len(DeviceOrder) /\ Len(DeviceOrder) \in Nat
    BY <1>1
  <1>3. Mesh!Devices = {DeviceOrder[i] : i \in DOMAIN DeviceOrder}
    BY DEF Mesh!Devices, Mesh!Range
  <1>4. IsFiniteSet(DOMAIN DeviceOrder)
    BY <1>2, FS_Interval
  <1>5. IsFiniteSet(Mesh!Devices)
    <2>2. [i \in DOMAIN DeviceOrder |-> DeviceOrder[i]]
             \in Surjection(DOMAIN DeviceOrder, Mesh!Devices)
      BY <1>3 DEF Surjection
    <2> QED
      BY <1>4, <2>2, FS_Surjection, Fun_ExistsSurj
  <1>6. ASSUME NEW d \in Mesh!Devices
        PROVE  Place(d) \in DOMAIN DeviceOrder /\ DeviceOrder[Place(d)] = d
    <2>1. \E i \in DOMAIN DeviceOrder : DeviceOrder[i] = d
      BY <1>3
    <2> QED
      BY <2>1 DEF Place
  <1> QED
    BY <1>1, <1>2, <1>3, <1>5, <1>6 DEF Range

LEMMA UploadsAreFinite ==
  /\ IsFiniteSet(Mesh!collectBridgeUploads)
  /\ \A u \in Mesh!collectBridgeUploads :
        u[1] \in Mesh!Devices /\ u[2] \in Payments /\ Holds(u[1], u[2])
  <1>1. IsFiniteSet(HasInternet)
    BY PhonesAreListed, FS_Subset
  <1>2. IsFiniteSet(HasInternet \X Payments)
    BY <1>1, LedgerAssumption, FS_Product
  <1>3. Mesh!collectBridgeUploads \subseteq HasInternet \X Payments
    BY DEF Mesh!collectBridgeUploads
  <1> QED
    BY <1>2, <1>3, PhonesAreListed, FS_Subset DEF Mesh!collectBridgeUploads, Holds

\* There are as many calls as uploads, if there are enough.
LEMMA EnoughCalls ==
  ASSUME NEW S, IsFiniteSet(S), NEW n \in Nat, n <= Cardinality(S)
  PROVE  \E C \in SUBSET S : Cardinality(C) = n
  <1>1. PICK f \in Bijection(1 .. Cardinality(S), S) : TRUE
    BY FS_CardinalityType, Fun_ExistsBij
  <1>2. Cardinality(S) \in Nat
    BY FS_CardinalityType
  <1>3. 1 .. n \subseteq 1 .. Cardinality(S)
    BY <1>2
  <1> DEFINE g == Restrict(f, 1 .. n)
             C == Range(g)
  <1>4. g \in Bijection(1 .. n, C)
    BY <1>1, <1>3, Fun_BijRestrict
  <1>5. IsFiniteSet(1 .. n) /\ Cardinality(1 .. n) = n
    BY FS_Interval
  <1>6. Cardinality(C) = n
    BY <1>4, <1>5, FS_Bijection, Fun_ExistsBij
  <1>7. C \subseteq S
    BY <1>1, <1>3 DEF Bijection, Injection, Restrict, Range
  <1> QED
    BY <1>6, <1>7

\* What a flush does, whichever calls it makes: request[c] is the upload of call c.
Flushed(C, for) ==
    /\ C \subseteq Calls /\ \A c \in C : gate[c] = "none"
    /\ for \in [C -> Mesh!collectBridgeUploads]
    /\ \A c, d \in C : for[c] = for[d] => c = d
    /\ \A u \in Mesh!collectBridgeUploads : \E c \in C : for[c] = u
    /\ \A c \in Calls \ C : /\ gate'[c] = gate[c] /\ upload'[c] = upload[c]
                            /\ pay'[c] = pay[c] /\ pc'[c] = pc[c]
    /\ \A c \in C :
          /\ gate'[c] = UploadVerdict(for[c]) /\ upload'[c] = for[c][2]
          /\ gate'[c] = "passed" => pay'[c] = for[c][2] /\ pc'[c] = "sender"
          /\ gate'[c] # "passed" => pay'[c] = pay[c] /\ pc'[c] = pc[c]
    /\ gate' = [c \in Calls |-> gate'[c]] /\ upload' = [c \in Calls |-> upload'[c]]
    /\ pay' = [c \in Calls |-> pay'[c]] /\ pc' = [c \in Calls |-> pc'[c]]
    /\ seen' = [p \in Payments |->
                   IF ~IsClaimed(p) /\ \E c \in C : for[c][2] = p THEN now ELSE seen[p]]
    /\ UNCHANGED <<now, keyEpoch, key, signedAt, phoneVars,
                   balance, transactions, version, view, missed>>

LEMMA FlushHasCalls ==
  ASSUME meshFlush
  PROVE  \E C, for : Flushed(C, for)
  <1> DEFINE uploads == Mesh!collectBridgeUploads
             idle == {c \in Calls : gate[c] = "none"}
             C == CHOOSE S \in SUBSET idle : Cardinality(S) = Cardinality(uploads)
             for == CHOOSE f \in Bijection(C, uploads) : TRUE
             passed == {c \in C : UploadVerdict(for[c]) = "passed"}
  <1>1. /\ Cardinality(uploads) <= Cardinality(idle)
        /\ gate' = [c \in Calls |-> IF c \in C THEN UploadVerdict(for[c]) ELSE gate[c]]
        /\ upload' = [c \in Calls |-> IF c \in C THEN for[c][2] ELSE upload[c]]
        /\ pay' = [c \in Calls |-> IF c \in passed THEN for[c][2] ELSE pay[c]]
        /\ pc' = [c \in Calls |-> IF c \in passed THEN "sender" ELSE pc[c]]
        /\ seen' = [p \in Payments |->
                       IF ~IsClaimed(p) /\ \E u \in uploads : u[2] = p THEN now ELSE seen[p]]
        /\ UNCHANGED <<now, keyEpoch, key, signedAt, phoneVars,
                       balance, transactions, version, view, missed>>
    BY DEF meshFlush
  <1>2. IsFiniteSet(idle) /\ IsFiniteSet(uploads) /\ Cardinality(uploads) \in Nat
    BY SettlementAssumption, UploadsAreFinite, FS_Subset, FS_CardinalityType
  <1> HIDE DEF uploads, idle
  <1>3. C \in SUBSET idle /\ Cardinality(C) = Cardinality(uploads)
    BY <1>1, <1>2, EnoughCalls
  <1> HIDE DEF C
  <1>4. IsFiniteSet(C)
    BY <1>2, <1>3, FS_Subset
  <1>5. Bijection(C, uploads) # {}
    BY <1>2, <1>3, <1>4, FS_SameCardinalityBij, Fun_ExistsBij
  <1>6. for \in Bijection(C, uploads)
    BY <1>5
  <1> HIDE DEF for
  <1>7. /\ for \in [C -> uploads]
        /\ \A c, d \in C : for[c] = for[d] => c = d
        /\ \A u \in uploads : \E c \in C : for[c] = u
    BY <1>6, Fun_BijectionProperties
  <1>8. C \subseteq Calls /\ \A c \in C : gate[c] = "none"
    BY <1>3 DEF idle
  <1>9. seen' = [p \in Payments |->
                   IF ~IsClaimed(p) /\ \E c \in C : for[c][2] = p THEN now ELSE seen[p]]
    <2>1. \A p : (\E u \in uploads : u[2] = p) <=> \E c \in C : for[c][2] = p
      BY <1>7
    <2> QED
      BY <1>1, <2>1
  <1>10. \A c \in Calls \ C : /\ gate'[c] = gate[c] /\ upload'[c] = upload[c]
                              /\ pay'[c] = pay[c] /\ pc'[c] = pc[c]
    BY <1>1
  <1>11. \A c \in C :
          /\ gate'[c] = UploadVerdict(for[c]) /\ upload'[c] = for[c][2]
          /\ gate'[c] = "passed" => pay'[c] = for[c][2] /\ pc'[c] = "sender"
          /\ gate'[c] # "passed" => pay'[c] = pay[c] /\ pc'[c] = pc[c]
    BY <1>1, <1>8
  <1>12. /\ gate' = [c \in Calls |-> gate'[c]] /\ upload' = [c \in Calls |-> upload'[c]]
         /\ pay' = [c \in Calls |-> pay'[c]] /\ pc' = [c \in Calls |-> pc'[c]]
    BY <1>1
  <1>13. Flushed(C, for)
    BY <1>1, <1>7, <1>8, <1>9, <1>10, <1>11, <1>12 DEF Flushed, uploads
  <1> QED
    BY <1>13

\* What ingest() says of a packet is one of the verdicts; of the packets a
\* simulated phone holds, that they are copies, stale, or good.
LEMMA VerdictIs ==
  ASSUME NEW p
  PROVE  /\ Verdict(p) \in Verdicts \ {"none"}
         /\ Verdict(p) = "duplicate" <=> IsClaimed(p)
         /\ Verdict(p) = "passed" =>
               ~IsClaimed(p) /\ Decrypts(p) /\ ~IsStale(p) /\ ~IsFutureDated(p)
         /\ Verdict(p) = "undecryptable" => ~Decrypts(p)
         /\ Verdict(p) = "stale" => IsStale(p)
         /\ Verdict(p) = "future" => IsFutureDated(p)
  BY DEF Verdict, Verdicts

LEMMA UploadVerdictIs ==
  ASSUME NEW u \in Mesh!collectBridgeUploads
  PROVE  /\ UploadVerdict(u) \in Verdicts \ {"none"}
         /\ UploadVerdict(u) # "duplicate" => IsFirst(u) /\ UploadVerdict(u) = Verdict(u[2])
  <1>1. Verdict(u[2]) \in Verdicts \ {"none"}
    BY VerdictIs
  <1>2. "duplicate" \in Verdicts \ {"none"}
    BY DEF Verdicts
  <1> QED
    BY <1>1, <1>2 DEF UploadVerdict

\* Of the copies of one packet, one is served first.
LEMMA OneIsFirst ==
  ASSUME NEW u \in Mesh!collectBridgeUploads, NEW v \in Mesh!collectBridgeUploads,
         u[2] = v[2], IsFirst(u), IsFirst(v)
  PROVE  u = v
  <1>1. Place(u[1]) \in Nat /\ Place(v[1]) \in Nat
    BY UploadsAreFinite, PhonesAreListed
  <1>2. Place(u[1]) <= Place(v[1]) /\ Place(v[1]) <= Place(u[1])
    BY DEF IsFirst
  <1>3. Place(u[1]) = Place(v[1])
    BY <1>1, <1>2
  <1>4. u[1] = v[1]
    BY <1>3, UploadsAreFinite, PhonesAreListed
  <1>5. u = <<u[1], u[2]>> /\ v = <<v[1], v[2]>>
    BY DEF Mesh!collectBridgeUploads
  <1> QED
    BY <1>4, <1>5

LEMMA SomeIsFirst ==
  ASSUME NEW u \in Mesh!collectBridgeUploads
  PROVE  \E v \in Mesh!collectBridgeUploads : v[2] = u[2] /\ IsFirst(v)
  <1> DEFINE P == {Place(v[1]) : v \in {w \in Mesh!collectBridgeUploads : w[2] = u[2]}}
  <1>1. P \subseteq Nat /\ P # {}
    BY UploadsAreFinite, PhonesAreListed
  <1> HIDE DEF P
  <1>2. \E m \in P : \A k \in P : m <= k
    <2>1. IsWellFoundedOn(OpToRel(<, Nat), Nat)
      BY NatLessThanWellFounded
    <2>2. \E m \in P : \A k \in P : ~(<<k, m>> \in OpToRel(<, Nat))
      BY <1>1, <2>1, WFMin, Zenon
    <2>3. \A k, m \in Nat : k < m => <<k, m>> \in OpToRel(<, Nat)
      <3> SUFFICES ASSUME NEW k \in Nat, NEW m \in Nat, k < m
                   PROVE  <<k, m>> \in OpToRel(<, Nat)
        BY Zenon
      <3>1. <<k, m>> \in Nat \X Nat /\ <<k, m>>[1] < <<k, m>>[2]
        OBVIOUS
      <3> QED
        BY <3>1, Zenon DEF OpToRel
    <2>4. \E m \in P : \A k \in P : ~(k < m)
      BY <1>1, <2>2, <2>3, Zenon
    <2> QED
      BY <1>1, <2>4
  <1>3. PICK v \in Mesh!collectBridgeUploads :
               v[2] = u[2] /\ \A k \in P : Place(v[1]) <= k
    BY <1>2 DEF P
  <1>4. \A w \in Mesh!collectBridgeUploads : w[2] = v[2] => Place(w[1]) \in P
    BY <1>3 DEF P
  <1> QED
    BY <1>3, <1>4 DEF IsFirst

-----------------------------------------------------------------------------
LEMMA FlushKeepsSettlement ==
  ASSUME SimSettlementInv, NEW C, NEW for, Flushed(C, for)
  PROVE  SimSettlementInv'
  <1>t. BridgeTypeOK /\ SettlementTypeOK
    BY DEF SimSettlementInv, BridgeTypeOK
  <1>f. /\ C \subseteq Calls /\ \A c \in C : gate[c] = "none" /\ pc[c] = "idle"
        /\ \A c \in C : for[c] \in Mesh!collectBridgeUploads /\ for[c][2] \in Payments
    BY <1>t, UploadsAreFinite DEF Flushed, BridgeTypeOK
  <1>1. \A c \in C : gate'[c] \in Verdicts \ {"none"} /\ upload'[c] \in Payments
    BY <1>f, UploadVerdictIs DEF Flushed
  <1>2. \A c \in Calls \ C : /\ gate'[c] = gate[c] /\ upload'[c] = upload[c]
                             /\ pay'[c] = pay[c] /\ pc'[c] = pc[c]
    BY DEF Flushed
  <1>3. \A c \in C : IF gate'[c] = "passed" THEN pay'[c] = upload'[c] /\ pc'[c] = "sender"
                     ELSE pay'[c] = NoPayment /\ pc'[c] = "idle"
    BY <1>f, <1>t DEF Flushed, BridgeTypeOK
  <1>4. /\ gate' = [c \in Calls |-> gate'[c]] /\ upload' = [c \in Calls |-> upload'[c]]
        /\ pay' = [c \in Calls |-> pay'[c]] /\ pc' = [c \in Calls |-> pc'[c]]
        /\ UNCHANGED <<now, keyEpoch, key, signedAt, balance, transactions, version, view, missed>>
    BY DEF Flushed
  <1>5. SettlementTypeOK'
    <2>1. \A c \in Calls : pc'[c] \in {"idle"} \cup Active \cup Returned
      BY <1>t, <1>2, <1>3 DEF SettlementTypeOK, Active
    <2>2. \A c \in Calls : pay'[c] \in Payments \cup {NoPayment}
      BY <1>t, <1>1, <1>2, <1>3 DEF SettlementTypeOK
    <2>3. \A c \in Calls : pc'[c] # "idle" => pay'[c] \in Payments
      BY <1>t, <1>1, <1>2, <1>3 DEF SettlementTypeOK
    <2> QED
      BY <1>t, <1>4, <2>1, <2>2, <2>3 DEF SettlementTypeOK
  <1>6. BridgeTypeOK'
    <2>1. \A c \in Calls : gate'[c] \in Verdicts /\ upload'[c] \in Payments \cup {NoPayment}
      BY <1>t, <1>1, <1>2 DEF BridgeTypeOK
    <2>2. \A c \in Calls : gate'[c] # "none" => upload'[c] \in Payments
      BY <1>t, <1>1, <1>2 DEF BridgeTypeOK
    <2>3. \A c \in Calls : pay'[c] = IF gate'[c] = "passed" THEN upload'[c] ELSE NoPayment
      BY <1>t, <1>2, <1>3 DEF BridgeTypeOK
    <2>4. \A c \in Calls : gate'[c] = "passed" <=> pc'[c] # "idle"
      BY <1>t, <1>2, <1>3 DEF BridgeTypeOK
    <2>5. seen' \in [Payments -> Nat]
      BY <1>t DEF Flushed, BridgeTypeOK
    <2> QED
      BY <1>t, <1>4, <1>5, <2>1, <2>2, <2>3, <2>4, <2>5 DEF BridgeTypeOK
  <1>7. VerdictInv' /\ MoneyInv' /\ SnapshotsHold'
    BY <1>t, <1>f, <1>2, <1>3, <1>4, CallsComeAndGo DEF SimSettlementInv, Flushed
  <1> QED
    BY <1>6, <1>7 DEF SimSettlementInv

LEMMA StepSimSettlement ==
  ASSUME SimSettlementInv, [SimNext]_simVars
  PROVE  SimSettlementInv'
  <1>t. BridgeTypeOK /\ SettlementTypeOK
    BY DEF SimSettlementInv, BridgeTypeOK
  \* Steps of the gate alone, and of the phones.
  <1>g. ASSUME UNCHANGED settlementVars, BridgeTypeOK'
        PROVE  SimSettlementInv'
    BY <1>g, <1>t, CallsComeAndGo DEF SimSettlementInv, settlementVars
  <1>1. ASSUME NEW p \in Payments, NEW d \in Mesh!Devices, NEW ttl \in InitialTtls,
               demoSend(p, d, ttl)
        PROVE  SimSettlementInv'
    <2>1. /\ key' = [key EXCEPT ![p] = keyEpoch] /\ signedAt' = [signedAt EXCEPT ![p] = now + 0]
          /\ UNCHANGED <<now, keyEpoch, seen, upload, gate, settlementVars>>
      BY <1>1 DEF demoSend, CreatePacket
    <2>2. key' \in [Payments -> Nat] /\ signedAt' \in [Payments -> Int]
      BY <1>t, <2>1 DEF BridgeTypeOK
    <2>3. BridgeTypeOK'
      BY <1>t, <2>1, <2>2 DEF BridgeTypeOK, SettlementTypeOK, settlementVars
    <2> QED
      BY <1>g, <2>1, <2>3
  <1>2. ASSUME meshFlush
        PROVE  SimSettlementInv'
    BY <1>2, FlushHasCalls, FlushKeepsSettlement
  <1>3. ASSUME meshReset
        PROVE  SimSettlementInv'
    <2>1. /\ seen' = [p \in Payments |-> 0]
          /\ UNCHANGED <<now, keyEpoch, key, signedAt, upload, gate, settlementVars>>
      BY <1>3 DEF meshReset
    <2>2. BridgeTypeOK'
      BY <1>t, <2>1 DEF BridgeTypeOK, SettlementTypeOK, settlementVars
    <2> QED
      BY <1>g, <2>1, <2>2
  <1>4. ASSUME RestartServer
        PROVE  SimSettlementInv'
    <2>1. BridgeTypeOK'
      BY <1>4, <1>t, BridgeStepTypeOK DEF BridgeNext
    <2>2. VerdictInv' /\ MoneyInv' /\ SnapshotsHold'
      BY <1>4, <1>t, CallsComeAndGo DEF SimSettlementInv, RestartServer
    <2> QED
      BY <2>1, <2>2 DEF SimSettlementInv
  <1>5. ASSUME evictExpired \/ Tick
        PROVE  SimSettlementInv'
    <2>1. BridgeTypeOK'
      BY <1>5, <1>t, BridgeStepTypeOK DEF BridgeNext
    <2> QED
      BY <1>5, <1>g, <2>1 DEF evictExpired, Tick
  <1>6. ASSUME UNCHANGED bridgeVars
        PROVE  SimSettlementInv'
    <2>1. BridgeTypeOK'
      BY <1>6, <1>t, BridgeStepTypeOK
    <2> QED
      BY <1>6, <1>g, <2>1 DEF bridgeVars
  <1> QED
    BY <1>1, <1>2, <1>3, <1>4, <1>5, <1>6, SettlingKeepsSettlement
    DEF SimNext, simVars, meshGossip, RestartSimulator

-----------------------------------------------------------------------------
\* Where a phone gets a copy, another phone has one.
LEMMA GossipCopies ==
  ASSUME meshGossip, NEW d \in Mesh!Devices, NEW p \in Payments, Holds(d, p)'
  PROVE  \E e \in Mesh!Devices : Holds(e, p)
  <1>1. CASE Mesh!Received(d, p)
    <2>1. PICK i \in DOMAIN DeviceOrder : held[DeviceOrder[i]][p] > 0
      BY <1>1 DEF Mesh!Received, Mesh!Forwarders
    <2>2. DeviceOrder[i] \in Mesh!Devices
      BY PhonesAreListed
    <2>3. held[DeviceOrder[i]][p] # -2
      BY <2>1
    <2> QED
      BY <2>2, <2>3 DEF Holds, Mesh!holds, Mesh!Absent
  <1>2. CASE ~Mesh!Received(d, p)
    BY <1>2 DEF meshGossip, Mesh!gossipOnce, Holds, Mesh!holds
  <1> QED
    BY <1>1, <1>2

LEMMA SendAdds ==
  ASSUME PhonesOK, NEW p \in Payments, NEW d \in Mesh!Devices, NEW ttl \in InitialTtls,
         demoSend(p, d, ttl)
  PROVE  /\ held' = [e \in Mesh!Devices |-> [q \in Payments |-> held'[e][q]]]
         /\ \A e \in Mesh!Devices, q \in Payments : q # p => held'[e][q] = held[e][q]
  <1> DEFINE H == [e \in Mesh!Devices |-> [q \in Payments |-> held[e][q]]]
  <1>1. held = H /\ held' = [held EXCEPT ![d][p] = ttl]
    BY DEF PhonesOK, demoSend, Mesh!inject
  <1>2. held' = [H EXCEPT ![d][p] = ttl]
    BY <1>1
  <1>3. \A e \in Mesh!Devices : held'[e] = IF e = d THEN [H[d] EXCEPT ![p] = ttl] ELSE H[e]
    BY <1>2
  <1>4. \A e \in Mesh!Devices, q \in Payments :
           held'[e][q] = IF e = d /\ q = p THEN ttl ELSE held[e][q]
    BY <1>3
  <1>5. \A e \in Mesh!Devices : held'[e] = [q \in Payments |-> held'[e][q]]
    BY <1>3
  <1>6. held' = [e \in Mesh!Devices |-> held'[e]]
    BY <1>2
  <1> QED
    BY <1>4, <1>5, <1>6

LEMMA StepPhones ==
  ASSUME BridgeTypeOK, PhonesOK, [SimNext]_simVars
  PROVE  PhonesOK'
  <1>t. /\ now \in Int /\ signedAt \in [Payments -> Int] /\ key \in [Payments -> Nat]
        /\ keyEpoch \in Nat \ {0}
        /\ \A c \in Calls : gate[c] # "none" => upload[c] \in Payments
    BY DEF BridgeTypeOK
  \* Steps that make no packet and fill no phone.
  <1>q. ASSUME held' = [d \in Mesh!Devices |-> [p \in Payments |-> held'[d][p]]],
               \A d \in Mesh!Devices, p \in Payments :
                  Holds(d, p)' => keyEpoch' = keyEpoch /\ \E e \in Mesh!Devices : Holds(e, p),
               UNCHANGED <<key, signedAt>>, now' = now \/ now' = now + 1,
               \A c \in Calls : gate'[c] # "none" =>
                  \/ gate[c] # "none" /\ upload'[c] = upload[c]
                  \/ key[upload'[c]] # 0
        PROVE  PhonesOK'
    <2>1. \A d \in Mesh!Devices, p \in Payments : Holds(d, p)' => key'[p] = keyEpoch'
      BY <1>q DEF PhonesOK
    <2>2. \A p \in Payments : key'[p] # 0 => signedAt'[p] <= now'
      BY <1>q, <1>t DEF PhonesOK
    <2>3. \A c \in Calls : gate'[c] # "none" => key'[upload'[c]] # 0
      BY <1>q DEF PhonesOK
    <2> QED
      BY <1>q, <2>1, <2>2, <2>3 DEF PhonesOK
  <1>s. held = [d \in Mesh!Devices |-> [p \in Payments |-> held[d][p]]]
    BY DEF PhonesOK
  <1>1. ASSUME NEW p \in Payments, NEW d \in Mesh!Devices, NEW ttl \in InitialTtls,
               demoSend(p, d, ttl)
        PROVE  PhonesOK'
    <2>1. /\ key' = [key EXCEPT ![p] = keyEpoch] /\ signedAt' = [signedAt EXCEPT ![p] = now + 0]
          /\ key[p] = 0 /\ UNCHANGED <<now, keyEpoch, upload, gate>>
      BY <1>1 DEF demoSend, CreatePacket
    <2>2. \A e \in Mesh!Devices, q \in Payments : Holds(e, q)' => q = p \/ Holds(e, q)
      BY <1>1, SendAdds DEF Holds, Mesh!holds
    <2>3. \A e \in Mesh!Devices, q \in Payments : Holds(e, q)' => key'[q] = keyEpoch'
      BY <1>t, <2>1, <2>2 DEF PhonesOK
    <2>4. \A q \in Payments : key'[q] # 0 => signedAt'[q] <= now'
      BY <1>t, <2>1 DEF PhonesOK
    <2>5. \A c \in Calls : gate'[c] # "none" => key'[upload'[c]] # 0
      BY <1>t, <2>1 DEF PhonesOK
    <2>6. held' = [e \in Mesh!Devices |-> [q \in Payments |-> held'[e][q]]]
      BY <1>1, SendAdds
    <2> QED
      BY <2>3, <2>4, <2>5, <2>6 DEF PhonesOK
  <1>2. ASSUME meshGossip
        PROVE  PhonesOK'
    <2>1. UNCHANGED <<key, signedAt, now, keyEpoch, gate, upload>>
      BY <1>2 DEF meshGossip, bridgeVars, gateVars
    <2>2. held' = [d \in Mesh!Devices |-> [p \in Payments |-> held'[d][p]]]
      BY <1>2 DEF meshGossip, Mesh!gossipOnce
    <2> QED
      BY <1>2, <1>q, <2>1, <2>2, GossipCopies
  <1>3. ASSUME NEW C, NEW for, Flushed(C, for)
        PROVE  PhonesOK'
    <2>1. UNCHANGED <<key, signedAt, now, keyEpoch, held>>
      BY <1>3 DEF Flushed, phoneVars
    <2>2. \A c \in Calls : gate'[c] # "none" =>
                  \/ gate[c] # "none" /\ upload'[c] = upload[c]
                  \/ key[upload'[c]] # 0
      <3> SUFFICES ASSUME NEW c \in C PROVE key[upload'[c]] # 0
        BY <1>3 DEF Flushed
      <3>1. for[c] \in Mesh!collectBridgeUploads /\ upload'[c] = for[c][2]
        BY <1>3 DEF Flushed
      <3>2. key[for[c][2]] = keyEpoch
        BY <3>1, UploadsAreFinite DEF PhonesOK
      <3> QED
        BY <1>t, <3>1, <3>2
    <2>3. \A d \in Mesh!Devices, p \in Payments : Holds(d, p)' => Holds(d, p)
      BY <2>1 DEF Holds, Mesh!holds
    <2> QED
      BY <1>q, <1>s, <2>1, <2>2, <2>3
  <1>4. ASSUME meshReset \/ RestartSimulator
        PROVE  PhonesOK'
    <2>1. UNCHANGED <<key, signedAt, now, gate, upload>> /\ held' = Mesh!NoCopies
      BY <1>4 DEF meshReset, RestartSimulator, RestartServer, Mesh!resetMesh
    <2>2. held' = [d \in Mesh!Devices |-> [p \in Payments |-> -2]]
      BY <2>1 DEF Mesh!NoCopies, Mesh!Absent
    <2>3. \A d \in Mesh!Devices, p \in Payments : ~Holds(d, p)'
      BY <2>2 DEF Holds, Mesh!holds, Mesh!Absent
    <2> QED
      BY <1>q, <2>1, <2>2, <2>3
  <1>5. ASSUME UNCHANGED <<key, signedAt, keyEpoch, gate, upload, held>>,
               now' = now \/ now' = now + 1
        PROVE  PhonesOK'
    <2>1. \A d \in Mesh!Devices, p \in Payments : Holds(d, p)' => Holds(d, p)
      BY <1>5 DEF Holds, Mesh!holds
    <2> QED
      BY <1>5, <1>q, <1>s, <2>1
  <1>6. ASSUME NEW c \in Calls, Settling(c), UNCHANGED phoneVars
        PROVE  PhonesOK'
    BY <1>6, <1>5 DEF Settling, gateVars, phoneVars
  <1>7. ASSUME evictExpired \/ Tick \/ UNCHANGED bridgeVars, UNCHANGED phoneVars
        PROVE  PhonesOK'
    BY <1>7, <1>5 DEF evictExpired, Tick, bridgeVars, gateVars, phoneVars
  <1> QED
    BY <1>1, <1>2, <1>3, <1>4, <1>6, <1>7, FlushHasCalls DEF SimNext, simVars

-----------------------------------------------------------------------------
(* The invariant of the demo, but for what depends on its settings.        *)
SimInv == SimSettlementInv /\ PhonesOK

LEMMA SimInvariant == SimSpec => []SimInv
  <1>1. SimInit => SimInv
    <2> SUFFICES ASSUME SimInit PROVE SimInv
      OBVIOUS
    <2>1. BridgeTypeOK
      BY BridgeInitTypeOK DEF SimInit
    <2>2. VerdictInv /\ MoneyInv
      BY LedgerAssumption
      DEF SimInit, BridgeInit, SettlementInit, LedgerInit, VerdictInv, InsertsAreExclusive,
          OneVerdict, MoneyInv, NoOverdraft, DecisionsAreFounded, Decided
    <2>3. SnapshotsHold
      BY DEF SimInit, BridgeInit, SettlementInit, SnapshotsHold, Written, Decided
    <2>4. held = [d \in Mesh!Devices |-> [p \in Payments |-> -2]]
      BY DEF SimInit, Mesh!MeshInit, Mesh!NoCopies, Mesh!Absent
    <2>5. \A d \in Mesh!Devices, p \in Payments : ~Holds(d, p)
      BY <2>4 DEF Holds, Mesh!holds, Mesh!Absent
    <2>6. PhonesOK
      BY <2>4, <2>5 DEF PhonesOK, SimInit, BridgeInit
    <2> QED
      BY <2>1, <2>2, <2>3, <2>6 DEF SimInv, SimSettlementInv
  <1>2. SimInv /\ [SimNext]_simVars => SimInv'
    BY StepSimSettlement, StepPhones DEF SimInv, SimSettlementInv
  <1> QED
    BY <1>1, <1>2, PTL DEF SimSpec

-----------------------------------------------------------------------------
\* Only a flush asks the gate.
LEMMA OthersAskNothing ==
  ASSUME [SimNext]_simVars
  PROVE  (\E C, for : Flushed(C, for)) \/ UNCHANGED <<gate, upload>>
  <1>1. \A p, d, ttl : demoSend(p, d, ttl) => UNCHANGED <<gate, upload>>
    BY DEF demoSend, CreatePacket
  <1>2. \A c : Settling(c) => UNCHANGED <<gate, upload>>
    BY DEF Settling, gateVars
  <1> QED
    BY <1>1, <1>2, FlushHasCalls
    DEF SimNext, simVars, bridgeVars, gateVars, meshGossip, meshReset, RestartSimulator,
        RestartServer, evictExpired, Tick

(* Whatever is reset, restarted or evicted, and however late a bridge      *)
(* flushes: the server decrypts what its own phones hold, and never finds  *)
(* it signed in the future (demoController.js makes both with its own key  *)
(* and clock).                                                             *)
THEOREM OwnPacketsPass ==
  ASSUME Tampered = {}
  PROVE  SimSpec => []OwnPacketsAreAccepted
  <1>1. SimInit => OwnPacketsAreAccepted
    BY DEF SimInit, BridgeInit, OwnPacketsAreAccepted
  <1>2. ASSUME SimInv, OwnPacketsAreAccepted, [SimNext]_simVars
        PROVE  OwnPacketsAreAccepted'
    <2>1. ASSUME NEW C, NEW for, Flushed(C, for), NEW c \in Calls
          PROVE  gate'[c] \notin {"undecryptable", "future"}
      <3>1. CASE c \notin C
        BY <1>2, <2>1, <3>1 DEF Flushed, OwnPacketsAreAccepted
      <3>2. CASE c \in C
        <4> DEFINE p == for[c][2]
        <4>1. for[c] \in Mesh!collectBridgeUploads /\ gate'[c] = UploadVerdict(for[c])
          BY <2>1, <3>2 DEF Flushed
        <4>2. p \in Payments /\ key[p] = keyEpoch /\ keyEpoch # 0 /\ key[p] # 0
          BY <1>2, <4>1, UploadsAreFinite DEF SimInv, PhonesOK, SimSettlementInv, BridgeTypeOK
        <4>3. Decrypts(p)
          BY <4>2 DEF Decrypts
        <4>4. ~IsFutureDated(p)
          <5>1. signedAt[p] <= now
            BY <1>2, <4>2 DEF SimInv, PhonesOK
          <5>2. signedAt[p] \in Int /\ now \in Int /\ Skew \in Nat
            BY <1>2, <4>2, BridgeAssumption DEF SimInv, SimSettlementInv, BridgeTypeOK
          <5> HIDE DEF p
          <5> QED
            BY <5>1, <5>2 DEF IsFutureDated
        <4>5. Verdict(p) \notin {"undecryptable", "future"}
          BY <4>3, <4>4, VerdictIs
        <4> QED
          BY <4>1, <4>5, UploadVerdictIs
      <3> QED
        BY <3>1, <3>2
    <2> QED
      BY <1>2, <2>1, OthersAskNothing DEF OwnPacketsAreAccepted
  <1> QED
    BY <1>1, <1>2, SimInvariant, PTL DEF SimSpec

-----------------------------------------------------------------------------
\* Once a packet is claimed, or gone from the phones, what guards it stays.
LEMMA FlushKeepsGate ==
  ASSUME MaxAge <= Ttl, SimInv, SimGateInv, NEW C, NEW for, Flushed(C, for)
  PROVE  SimGateInv'
  <1>t. /\ now \in Int /\ now # 0 /\ MaxAge \in Int /\ Ttl \in Int
        /\ \A p \in Payments : signedAt[p] \in Int
        /\ \A c \in Calls : gate[c] = "passed" => upload[c] \in Payments
    BY BridgeAssumption DEF SimInv, SimSettlementInv, BridgeTypeOK
  <1>f. /\ C \subseteq Calls /\ \A c \in C : gate[c] = "none"
        /\ UNCHANGED <<now, signedAt, held>>
        /\ \A c \in Calls \ C : gate'[c] = gate[c] /\ upload'[c] = upload[c]
        /\ \A c \in C : /\ for[c] \in Mesh!collectBridgeUploads
                        /\ gate'[c] = UploadVerdict(for[c]) /\ upload'[c] = for[c][2]
        /\ \A c, d \in C : for[c] = for[d] => c = d
    BY DEF Flushed, phoneVars
  <1>1. ASSUME NEW c \in C, gate'[c] = "passed"
        PROVE  /\ upload'[c] \in Payments /\ Holds(for[c][1], upload'[c]) /\ for[c][1] \in Mesh!Devices
               /\ ~IsClaimed(upload'[c]) /\ ~IsStale(upload'[c]) /\ IsFirst(for[c])
               /\ signedAt[upload'[c]] <= now
    <2>1. IsFirst(for[c]) /\ Verdict(for[c][2]) = "passed"
      BY <1>1, <1>f, UploadVerdictIs
    <2>2. ~IsClaimed(for[c][2]) /\ ~IsStale(for[c][2])
      BY <2>1, VerdictIs
    <2>3. for[c][2] \in Payments /\ for[c][1] \in Mesh!Devices /\ Holds(for[c][1], for[c][2])
      BY <1>f, UploadsAreFinite
    <2>4. signedAt[for[c][2]] <= now
      BY <2>3 DEF SimInv, PhonesOK, SimSettlementInv, BridgeTypeOK
    <2> QED
      BY <1>f, <2>1, <2>2, <2>3, <2>4
  <1>2. ASSUME NEW p \in Payments, SimGuarded(p)
        PROVE  SimGuarded(p)'
    <2>1. CASE \A d \in Mesh!Devices : ~Holds(d, p)
      BY <1>f, <2>1 DEF SimGuarded, Holds, Mesh!holds
    <2>2. CASE IsClaimed(p) /\ signedAt[p] + MaxAge <= seen[p] + Ttl
      <3>1. seen'[p] = seen[p]
        BY <2>2 DEF Flushed
      <3> QED
        BY <1>f, <2>2, <3>1 DEF SimGuarded, IsClaimed
    <2>3. CASE IsStale(p)
      BY <1>f, <2>3 DEF SimGuarded, IsStale
    <2> QED
      BY <1>2, <2>1, <2>2, <2>3 DEF SimGuarded
  <1>3. ASSUME NEW c \in C, gate'[c] = "passed"
        PROVE  SimGuarded(upload[c])'
    <2>1. upload'[c] \in Payments /\ ~IsClaimed(upload'[c]) /\ signedAt[upload'[c]] <= now
      BY <1>1, <1>3
    <2>2. seen'[upload'[c]] = now
      BY <1>f, <2>1 DEF Flushed
    <2>3. signedAt[upload'[c]] + MaxAge <= now + Ttl
      BY <1>t, <2>1
    <2> QED
      BY <1>f, <1>t, <2>2, <2>3 DEF SimGuarded, IsClaimed
  <1>4. ASSUME NEW c \in C, gate'[c] = "passed", NEW d \in Calls \ C, gate'[d] = "passed"
        PROVE  upload'[c] # upload'[d]
    <2> SUFFICES ASSUME upload'[c] = upload'[d] PROVE FALSE
      OBVIOUS
    <2>1. SimGuarded(upload'[c])
      BY <1>4, <1>f DEF SimGateInv
    <2> QED
      BY <1>1, <1>4, <2>1 DEF SimGuarded
  <1>5. ASSUME NEW c \in C, gate'[c] = "passed", NEW d \in C, gate'[d] = "passed",
               upload'[c] = upload'[d]
        PROVE  c = d
    <2>1. for[c] = for[d]
      BY <1>f, <1>1, <1>5, OneIsFirst
    <2> QED
      BY <1>f, <2>1
  <1>6. PassedOnce'
    <2> SUFFICES ASSUME NEW c \in Calls, NEW d \in Calls,
                        gate'[c] = "passed", gate'[d] = "passed", upload'[c] = upload'[d]
                 PROVE  c = d
      BY DEF PassedOnce
    <2>1. CASE c \in C /\ d \in C
      BY <1>5, <2>1
    <2>2. CASE c \notin C /\ d \notin C
      BY <1>f, <2>2 DEF SimGateInv, PassedOnce
    <2> QED
      BY <1>4, <2>1, <2>2
  <1>7. \A c \in Calls : gate'[c] = "passed" => SimGuarded(upload[c])'
    <2> SUFFICES ASSUME NEW c \in Calls \ C, gate'[c] = "passed"
                 PROVE  SimGuarded(upload[c])'
      BY <1>3
    <2>1. gate[c] = "passed" /\ upload'[c] = upload[c] /\ upload[c] \in Payments
      BY <1>f, <1>t
    <2>2. SimGuarded(upload[c])
      BY <2>1 DEF SimGateInv
    <2> QED
      BY <1>2, <2>1, <2>2 DEF SimGuarded, IsClaimed, IsStale, Holds, Mesh!holds
  <1> QED
    BY <1>6, <1>7 DEF SimGateInv

LEMMA StepSimGate ==
  ASSUME MaxAge <= Ttl, SimInv, SimGateInv, [SimNext]_simVars
  PROVE  SimGateInv'
  <1>t. /\ now \in Int /\ MaxAge \in Int /\ Ttl \in Int
        /\ \A p \in Payments : signedAt[p] \in Int /\ seen[p] \in Int
        /\ \A c \in Calls : gate[c] = "passed" => upload[c] \in Payments /\ key[upload[c]] # 0
    BY BridgeAssumption DEF SimInv, SimSettlementInv, BridgeTypeOK, PhonesOK
  <1>q. ASSUME UNCHANGED <<gate, upload>>,
               \A c \in Calls : gate[c] = "passed" /\ SimGuarded(upload[c]) =>
                                   \/ \A d \in Mesh!Devices : ~Holds(d, upload[c])'
                                   \/ IsClaimed(upload[c])' /\ signedAt'[upload[c]] + MaxAge <= seen'[upload[c]] + Ttl
                                   \/ IsStale(upload[c])'
        PROVE  SimGateInv'
    BY <1>q DEF SimGateInv, PassedOnce, SimGuarded, Holds, Mesh!holds, IsClaimed, IsStale
  <1>1. ASSUME NEW p \in Payments, NEW d \in Mesh!Devices, NEW ttl \in InitialTtls,
               demoSend(p, d, ttl)
        PROVE  SimGateInv'
    <2>1. /\ key[p] = 0 /\ UNCHANGED <<now, seen, upload, gate>>
          /\ signedAt' = [signedAt EXCEPT ![p] = now + 0]
      BY <1>1 DEF demoSend, CreatePacket
    <2>2. \A c \in Calls : gate[c] = "passed" => upload[c] \in Payments \ {p}
      BY <1>t, <2>1
    <2>3. \A e \in Mesh!Devices, q \in Payments \ {p} : held'[e][q] = held[e][q]
      BY <1>1, SendAdds DEF SimInv
    <2>4. \A q \in Payments \ {p} : signedAt'[q] = signedAt[q]
      BY <2>1, <1>t
    <2> QED
      BY <1>q, <2>1, <2>2, <2>3, <2>4 DEF SimGuarded, Holds, Mesh!holds, IsClaimed, IsStale
  <1>2. ASSUME meshGossip
        PROVE  SimGateInv'
    <2>1. UNCHANGED <<now, seen, signedAt, upload, gate>>
      BY <1>2 DEF meshGossip, bridgeVars, gateVars
    <2>2. \A p \in Payments : (\A d \in Mesh!Devices : ~Holds(d, p)) =>
                                 \A d \in Mesh!Devices : ~Holds(d, p)'
      BY <1>2, GossipCopies
    <2> QED
      BY <1>q, <1>t, <2>1, <2>2 DEF SimGuarded, IsClaimed, IsStale
  <1>3. ASSUME meshReset \/ RestartSimulator
        PROVE  SimGateInv'
    <2>1. UNCHANGED <<gate, upload>> /\ held' = Mesh!NoCopies
      BY <1>3 DEF meshReset, RestartSimulator, RestartServer, Mesh!resetMesh
    <2>2. \A d \in Mesh!Devices, p \in Payments : ~Holds(d, p)'
      BY <2>1 DEF Mesh!NoCopies, Holds, Mesh!holds
    <2> QED
      BY <1>q, <1>t, <2>1, <2>2
  <1>4. ASSUME UNCHANGED <<gateVars, phoneVars>>
        PROVE  SimGateInv'
    BY <1>4, <1>q DEF gateVars, phoneVars, SimGuarded, Holds, Mesh!holds, IsClaimed, IsStale
  <1>5. ASSUME evictExpired, UNCHANGED phoneVars
        PROVE  SimGateInv'
    <2>1. /\ UNCHANGED <<now, key, signedAt, upload, gate, held>>
          /\ \A p \in Payments : seen'[p] = seen[p] \/ seen[p] < now - Ttl
      BY <1>5 DEF evictExpired, phoneVars
    <2>2. \A p \in Payments : SimGuarded(p) =>
             \/ \A d \in Mesh!Devices : ~Holds(d, p)'
             \/ IsClaimed(p)' /\ signedAt'[p] + MaxAge <= seen'[p] + Ttl
             \/ IsStale(p)'
      BY <1>t, <2>1 DEF SimGuarded, IsClaimed, IsStale, Holds, Mesh!holds
    <2> QED
      BY <1>q, <1>t, <2>1, <2>2 DEF Holds, Mesh!holds, IsClaimed, IsStale
  <1>6. ASSUME Tick, UNCHANGED phoneVars
        PROVE  SimGateInv'
    <2>1. now' = now + 1 /\ UNCHANGED <<seen, signedAt, upload, gate, held>>
      BY <1>6 DEF Tick, phoneVars
    <2>2. \A p \in Payments : IsStale(p) => IsStale(p)'
      BY <1>t, <2>1 DEF IsStale
    <2> QED
      BY <1>q, <1>t, <2>1, <2>2 DEF SimGuarded, IsClaimed, Holds, Mesh!holds
  <1> QED
    BY <1>1, <1>2, <1>3, <1>4, <1>5, <1>6, FlushHasCalls, FlushKeepsGate
    DEF SimNext, simVars, bridgeVars, Settling

LEMMA SimGateInvariant ==
  ASSUME MaxAge <= Ttl
  PROVE  SimSpec => []SimGateInv
  <1>1. SimInit => SimGateInv
    BY DEF SimInit, BridgeInit, SimGateInv, PassedOnce
  <1>2. SimInv /\ SimGateInv /\ [SimNext]_simVars => SimGateInv'
    BY StepSimGate
  <1> QED
    BY <1>1, <1>2, SimInvariant, PTL DEF SimSpec

-----------------------------------------------------------------------------
\* The payments for which account a may have been debited.
LEMMA PaidIsFinite ==
  ASSUME NEW a
  PROVE  /\ IsFiniteSet(Paid(a)) /\ Cardinality(Paid(a)) \in Nat
         /\ IsFiniteSet(Paid(a)') /\ Cardinality(Paid(a)') \in Nat
  <1>1. Paid(a) \subseteq Payments /\ Paid(a)' \subseteq Payments
    BY DEF Paid
  <1> QED
    BY <1>1, LedgerAssumption, FS_Subset, FS_CardinalityType

\* A call that may have debited its sender may still have done so afterwards.
LEMMA PaidGrows ==
  ASSUME NEW a,
         \A c \in Calls : MayHaveDebited(c) => MayHaveDebited(c)' /\ pay'[c] = pay[c]
  PROVE  Paid(a) \subseteq Paid(a)' /\ Cardinality(Paid(a)) <= Cardinality(Paid(a)')
  <1>1. Paid(a) \subseteq Paid(a)'
    BY DEF Paid
  <1> QED
    BY <1>1, PaidIsFinite, FS_Subset

\* A debit is that of a payment nobody has debited.
LEMMA DebitIsNew ==
  ASSUME SimInv, SimGateInv, NEW c \in Calls, Settling(c), NEW a \in Accounts,
         version'[a] # version[a]
  PROVE  /\ version'[a] = version[a] + 1
         /\ pay[c] \in Paid(a)' /\ pay[c] \notin Paid(a)
  <1>t. /\ SettlementTypeOK /\ version[a] \in Nat
        /\ \A d \in Calls : pc[d] # "idle" => gate[d] = "passed" /\ pay[d] = upload[d]
    BY DEF SimInv, SimSettlementInv, BridgeTypeOK, SettlementTypeOK
  <1>1. CASE CommitSettled(c) /\ SupportsTransactions
    <2>1. SessionInv
      BY DEF SimInv, SimSettlementInv, SessionInv, BridgeTypeOK
    <2>2. version' = [version EXCEPT ![Sender[pay[c]]] = version[Sender[pay[c]]] + 1]
      BY <1>1, <2>1, CommitTakesEffect
    <2>3. /\ pc[c] = "commit" /\ pc'[c] \in {"settled", "failed"} /\ pay' = pay
          /\ pay[c] \in Payments
      BY <1>1, <1>t DEF CommitSettled, Answer, Goto, SettlementTypeOK
    <2>4. a = Sender[pay[c]] /\ version'[a] = version[a] + 1
      BY <1>t, <2>2 DEF SettlementTypeOK
    <2>5. MayHaveDebited(c)' /\ ~MayHaveDebited(c)
      BY <1>1, <2>3 DEF MayHaveDebited, Returned
    <2>6. \A d \in Calls : MayHaveDebited(d) /\ pay[d] = pay[c] => d = c
      BY <1>1, <1>t, <2>3 DEF MayHaveDebited, Returned, SimGateInv, PassedOnce
    <2> QED
      BY <2>3, <2>4, <2>5, <2>6 DEF Paid
  <1>2. CASE DebitSender(c) /\ ~SupportsTransactions
    <2>1. ~StaleSender(c)
      BY <1>2 DEF DebitSender
    <2>2. ~WriteConflict(c, Sender[pay[c]])
      BY <1>2 DEF DebitSender
    <2>3. /\ version' = [version EXCEPT ![Sender[pay[c]]] = version[Sender[pay[c]]] + 1]
          /\ pc[c] = "debit" /\ pc'[c] \in {"credit", "failed"} /\ pay' = pay
          /\ pay[c] \in Payments
      BY <1>2, <1>t, <2>1, <2>2 DEF DebitSender, Answer, Goto, SettlementTypeOK
    <2>4. a = Sender[pay[c]] /\ version'[a] = version[a] + 1
      BY <1>t, <2>3 DEF SettlementTypeOK
    <2>5. MayHaveDebited(c)' /\ ~MayHaveDebited(c)
      BY <1>2, <2>3 DEF MayHaveDebited
    <2>6. \A d \in Calls : MayHaveDebited(d) /\ pay[d] = pay[c] => d = c
      BY <1>2, <1>t, <2>3 DEF MayHaveDebited, SimGateInv, PassedOnce
    <2> QED
      BY <2>3, <2>4, <2>5, <2>6 DEF Paid
  <1>3. CASE CommitSettled(c) /\ ~SupportsTransactions
    BY <1>3 DEF CommitSettled, SimInv, SimSettlementInv, VerdictInv, InsertsAreExclusive
  <1>4. CASE DebitSender(c) /\ SupportsTransactions
    BY <1>4 DEF DebitSender
  <1> QED
    BY <1>1, <1>2, <1>3, <1>4
    DEF Settling, SettlementStep, ReadSender, ReadReceiver, CreditReceiver, RecordSettled,
        RecordRejected, Insert, CommitRejected, DatabaseError

LEMMA SettlingKeepsPaid ==
  ASSUME SettlementTypeOK, NEW c \in Calls, Settling(c), NEW d \in Calls, MayHaveDebited(d)
  PROVE  MayHaveDebited(d)' /\ pay'[d] = pay[d]
  <1>1. pay' = pay /\ \A e \in Calls \ {c} : pc'[e] = pc[e]
    BY SettlingKeepsCalls
  <1>2. CASE d # c
    BY <1>1, <1>2 DEF MayHaveDebited
  <1>3. CASE d = c /\ SupportsTransactions
    BY <1>3 DEF MayHaveDebited, Returned, Settling, SettlementStep, ReadSender, ReadReceiver,
                DebitSender, CreditReceiver, RecordSettled, RecordRejected, CommitSettled,
                CommitRejected, DatabaseError, Active
  <1>4. CASE d = c /\ ~SupportsTransactions
    <2>1. pc[c] \notin {"idle", "sender", "receiver", "debit"}
      BY <1>4 DEF MayHaveDebited
    <2>2. \/ pc[c] = "credit" /\ CreditReceiver(c)
          \/ RecordSettled(c) \/ RecordRejected(c) \/ CommitSettled(c) \/ CommitRejected(c)
          \/ DatabaseError(c)
      BY <2>1 DEF Settling, SettlementStep, ReadSender, ReadReceiver, DebitSender, CreditReceiver
    <2>3. pc'[c] \notin {"idle", "sender", "receiver", "debit"}
      BY <2>2 DEF CreditReceiver, RecordSettled, RecordRejected, Insert, CommitSettled,
                  CommitRejected, DatabaseError, Answer, Goto, SettlementTypeOK
    <2> QED
      BY <1>1, <1>4, <2>3 DEF MayHaveDebited
  <1> QED
    BY <1>2, <1>3, <1>4

LEMMA StepDebits ==
  ASSUME SimInv, SimGateInv, DebitsInv, [SimNext]_simVars
  PROVE  DebitsInv'
  <1>t. SettlementTypeOK /\ BridgeTypeOK
    BY DEF SimInv, SimSettlementInv, BridgeTypeOK
  <1>q. ASSUME UNCHANGED version,
               \A c \in Calls : MayHaveDebited(c) => MayHaveDebited(c)' /\ pay'[c] = pay[c]
        PROVE  DebitsInv'
    <2> SUFFICES ASSUME NEW a \in Accounts PROVE version'[a] <= Cardinality(Paid(a)')
      BY DEF DebitsInv
    <2>1. Cardinality(Paid(a)) <= Cardinality(Paid(a)')
      BY <1>q, PaidGrows
    <2>2. version[a] <= Cardinality(Paid(a)) /\ version[a] \in Nat
      BY <1>t DEF DebitsInv, SettlementTypeOK
    <2> QED
      BY <1>q, <2>1, <2>2, PaidIsFinite
  <1>1. ASSUME NEW c \in Calls, Settling(c)
        PROVE  DebitsInv'
    <2> SUFFICES ASSUME NEW a \in Accounts PROVE version'[a] <= Cardinality(Paid(a)')
      BY DEF DebitsInv
    <2>1. \A d \in Calls : MayHaveDebited(d) => MayHaveDebited(d)' /\ pay'[d] = pay[d]
      BY <1>1, <1>t, SettlingKeepsPaid
    <2>2. Paid(a) \subseteq Paid(a)' /\ Cardinality(Paid(a)) <= Cardinality(Paid(a)')
      BY <2>1, PaidGrows
    <2>3. version[a] <= Cardinality(Paid(a)) /\ version[a] \in Nat
      BY <1>t DEF DebitsInv, SettlementTypeOK
    <2>4. CASE version'[a] = version[a]
      BY <2>2, <2>3, <2>4, PaidIsFinite
    <2>5. CASE version'[a] # version[a]
      <3>1. version'[a] = version[a] + 1 /\ pay[c] \in Paid(a)' /\ pay[c] \notin Paid(a)
        BY <1>1, <2>5, DebitIsNew
      <3>2. /\ Cardinality(Paid(a) \cup {pay[c]}) = Cardinality(Paid(a)) + 1
            /\ IsFiniteSet(Paid(a) \cup {pay[c]})
        BY <3>1, PaidIsFinite, FS_AddElement
      <3>3. Cardinality(Paid(a) \cup {pay[c]}) <= Cardinality(Paid(a)')
        BY <2>2, <3>1, PaidIsFinite, FS_Subset
      <3> QED
        BY <2>3, <3>1, <3>2, <3>3, PaidIsFinite
    <2> QED
      BY <2>4, <2>5
  <1>2. ASSUME NEW C, NEW for, Flushed(C, for)
        PROVE  DebitsInv'
    <2>1. UNCHANGED version /\ \A c \in Calls \ C : pay'[c] = pay[c] /\ pc'[c] = pc[c]
      BY <1>2 DEF Flushed
    <2>2. \A c \in C : c \in Calls /\ pc[c] = "idle"
      BY <1>2, <1>t DEF Flushed, BridgeTypeOK
    <2>3. \A c \in C : ~MayHaveDebited(c)
      BY <2>2 DEF MayHaveDebited, Returned
    <2> QED
      BY <1>q, <2>1, <2>3 DEF MayHaveDebited
  <1>3. ASSUME RestartServer
        PROVE  DebitsInv'
    <2>1. \A c \in Calls : MayHaveDebited(c) => MayHaveDebited(c)'
      BY <1>3 DEF RestartServer, MayHaveDebited, Returned
    <2> QED
      BY <1>3, <1>q, <2>1 DEF RestartServer
  <1>4. ASSUME UNCHANGED <<pc, pay, version>>
        PROVE  DebitsInv'
    BY <1>4, <1>q DEF MayHaveDebited
  <1>5. \A p, d, ttl : demoSend(p, d, ttl) => UNCHANGED <<pc, pay, version>>
    BY DEF demoSend, CreatePacket, settlementVars
  <1> QED
    BY <1>1, <1>2, <1>3, <1>4, <1>5, FlushHasCalls
    DEF SimNext, simVars, bridgeVars, settlementVars, meshGossip, meshReset, RestartSimulator,
        evictExpired, Tick

(* However the demo is flushed, reset, gossiped, evicted and restarted, in *)
(* both modes and with any fault, no account is debited more often than it *)
(* has payments (demoController.js, meshFlush: every bridge delivers).     *)
THEOREM DemoDebitsOnce ==
  ASSUME MaxAge <= Ttl
  PROVE  SimSpec => []DebitedOnce
  <1>1. SimInit => DebitsInv
    <2> SUFFICES ASSUME SimInit, NEW a \in Accounts PROVE version[a] <= Cardinality(Paid(a))
      BY DEF DebitsInv
    <2>1. version[a] = 0
      BY DEF SimInit, BridgeInit, SettlementInit
    <2> QED
      BY <2>1, PaidIsFinite
  <1>2. SimInv /\ SimGateInv /\ DebitsInv /\ [SimNext]_simVars => DebitsInv'
    BY StepDebits
  <1>3. SimInv /\ DebitsInv => DebitedOnce
    <2> SUFFICES ASSUME SimInv, DebitsInv, NEW a \in Accounts
                 PROVE  version[a] <= Cardinality({p \in Payments :
                                          Sender[p] = a /\ \E c \in Calls : pay[c] = p})
      BY DEF DebitedOnce
    <2> DEFINE S == {p \in Payments : Sender[p] = a /\ \E c \in Calls : pay[c] = p}
    <2>1. Paid(a) \subseteq S /\ S \subseteq Payments
      BY DEF Paid
    <2> HIDE DEF S
    <2>2. IsFiniteSet(S) /\ Cardinality(S) \in Nat
      BY <2>1, LedgerAssumption, FS_Subset, FS_CardinalityType
    <2>3. Cardinality(Paid(a)) <= Cardinality(S)
      BY <2>1, <2>2, FS_Subset
    <2>4. version[a] <= Cardinality(Paid(a)) /\ version[a] \in Nat
      BY DEF DebitsInv, SimInv, SimSettlementInv, BridgeTypeOK, SettlementTypeOK
    <2>5. version[a] <= Cardinality(S)
      BY <2>2, <2>3, <2>4, PaidIsFinite
    <2> QED
      BY <2>5 DEF S
  <1> QED
    BY <1>1, <1>2, <1>3, SimInvariant, SimGateInvariant, PTL DEF SimSpec

-----------------------------------------------------------------------------
(* The endpoints touch the phones by the operations of the mesh only: the  *)
(* simulated mesh, reset with the server, is MeshService.                  *)
THEOREM DemoDrivesMesh == SimSpec => Mesh!MeshSpec
  <1>1. SimInit => Mesh!MeshInit
    BY DEF SimInit
  <1>2. ASSUME [SimNext]_simVars
        PROVE  [Mesh!MeshNext]_Mesh!meshVars
    <2>1. ASSUME NEW p \in Payments, NEW d \in Mesh!Devices, NEW ttl \in InitialTtls,
                 demoSend(p, d, ttl)
          PROVE  Mesh!MeshNext
      BY <2>1 DEF demoSend, Mesh!MeshNext
    <2>2. meshGossip => Mesh!MeshNext
      BY DEF meshGossip, Mesh!MeshNext
    <2>3. meshReset \/ RestartSimulator => Mesh!MeshNext
      BY DEF meshReset, RestartSimulator, Mesh!MeshNext
    <2>4. meshFlush \/ UNCHANGED phoneVars => UNCHANGED Mesh!meshVars
      BY DEF meshFlush, phoneVars, Mesh!meshVars
    <2> QED
      BY <1>2, <2>1, <2>2, <2>3, <2>4 DEF SimNext, simVars
  <1> QED
    BY <1>1, <1>2, PTL DEF SimSpec, Mesh!MeshSpec

\* What a request does to the server is a step of the demo.
LEMMA EndpointsAreSteps ==
  ASSUME NEW b, Endpoint(b)
  PROVE  [SimNext]_simVars
  <1>1. \A p \in Payments, ttl \in InitialTtls : demoSend(p, StartDevice, ttl) => SimNext
    BY FormAssumption DEF SimNext
  <1>2. meshGossip \/ meshFlush \/ meshReset => SimNext
    BY DEF SimNext
  <1> QED
    BY <1>1, <1>2 DEF Endpoint

LEMMA FormStepsAreSteps ==
  ASSUME [FormNext]_uiVars
  PROVE  [SimNext]_simVars
  <1>1. ASSUME NEW b \in Buttons, Click(b) \/ Resume(b) \/ GiveUp(b)
        PROVE  UNCHANGED simVars
    BY <1>1 DEF Click, Resume, GiveUp
  <1>2. ASSUME NEW b \in Buttons, Handle(b) \/ HandleLate(b)
        PROVE  [SimNext]_simVars
    BY <1>2, EndpointsAreSteps DEF Handle, HandleLate
  <1>3. Server => SimNext
    BY DEF Server, SimNext
  <1> QED
    BY <1>1, <1>2, <1>3 DEF FormNext, Refuse, ResumeRefused, uiVars

(* However its requests overlap, are given up, or arrive late, the page    *)
(* only drives the demo: all that holds of the endpoints holds behind it.  *)
THEOREM PageDrivesDemo == FormSpec => SimSpec
  <1>1. FormInit => SimInit
    BY DEF FormInit
  <1>2. [FormNext]_uiVars => [SimNext]_simVars
    BY FormStepsAreSteps
  <1> QED
    BY <1>1, <1>2, PTL DEF FormSpec, SimSpec

-----------------------------------------------------------------------------
LEMMA StepFormTypeOK == FormTypeOK /\ [FormNext]_uiVars => FormTypeOK'
  <1> USE FormAssumption
  <1> SUFFICES ASSUME FormTypeOK, [FormNext]_uiVars
               PROVE  FormTypeOK'
    OBVIOUS
  <1>1. ASSUME NEW b \in Buttons, Click(b)
        PROVE  FormTypeOK'
    <2>1. sends' \in 0 .. MaxSends
      BY <1>1 DEF Click, FormTypeOK
    <2>2. shownFlush' \subseteq Calls
      BY <1>1 DEF Click, FormTypeOK
    <2>3. alone' \in BOOLEAN /\ shown' \in [Buttons -> {"nothing", "success", "error"}]
      BY <1>1 DEF Click, FormTypeOK
    <2> QED
      BY <1>1, <2>1, <2>2, <2>3 DEF Click, FormTypeOK
  <1>2. ASSUME NEW b \in Buttons, Handle(b)
        PROVE  FormTypeOK'
    <2>1. flushCalls' \subseteq Calls
      BY <1>2 DEF Handle, FormTypeOK
    <2> QED
      BY <1>2, <2>1 DEF Handle, FormTypeOK
  <1>3. ASSUME NEW b \in Buttons, HandleLate(b)
        PROVE  FormTypeOK'
    BY <1>3 DEF HandleLate, FormTypeOK
  <1>4. ASSUME NEW b \in Buttons, Resume(b)
        PROVE  FormTypeOK'
    BY <1>4 DEF Resume, Return, FormTypeOK
  <1>5. ASSUME NEW b \in Buttons, GiveUp(b)
        PROVE  FormTypeOK'
    BY <1>5 DEF GiveUp, Return, ShowError, FormTypeOK
  <1>6. CASE Refuse
    BY <1>6 DEF Refuse, FormTypeOK, Buttons
  <1>7. CASE ResumeRefused
    BY <1>7 DEF ResumeRefused, Return, ShowError, FormTypeOK, Buttons
  <1>8. CASE UNCHANGED formVars
    BY <1>8 DEF formVars, FormTypeOK
  <1> QED
    BY <1>1, <1>2, <1>3, <1>4, <1>5, <1>6, <1>7, <1>8 DEF FormNext, uiVars

(* A button is disabled exactly while its request is awaited, whatever     *)
(* becomes of the request.                                                 *)
THEOREM FormTypeCorrect == FormSpec => []FormTypeOK
  <1>1. ASSUME FormInit
        PROVE  FormTypeOK
    <2>1. /\ loading \in [Buttons -> BOOLEAN]
          /\ request \in [Buttons -> {"none", "sent", "served", "refused"}]
          /\ shown \in [Buttons -> {"nothing", "success", "error"}]
      BY <1>1 DEF FormInit
    <2>2. \A b \in Buttons : ~loading[b] /\ request[b] = "none"
      BY <1>1 DEF FormInit
    <2>3. sends \in 0 .. MaxSends
      BY <1>1, FormAssumption DEF FormInit
    <2> QED
      BY <1>1, <2>1, <2>2, <2>3 DEF FormInit, FormTypeOK
  <1> QED
    BY <1>1, StepFormTypeOK, PTL DEF FormSpec

-----------------------------------------------------------------------------
LEMMA PacketsAreFinite ==
  /\ IsFiniteSet(Packets) /\ Cardinality(Packets) \in Nat
  /\ IsFiniteSet(Packets') /\ Cardinality(Packets') \in Nat
  <1>1. Packets \subseteq Payments /\ Packets' \subseteq Payments
    BY DEF Packets
  <1> QED
    BY <1>1, LedgerAssumption, FS_Subset, FS_CardinalityType

\* Only the endpoint behind "send" makes a packet, and it makes one.
LEMMA EndpointMakes ==
  ASSUME BridgeTypeOK, NEW b, Endpoint(b)
  PROVE  IF b = "send" THEN Cardinality(Packets') = Cardinality(Packets) + 1 ELSE key' = key
  <1>1. CASE b = "send"
    <2>1. PICK p \in Payments, ttl \in InitialTtls : demoSend(p, StartDevice, ttl)
      BY <1>1 DEF Endpoint
    <2>2. key[p] = 0 /\ key' = [key EXCEPT ![p] = keyEpoch]
      BY <2>1 DEF demoSend, CreatePacket
    <2>3. Packets' = Packets \cup {p} /\ p \notin Packets
      BY <2>2 DEF Packets, BridgeTypeOK
    <2> QED
      BY <1>1, <2>3, PacketsAreFinite, FS_AddElement
  <1>2. CASE b # "send"
    BY <1>2 DEF Endpoint, meshGossip, meshFlush, meshReset, simVars, bridgeVars, gateVars
  <1> QED
    BY <1>1, <1>2

AwaitedSends == IF request["send"] = "sent" THEN 1 ELSE 0
LateSends == IF "send" \in late THEN 1 ELSE 0

LEMMA SendsAddUp ==
  /\ OnePacketPerClick <=> Cardinality(Packets) + (AwaitedSends + LateSends) <= sends
  /\ AwaitedSends \in {0, 1} /\ LateSends \in {0, 1}
  /\ AwaitedSends' \in {0, 1} /\ LateSends' \in {0, 1}
  /\ OnePacketPerClick' <=> Cardinality(Packets') + (AwaitedSends' + LateSends') <= sends'
  BY DEF OnePacketPerClick, UnhandledSends, AwaitedSends, LateSends

LEMMA StepOnePacket ==
  ASSUME BridgeTypeOK, FormTypeOK, OnePacketPerClick, [FormNext]_uiVars
  PROVE  OnePacketPerClick'
  <1>c. sends \in Nat /\ Cardinality(Packets) \in Nat /\ Cardinality(Packets') \in Nat
    BY PacketsAreFinite, FormAssumption DEF FormTypeOK
  <1>t. /\ \A b \in Buttons : loading[b] <=> request[b] # "none"
        /\ DOMAIN request = Buttons /\ "send" \in Buttons
    BY DEF FormTypeOK, Buttons
  <1>h. Cardinality(Packets) + (AwaitedSends + LateSends) <= sends
    BY SendsAddUp
  <1>n. /\ AwaitedSends \in Nat /\ AwaitedSends <= 1 /\ LateSends \in Nat /\ LateSends <= 1
        /\ AwaitedSends' \in Nat /\ AwaitedSends' <= 1
        /\ LateSends' \in Nat /\ LateSends' <= 1
    BY DEF AwaitedSends, LateSends
  <1>k. key' = key => Packets' = Packets
    BY DEF Packets
  <1>l. UNCHANGED request => AwaitedSends' = AwaitedSends
    BY DEF AwaitedSends
  <1>m. UNCHANGED late => LateSends' = LateSends
    BY DEF LateSends
  \* Steps that make no packet, and leave no more sends to be handled.
  <1>q. ASSUME key' = key, sends' = sends,
               AwaitedSends' + LateSends' <= AwaitedSends + LateSends
        PROVE  OnePacketPerClick'
    <2>1. Cardinality(Packets') = Cardinality(Packets)
      BY <1>q, <1>k
    <2>2. Cardinality(Packets') + (AwaitedSends' + LateSends') <= sends'
      BY <1>q, <1>c, <1>h, <2>1, <1>n DEF AwaitedSends, LateSends
    <2> QED
      BY <2>2, SendsAddUp
  <1>1. ASSUME NEW b \in Buttons, Click(b)
        PROVE  OnePacketPerClick'
    <2>1. key' = key /\ UNCHANGED late /\ request' = [request EXCEPT ![b] = "sent"]
          /\ sends' = (IF b = "send" THEN sends + 1 ELSE sends) /\ ~loading[b]
      BY <1>1 DEF Click, simVars, bridgeVars, gateVars
    <2>2. CASE b = "send"
      <3>1. AwaitedSends = 0 /\ AwaitedSends' = 1
        BY <1>t, <2>1, <2>2 DEF AwaitedSends
      <3>2. Cardinality(Packets') = Cardinality(Packets) /\ LateSends' = LateSends
        BY <1>k, <1>m, <2>1
      <3>3. Cardinality(Packets') + (AwaitedSends' + LateSends') <= sends'
        BY <1>c, <1>h, <2>1, <2>2, <3>1, <3>2, <1>n
      <3> QED
        BY <3>3, SendsAddUp
    <2>3. CASE b # "send"
      <3>1. AwaitedSends' = AwaitedSends
        BY <1>t, <2>1, <2>3 DEF AwaitedSends
      <3>2. AwaitedSends' + LateSends' <= AwaitedSends + LateSends
        BY <1>m, <2>1, <3>1, <1>n
      <3> QED
        BY <1>q, <2>1, <2>3, <3>2
    <2> QED
      BY <2>2, <2>3
  <1>2. ASSUME NEW b \in Buttons, Handle(b)
        PROVE  OnePacketPerClick'
    <2>1. /\ Endpoint(b) /\ request[b] = "sent" /\ request' = [request EXCEPT ![b] = "served"]
          /\ UNCHANGED <<late, sends>>
      BY <1>2 DEF Handle
    <2>2. CASE b = "send"
      <3>1. AwaitedSends = 1 /\ AwaitedSends' = 0
        BY <1>t, <2>1, <2>2 DEF AwaitedSends
      <3>2. Cardinality(Packets') = Cardinality(Packets) + 1
        BY <2>1, <2>2, EndpointMakes
      <3>3. Cardinality(Packets') + (AwaitedSends' + LateSends') <= sends'
        BY <1>c, <1>h, <1>m, <2>1, <3>1, <3>2, <1>n
      <3> QED
        BY <3>3, SendsAddUp
    <2>3. CASE b # "send"
      <3>1. AwaitedSends' = AwaitedSends
        BY <1>t, <2>1, <2>3 DEF AwaitedSends
      <3>2. AwaitedSends' + LateSends' <= AwaitedSends + LateSends
        BY <1>m, <2>1, <3>1, <1>n
      <3>3. key' = key
        BY <2>1, <2>3, EndpointMakes
      <3> QED
        BY <1>q, <2>1, <3>2, <3>3
    <2> QED
      BY <2>2, <2>3
  <1>3. ASSUME NEW b \in Buttons, HandleLate(b)
        PROVE  OnePacketPerClick'
    <2>1. /\ Endpoint(b) \/ UNCHANGED simVars
          /\ b \in late /\ late' = late \ {b} /\ UNCHANGED <<request, sends>>
      BY <1>3 DEF HandleLate
    <2>2. LateSends' <= LateSends
      BY <2>1 DEF LateSends
    <2>2a. AwaitedSends' = AwaitedSends
      BY <1>l, <2>1
    <2>3. AwaitedSends' + LateSends' <= AwaitedSends + LateSends
      BY <2>2, <2>2a DEF AwaitedSends, LateSends
    <2>4. CASE b = "send" /\ Endpoint(b)
      <3>1. LateSends = 1 /\ LateSends' = 0
        BY <2>1, <2>4 DEF LateSends
      <3>2. Cardinality(Packets') = Cardinality(Packets) + 1
        BY <2>4, EndpointMakes
      <3>3. Cardinality(Packets') + (AwaitedSends' + LateSends') <= sends'
        BY <1>c, <1>h, <1>l, <2>1, <3>1, <3>2, <1>n
      <3> QED
        BY <3>3, SendsAddUp
    <2>5. CASE b # "send" \/ UNCHANGED simVars
      <3>1. key' = key
        BY <2>1, <2>5, EndpointMakes DEF simVars, bridgeVars, gateVars
      <3> QED
        BY <1>q, <2>1, <2>3, <3>1
    <2> QED
      BY <2>1, <2>4, <2>5
  <1>4. ASSUME NEW b \in Buttons, Resume(b) \/ GiveUp(b)
        PROVE  OnePacketPerClick'
    <2>1. /\ key' = key /\ sends' = sends /\ request' = [request EXCEPT ![b] = "none"]
          /\ UNCHANGED late \/ (request[b] = "sent" /\ late' = late \cup {b})
      BY <1>4 DEF Resume, GiveUp, Return, simVars, bridgeVars, gateVars
    <2>2. CASE b = "send"
      <3>1. AwaitedSends' = 0
        BY <1>t, <2>1, <2>2 DEF AwaitedSends
      <3>2. LateSends' = LateSends \/ AwaitedSends = 1
        BY <1>m, <2>1, <2>2 DEF AwaitedSends
      <3>3. AwaitedSends' + LateSends' <= AwaitedSends + LateSends
        <4>1. CASE LateSends' = LateSends
          BY <3>1, <4>1 DEF AwaitedSends, LateSends
        <4>2. CASE AwaitedSends = 1
          BY <3>1, <4>2 DEF AwaitedSends, LateSends
        <4> QED
          BY <3>2, <4>1, <4>2
      <3> QED
        BY <1>q, <2>1, <3>3
    <2>3. CASE b # "send"
      <3>1. AwaitedSends' = AwaitedSends /\ LateSends' = LateSends
        BY <1>t, <2>1, <2>3 DEF AwaitedSends, LateSends
      <3>2. AwaitedSends' + LateSends' <= AwaitedSends + LateSends
        BY <3>1, <1>n
      <3> QED
        BY <1>q, <2>1, <3>2
    <2> QED
      BY <2>2, <2>3
  <1>5. ASSUME Refuse \/ ResumeRefused
        PROVE  OnePacketPerClick'
    <2>1. /\ key' = key /\ UNCHANGED <<late, sends>>
          /\ request' = [request EXCEPT !["send"] = "refused"]
                \/ request' = [request EXCEPT !["send"] = "none"]
      BY <1>5 DEF Refuse, ResumeRefused, Return, simVars, bridgeVars, gateVars
    <2>2. AwaitedSends' = 0
      BY <1>t, <2>1 DEF AwaitedSends
    <2>3. AwaitedSends' + LateSends' <= AwaitedSends + LateSends
      BY <1>m, <2>1, <2>2, <1>n
    <2> QED
      BY <1>q, <2>1, <2>3
  <1>6. ASSUME key' = key, UNCHANGED formVars
        PROVE  OnePacketPerClick'
    <2>1. UNCHANGED <<request, late, sends>>
      BY <1>6 DEF formVars
    <2>2. AwaitedSends' + LateSends' <= AwaitedSends + LateSends
      BY <1>l, <1>m, <2>1, <1>n
    <2> QED
      BY <1>6, <1>q, <2>1, <2>2
  <1>7. Server => key' = key
    BY DEF Server, Settling, gateVars, evictExpired, Tick, RestartSimulator, RestartServer
  <1>8. UNCHANGED uiVars => key' = key /\ UNCHANGED formVars
    BY DEF uiVars, simVars, bridgeVars, gateVars
  <1> QED
    BY <1>1, <1>2, <1>3, <1>4, <1>5, <1>6, <1>7, <1>8 DEF FormNext

(* The invariants of the demo hold behind the page.                        *)
LEMMA FormSimInvariant == FormSpec => []SimInv
  BY SimInvariant, PageDrivesDemo, PTL

(* A click makes one packet at most, however its request ends, is given up *)
(* or arrives late: only a second click pays twice (PaymentForm.jsx,       *)
(* handleSend).                                                            *)
THEOREM ClicksPayOnce == FormSpec => []OnePacketPerClick
  <1>1. ASSUME FormInit
        PROVE  OnePacketPerClick
    <2>1. Packets = {} /\ AwaitedSends = 0 /\ LateSends = 0 /\ sends = 0
      BY <1>1 DEF FormInit, SimInit, BridgeInit, Packets, AwaitedSends, LateSends, Buttons
    <2>2. Cardinality(Packets) = 0
      BY <2>1, FS_EmptySet
    <2> QED
      BY <2>1, <2>2, SendsAddUp
  <1>2. SimInv => BridgeTypeOK
    BY DEF SimInv, SimSettlementInv
  <1>3. BridgeTypeOK /\ FormTypeOK /\ OnePacketPerClick /\ [FormNext]_uiVars
          => OnePacketPerClick'
    BY StepOnePacket
  <1> QED
    BY <1>1, <1>2, <1>3, FormSimInvariant, FormTypeCorrect, PTL DEF FormSpec

-----------------------------------------------------------------------------
\* While a reset is the only request since its click: it has yet to be
\* handled, or there is nothing left, on the page or behind it.
ResetInv ==
    /\ shown["reset"] = "nothing"
    /\ alone =>
          /\ \A b \in Buttons \ {"reset"} : ~loading[b] /\ shown[b] = "nothing"
          /\ loading["reset"] => late = {}
          /\ late \subseteq {"reset"}
          /\ request["reset"] = "served" =>
                /\ \A d \in Mesh!Devices, p \in Payments : ~Holds(d, p)
                /\ \A p \in Payments : ~IsClaimed(p)

\* The reset itself leaves no copy and no claim.
LEMMA ResetLeavesNothing ==
  ASSUME Endpoint("reset")
  PROVE  /\ \A d \in Mesh!Devices, p \in Payments : ~Holds(d, p)'
         /\ \A p \in Payments : ~IsClaimed(p)'
  <1>1. meshReset
    BY DEF Endpoint
  <1>2. held' = Mesh!NoCopies /\ seen' = [p \in Payments |-> 0]
    BY <1>1 DEF meshReset, Mesh!resetMesh
  <1> QED
    BY <1>2 DEF Holds, Mesh!holds, Mesh!NoCopies, IsClaimed

\* Behind the page copies and claims only vanish.
LEMMA ServerForgets ==
  ASSUME Server \/ UNCHANGED simVars
  PROVE  /\ \A d \in Mesh!Devices, p \in Payments : Holds(d, p)' => Holds(d, p)
         /\ \A p \in Payments : IsClaimed(p)' => IsClaimed(p)
  <1>1. ASSUME RestartSimulator
        PROVE  held' = Mesh!NoCopies /\ seen' = [p \in Payments |-> 0]
    BY <1>1 DEF RestartSimulator, RestartServer, Mesh!resetMesh
  <1>2. RestartSimulator => /\ \A d \in Mesh!Devices, p \in Payments : ~Holds(d, p)'
                            /\ \A p \in Payments : ~IsClaimed(p)'
    BY <1>1 DEF Holds, Mesh!holds, Mesh!NoCopies, IsClaimed
  <1>3. ~RestartSimulator => held' = held
    BY DEF Server, phoneVars, simVars
  <1>4. evictExpired => \A p \in Payments : IsClaimed(p)' => IsClaimed(p)
    BY DEF evictExpired, IsClaimed
  <1>5. ~RestartSimulator /\ ~evictExpired => seen' = seen
    BY DEF Server, Settling, Tick, simVars, bridgeVars, gateVars
  <1> QED
    BY <1>2, <1>3, <1>4, <1>5 DEF Holds, Mesh!holds, IsClaimed

LEMMA StepResetInv ==
  ASSUME FormTypeOK, ResetInv, [FormNext]_uiVars
  PROVE  ResetInv'
  <1>t. /\ \A b \in Buttons : loading[b] <=> request[b] # "none"
        /\ loading \in [Buttons -> BOOLEAN] /\ DOMAIN request = Buttons
        /\ DOMAIN shown = Buttons /\ {"send", "gossip", "flush", "reset"} = Buttons
    BY DEF FormTypeOK, Buttons
  \* Only the reset itself may be awaited.
  <1>a. ASSUME alone, NEW b \in Buttons, loading[b] \/ request[b] # "none"
        PROVE  b = "reset" /\ late = {}
    BY <1>a, <1>t DEF ResetInv
  <1>1. ASSUME NEW b \in Buttons, Click(b)
        PROVE  ResetInv'
    <2>1. shown'["reset"] = "nothing"
      BY <1>1, <1>t DEF Click, Clears, ResetInv
    <2>2. ASSUME alone'
          PROVE  /\ b = "reset" /\ late' = {} /\ request'["reset"] = "sent"
                 /\ \A x \in Buttons \ {"reset"} : ~loading'[x] /\ shown'[x] = "nothing"
      <3>1. /\ b = "reset" /\ late' = late /\ late = {} /\ \A x \in Buttons : ~loading[x]
            /\ loading' = [loading EXCEPT ![b] = TRUE] /\ request' = [request EXCEPT ![b] = "sent"]
            /\ shown' = [x \in Buttons |-> IF x \in Clears(b) THEN "nothing" ELSE shown[x]]
        BY <1>1, <2>2 DEF Click
      <3>2. \A x \in Buttons \ {"reset"} : ~loading'[x]
        BY <1>t, <3>1
      <3>3. \A x \in Buttons \ {"reset"} : shown'[x] = "nothing"
        BY <1>t, <3>1 DEF Clears
      <3> QED
        BY <1>t, <3>1, <3>2, <3>3
    <2> QED
      BY <2>1, <2>2 DEF ResetInv
  <1>2. ASSUME NEW b \in Buttons, Handle(b)
        PROVE  ResetInv'
    <2>1. /\ Endpoint(b) /\ request[b] = "sent" /\ request' = [request EXCEPT ![b] = "served"]
          /\ UNCHANGED <<loading, late, shown, alone>>
      BY <1>2 DEF Handle
    <2>2. ASSUME alone
          PROVE  /\ \A d \in Mesh!Devices, p \in Payments : ~Holds(d, p)'
                 /\ \A p \in Payments : ~IsClaimed(p)'
      BY <1>a, <2>1, <2>2, ResetLeavesNothing
    <2> QED
      BY <2>1, <2>2 DEF ResetInv
  <1>3. ASSUME NEW b \in Buttons, HandleLate(b)
        PROVE  ResetInv'
    <2>1. b \in late /\ late' = late \ {b} /\ UNCHANGED <<loading, request, shown, alone>>
      BY <1>3 DEF HandleLate
    <2>2. ASSUME alone
          PROVE  request["reset"] # "served"
      BY <1>a, <1>t, <2>1, <2>2
    <2>3. alone => late' \subseteq {"reset"} /\ (loading["reset"] => late' = {})
      BY <2>1 DEF ResetInv
    <2> QED
      BY <2>1, <2>2, <2>3 DEF ResetInv
  <1>4. ASSUME NEW b \in Buttons, Resume(b) \/ GiveUp(b)
        PROVE  ResetInv'
    <2>1. /\ loading' = [loading EXCEPT ![b] = FALSE] /\ request' = [request EXCEPT ![b] = "none"]
          /\ UNCHANGED alone /\ late' \subseteq late \cup {b}
          /\ loading[b] \/ request[b] # "none"
      BY <1>4 DEF Resume, GiveUp, Return, Ready
    <2>2. shown'["reset"] = "nothing"
      BY <1>4, <1>t DEF Resume, GiveUp, ShowError, ResetInv
    <2>3. ASSUME alone
          PROVE  /\ b = "reset" /\ late' \subseteq {"reset"} /\ ~loading'["reset"]
                 /\ request'["reset"] = "none"
                 /\ \A x \in Buttons \ {"reset"} : ~loading'[x] /\ shown'[x] = "nothing"
      <3>1. b = "reset" /\ late = {}
        BY <1>a, <2>1, <2>3
      <3>2. \A x \in Buttons \ {"reset"} : shown'[x] = shown[x] /\ loading'[x] = loading[x]
        BY <1>4, <1>t, <2>1, <3>1 DEF Resume, GiveUp, ShowError
      <3> QED
        BY <1>t, <2>1, <2>3, <3>1, <3>2 DEF ResetInv
    <2> QED
      BY <2>1, <2>2, <2>3 DEF ResetInv
  <1>5. ASSUME Refuse \/ ResumeRefused
        PROVE  ResetInv'
    <2>1. UNCHANGED alone /\ request["send"] # "none"
      BY <1>5 DEF Refuse, ResumeRefused
    <2>2. ~alone
      BY <1>a, <1>t, <2>1
    <2>3. shown'["reset"] = "nothing"
      BY <1>5, <1>t DEF Refuse, ResumeRefused, ShowError, ResetInv
    <2> QED
      BY <2>1, <2>2, <2>3 DEF ResetInv
  <1>6. ASSUME UNCHANGED formVars, Server \/ UNCHANGED simVars
        PROVE  ResetInv'
    BY <1>6, ServerForgets DEF formVars, ResetInv
  <1> QED
    BY <1>1, <1>2, <1>3, <1>4, <1>5, <1>6 DEF FormNext, uiVars

(* A reset that no other request overlaps leaves nothing: no packet on a   *)
(* phone, no claim in the cache, no result on the page (PaymentForm.jsx,   *)
(* handleReset), even where its answer never arrives.                      *)
THEOREM ResetsClearThePage == FormSpec => UndisturbedResetClears
  <1> DEFINE Cleared ==
        alone /\ request["reset"] = "served" /\ ~loading'["reset"] =>
          /\ Mesh!collectBridgeUploads = {}
          /\ \A d \in Mesh!Devices, p \in Payments : ~Mesh!holds(d, p)
          /\ \A p \in Payments : ~IsClaimed(p)
          /\ \A b \in Buttons : shown'[b] = "nothing"
  <1>1. FormInit => ResetInv
    BY DEF FormInit, ResetInv, Buttons
  <1>2. ASSUME FormTypeOK, ResetInv, [FormNext]_uiVars,
               alone, request["reset"] = "served", ~loading'["reset"]
        PROVE  /\ Mesh!collectBridgeUploads = {}
               /\ \A d \in Mesh!Devices, p \in Payments : ~Mesh!holds(d, p)
               /\ \A p \in Payments : ~IsClaimed(p)
               /\ \A b \in Buttons : shown'[b] = "nothing"
    <2>1. \A d \in Mesh!Devices, p \in Payments : ~Mesh!holds(d, p)
      BY <1>2 DEF ResetInv, Holds
    <2>2. Mesh!collectBridgeUploads = {}
      BY <2>1, UploadsAreFinite DEF Holds
    <2>3. \A b \in Buttons : shown[b] = "nothing"
      BY <1>2 DEF ResetInv
    <2>4. loading["reset"] /\ loading \in [Buttons -> BOOLEAN] /\ "reset" \in Buttons
      BY <1>2 DEF FormTypeOK, Buttons
    <2>5. Resume("reset") \/ GiveUp("reset")
      <3>1. ASSUME NEW b \in Buttons \ {"reset"}, Click(b) \/ Resume(b) \/ GiveUp(b)
            PROVE  FALSE
        BY <1>2, <2>4, <3>1 DEF Click, Resume, GiveUp, Return
      <3>2. ASSUME NEW b \in Buttons, Handle(b) \/ HandleLate(b)
            PROVE  FALSE
        BY <1>2, <2>4, <3>2 DEF Handle, HandleLate
      <3>3. ASSUME Click("reset")
            PROVE  FALSE
        BY <2>4, <3>3 DEF Click
      <3>4. ASSUME Refuse \/ UNCHANGED formVars
            PROVE  FALSE
        BY <1>2, <2>4, <3>4 DEF Refuse, formVars
      <3>5. ASSUME ResumeRefused
            PROVE  FALSE
        BY <1>2, <2>4, <3>5 DEF ResumeRefused, Return
      <3> QED
        BY <1>2, <3>1, <3>2, <3>3, <3>4, <3>5 DEF FormNext, uiVars
    <2>6. \A b \in Buttons : shown'[b] = "nothing"
      BY <1>2, <2>3, <2>5 DEF Resume, GiveUp, ShowError, FormTypeOK
    <2> QED
      BY <1>2, <2>1, <2>2, <2>6 DEF ResetInv
  <1>3. FormTypeOK /\ ResetInv /\ [FormNext]_uiVars => [Cleared]_uiVars
    BY <1>2
  <1>4. FormTypeOK /\ ResetInv /\ [FormNext]_uiVars => ResetInv'
    BY StepResetInv
  <1> QED
    BY <1>1, <1>3, <1>4, FormTypeCorrect, PTL DEF FormSpec, UndisturbedResetClears

-----------------------------------------------------------------------------
\* Of the server's own packets, a claim that stands and a copy that is dropped
\* go back to a call that passed, or came too late.
HasVerdict(p) ==
    \E d \in Calls : upload[d] = p /\ gate[d] \in {"passed", "stale"}

ClaimsAnswered ==
    /\ \A p \in Payments : IsClaimed(p) => HasVerdict(p)
    /\ \A c \in Calls : /\ gate[c] \in {"none", "passed", "stale", "duplicate"}
                        /\ gate[c] = "duplicate" => HasVerdict(upload[c])

StaleStays == \A c \in Calls : gate[c] = "stale" => IsStale(upload[c])

CallsTold ==
    \A c \in Calls :
        pc[c] \in {"settled", "rejected", "duplicateKey"} => transactions[pay[c]] # "none"

AnswersInv == ClaimsAnswered /\ StaleStays /\ CallsTold

\* A flush is awaited until its calls have ended, and shown after that.
Unanswered == Active \cup {"lost"}

FlushInv ==
    /\ \A c \in flushCalls : c \in Calls /\ gate[c] # "none"
    /\ \A c \in shownFlush : c \in Calls /\ gate[c] # "none" /\ pc[c] \notin Unanswered

LEMMA ServerSteps ==
  ASSUME [FormNext]_uiVars
  PROVE  \/ \E p \in Payments, ttl \in InitialTtls : demoSend(p, StartDevice, ttl)
         \/ meshGossip \/ meshReset
         \/ \E C, for : Flushed(C, for)
         \/ \E c \in Calls : Settling(c)
         \/ evictExpired \/ Tick \/ RestartSimulator
         \/ UNCHANGED simVars
  <1>1. \A b \in Buttons : Click(b) \/ Resume(b) \/ GiveUp(b) => UNCHANGED simVars
    BY DEF Click, Resume, GiveUp
  <1>2. \A b \in Buttons : Handle(b) \/ HandleLate(b) => Endpoint(b) \/ UNCHANGED simVars
    BY DEF Handle, HandleLate
  <1> QED
    BY <1>1, <1>2, FlushHasCalls DEF FormNext, Server, Refuse, ResumeRefused, Endpoint, uiVars

\* A flush takes calls that ask nothing yet: what was answered stays so.
LEMMA FlushKeepsAnswers ==
  ASSUME NEW C, NEW for, Flushed(C, for), NEW p, HasVerdict(p)
  PROVE  HasVerdict(p)'
  <1>1. PICK d \in Calls : upload[d] = p /\ gate[d] \in {"passed", "stale"}
    BY DEF HasVerdict
  <1>2. d \notin C
    BY <1>1 DEF Flushed
  <1>3. gate'[d] = gate[d] /\ upload'[d] = upload[d]
    BY <1>2 DEF Flushed
  <1> QED
    BY <1>1, <1>3 DEF HasVerdict

\* What a flush drops, it drops for a copy that was answered, by then.
LEMMA FlushAnswers ==
  ASSUME Tampered = {}, SimInv, ClaimsAnswered, NEW C, NEW for, Flushed(C, for)
  PROVE  ClaimsAnswered'
  <1>f. /\ C \subseteq Calls /\ \A c \in C : gate[c] = "none"
        /\ \A c \in Calls \ C : gate'[c] = gate[c] /\ upload'[c] = upload[c]
        /\ \A c \in C : /\ for[c] \in Mesh!collectBridgeUploads
                        /\ gate'[c] = UploadVerdict(for[c]) /\ upload'[c] = for[c][2]
        /\ \A u \in Mesh!collectBridgeUploads : \E c \in C : for[c] = u
    BY DEF Flushed
  <1>1. ASSUME NEW p \in Payments, IsClaimed(p)
        PROVE  HasVerdict(p)'
    BY <1>1, FlushKeepsAnswers DEF ClaimsAnswered
  <1>2. ASSUME NEW u \in Mesh!collectBridgeUploads
        PROVE  Verdict(u[2]) \in {"passed", "stale", "duplicate"}
    <2> DEFINE p == u[2]
    <2>1. /\ p \in Payments /\ key[p] = keyEpoch /\ signedAt[p] <= now
          /\ now \in Int /\ signedAt[p] \in Int /\ Skew \in Nat
          /\ keyEpoch # 0
      BY UploadsAreFinite, BridgeAssumption
      DEF SimInv, PhonesOK, SimSettlementInv, BridgeTypeOK
    <2>2. Decrypts(p)
      BY <2>1 DEF Decrypts
    <2> HIDE DEF p
    <2>3. ~IsFutureDated(p)
      BY <2>1 DEF IsFutureDated
    <2>4. Verdict(p) \in Verdicts \ {"none", "undecryptable", "future"}
      BY <2>2, <2>3, VerdictIs
    <2> QED
      BY <2>4 DEF Verdicts, p
  <1>3. ASSUME NEW u \in Mesh!collectBridgeUploads
        PROVE  HasVerdict(u[2])'
    <2>1. PICK v \in Mesh!collectBridgeUploads : v[2] = u[2] /\ IsFirst(v)
      BY SomeIsFirst
    <2>2. UploadVerdict(v) = Verdict(u[2]) /\ u[2] \in Payments
      BY <2>1, UploadsAreFinite DEF UploadVerdict
    <2>3. PICK c \in C : for[c] = v
      BY <1>f
    <2>4. CASE Verdict(u[2]) \in {"passed", "stale"}
      <3>1. c \in Calls /\ upload'[c] = u[2] /\ gate'[c] \in {"passed", "stale"}
        BY <1>f, <2>1, <2>2, <2>3, <2>4
      <3> QED
        BY <3>1 DEF HasVerdict
    <2>5. CASE Verdict(u[2]) = "duplicate"
      BY <1>1, <2>2, <2>5, VerdictIs
    <2> QED
      BY <1>2, <2>4, <2>5
  <1>4. ASSUME NEW p \in Payments, IsClaimed(p)'
        PROVE  HasVerdict(p)'
    <2>1. IsClaimed(p) \/ \E c \in C : for[c][2] = p
      BY <1>4 DEF Flushed, IsClaimed
    <2> QED
      BY <1>1, <1>3, <1>f, <2>1
  <1>5. ASSUME NEW c \in Calls
        PROVE  /\ gate'[c] \in {"none", "passed", "stale", "duplicate"}
               /\ gate'[c] = "duplicate" => HasVerdict(upload[c])'
    <2>1. CASE c \in C
      <3>1. gate'[c] \in {"passed", "stale", "duplicate"}
        BY <1>2, <1>f, <2>1 DEF UploadVerdict
      <3>2. HasVerdict(for[c][2])' /\ upload'[c] = for[c][2]
        BY <1>3, <1>f, <2>1
      <3> QED
        BY <3>1, <3>2
    <2>2. CASE c \notin C
      <3>1. /\ gate'[c] = gate[c] /\ upload'[c] = upload[c]
            /\ gate[c] \in {"none", "passed", "stale", "duplicate"}
        BY <1>f, <2>2 DEF ClaimsAnswered
      <3>2. gate[c] = "duplicate" => HasVerdict(upload[c])'
        BY <3>1, FlushKeepsAnswers DEF ClaimsAnswered
      <3> QED
        BY <3>1, <3>2
    <2> QED
      BY <2>1, <2>2
  <1> QED
    BY <1>4, <1>5 DEF ClaimsAnswered

\* A packet is signed once and time does not go back: too old stays too old.
LEMMA StaleForGood ==
  ASSUME SimInv, NEW p \in Payments, key[p] # 0, IsStale(p), [FormNext]_uiVars
  PROVE  IsStale(p)'
  <1>t. now \in Int /\ signedAt \in [Payments -> Int] /\ MaxAge \in Nat /\ key \in [Payments -> Nat]
    BY BridgeAssumption DEF SimInv, SimSettlementInv, BridgeTypeOK
  <1>1. ASSUME NEW q \in Payments, NEW ttl \in InitialTtls, demoSend(q, StartDevice, ttl)
        PROVE  now' = now /\ signedAt'[p] = signedAt[p]
    <2>1. key[q] = 0 /\ signedAt' = [signedAt EXCEPT ![q] = now + 0] /\ now' = now
      BY <1>1 DEF demoSend, CreatePacket
    <2> QED
      BY <1>t, <2>1
  <1>2. Tick => now' = now + 1 /\ signedAt' = signedAt
    BY DEF Tick
  <1>3. ASSUME NEW C, NEW for, Flushed(C, for)
        PROVE  now' = now /\ signedAt' = signedAt
    BY <1>3 DEF Flushed
  <1>4. \/ meshGossip \/ meshReset \/ evictExpired \/ RestartSimulator \/ UNCHANGED simVars
        \/ \E c \in Calls : Settling(c)
        => now' = now /\ signedAt' = signedAt
    BY DEF meshGossip, meshReset, evictExpired, RestartSimulator, RestartServer, Settling, simVars,
           bridgeVars, gateVars
  <1>5. now' \in {now, now + 1} /\ signedAt'[p] = signedAt[p]
    BY <1>1, <1>2, <1>3, <1>4, ServerSteps
  <1> QED
    BY <1>t, <1>5 DEF IsStale

\* A call that passed alone finds its hash taken only if it is on record.
LEMMA SettlingTells ==
  ASSUME SimInv, SimGateInv, CallsTold, NEW c \in Calls, Settling(c)
  PROVE  CallsTold'
  <1>t. /\ SettlementTypeOK
        /\ \A d \in Calls : pc[d] # "idle" =>
              gate[d] = "passed" /\ pay[d] = upload[d] /\ pay[d] \in Payments
    BY DEF SimInv, SimSettlementInv, BridgeTypeOK, SettlementTypeOK
  <1>1. pay' = pay /\ pc[c] # "idle" /\ \A d \in Calls \ {c} : pc'[d] = pc[d]
    BY <1>t, SettlingKeepsCalls
  <1>2. \A d \in Calls \ {c} : pc[d] # "idle" => pay[d] # pay[c]
    BY <1>1, <1>t DEF SimGateInv, PassedOnce
  <1>3. DuplicateKey(c) => transactions[pay[c]] # "none"
    BY <1>2 DEF DuplicateKey
  <1>4. \A p \in Payments : transactions[p] # "none" => transactions'[p] # "none"
    <2>1. RecordSettled(c) \/ RecordRejected(c) =>
             \A p \in Payments : transactions[p] # "none" => transactions'[p] # "none"
      BY <1>t DEF RecordSettled, RecordRejected, Insert, SettlementTypeOK
    <2>2. CommitSettled(c) \/ CommitRejected(c) =>
             \A p \in Payments : transactions[p] # "none" => transactions'[p] # "none"
      BY <1>t DEF CommitSettled, CommitRejected, SettlementTypeOK
    <2> QED
      BY <2>1, <2>2 DEF Settling, SettlementStep, ReadSender, ReadReceiver, DebitSender,
                        CreditReceiver, DatabaseError
  <1>5. pc'[c] \in {"settled", "rejected", "duplicateKey"} => transactions'[pay[c]] # "none"
    <2> DEFINE Told == pc'[c] \in {"settled", "rejected", "duplicateKey"} =>
                          transactions'[pay[c]] # "none"
    <2>1. RecordSettled(c) \/ RecordRejected(c) => Told
      BY <1>t, <1>1, <1>3 DEF RecordSettled, RecordRejected, Insert, Answer, Goto, SettlementTypeOK
    <2>2. CommitSettled(c) \/ CommitRejected(c) => Told
      BY <1>t, <1>1 DEF CommitSettled, CommitRejected, Answer, Goto, SettlementTypeOK
    <2>3. ReadSender(c) \/ ReadReceiver(c) \/ DebitSender(c) \/ CreditReceiver(c) => Told
      BY <1>t, <1>1 DEF ReadSender, ReadReceiver, DebitSender, CreditReceiver, Answer, Goto,
                        SettlementTypeOK
    <2>4. DatabaseError(c) => Told
      BY <1>t DEF DatabaseError, Goto, SettlementTypeOK
    <2> QED
      BY <2>1, <2>2, <2>3, <2>4 DEF Settling, SettlementStep
  <1>6. ASSUME NEW d \in Calls \ {c}
        PROVE  pc'[d] \in {"settled", "rejected", "duplicateKey"} =>
                  transactions'[pay'[d]] # "none"
    <2>1. pc'[d] = pc[d] /\ pay'[d] = pay[d]
      BY <1>1
    <2>2. pc[d] \in {"settled", "rejected", "duplicateKey"} => transactions'[pay[d]] # "none"
      BY <1>t, <1>4 DEF CallsTold
    <2> QED
      BY <2>1, <2>2 DEF CallsTold
  <1> QED
    BY <1>1, <1>5, <1>6 DEF CallsTold

LEMMA StepAnswers ==
  ASSUME Tampered = {}, SimInv, SimGateInv, AnswersInv, [FormNext]_uiVars
  PROVE  AnswersInv'
  \* Steps that ask the gate nothing and leave the verdicts alone.
  <1>q. ASSUME UNCHANGED <<gate, upload>>,
               \A p \in Payments : IsClaimed(p)' => IsClaimed(p)
        PROVE  ClaimsAnswered'
    BY <1>q DEF AnswersInv, ClaimsAnswered, HasVerdict
  <1>s. ASSUME NEW c \in Calls, gate[c] = "stale", UNCHANGED <<gate, upload>>
        PROVE  IsStale(upload[c])'
    <2>1. upload[c] \in Payments /\ key[upload[c]] # 0 /\ IsStale(upload[c])
      BY <1>s DEF AnswersInv, StaleStays, SimInv, PhonesOK, SimSettlementInv, BridgeTypeOK
    <2>2. \A p \in Payments : key[p] # 0 /\ IsStale(p) => IsStale(p)'
      BY StaleForGood
    <2>3. PICK p \in Payments : p = upload[c]
      BY <2>1
    <2>4. IsStale(p)' /\ upload'[c] = p
      BY <1>s, <2>1, <2>2, <2>3
    <2> QED
      BY <2>4 DEF IsStale
  <1>u. UNCHANGED <<gate, upload>> => StaleStays'
    BY <1>s DEF StaleStays
  <1>1. ASSUME \E p \in Payments, ttl \in InitialTtls : demoSend(p, StartDevice, ttl)
        PROVE  AnswersInv'
    <2>1. UNCHANGED <<seen, gate, upload, pc, pay, transactions>>
      BY <1>1 DEF demoSend, CreatePacket, settlementVars
    <2> QED
      BY <1>q, <1>u, <2>1 DEF IsClaimed, AnswersInv, CallsTold
  <1>2. ASSUME meshGossip \/ Tick \/ UNCHANGED simVars
        PROVE  AnswersInv'
    <2>1. UNCHANGED <<seen, gate, upload, pc, pay, transactions>>
      BY <1>2 DEF meshGossip, Tick, simVars, bridgeVars, gateVars, settlementVars
    <2> QED
      BY <1>q, <1>u, <2>1 DEF IsClaimed, AnswersInv, CallsTold
  <1>3. ASSUME meshReset \/ evictExpired
        PROVE  AnswersInv'
    <2>1. UNCHANGED <<gate, upload, pc, pay, transactions>>
      BY <1>3 DEF meshReset, evictExpired, settlementVars
    <2>2. \A p \in Payments : IsClaimed(p)' => IsClaimed(p)
      BY <1>3 DEF meshReset, evictExpired, IsClaimed
    <2> QED
      BY <1>q, <1>u, <2>1, <2>2 DEF AnswersInv, CallsTold
  <1>4. ASSUME RestartSimulator
        PROVE  AnswersInv'
    <2>1. /\ UNCHANGED <<gate, upload, pay, transactions>>
          /\ seen' = [p \in Payments |-> 0]
          /\ pc' = [c \in Calls |-> IF pc[c] \in Active THEN "lost" ELSE pc[c]]
      BY <1>4 DEF RestartSimulator, RestartServer
    <2>2. CallsTold'
      BY <2>1 DEF AnswersInv, CallsTold
    <2> QED
      BY <1>q, <1>u, <2>1, <2>2 DEF AnswersInv, IsClaimed
  <1>5. ASSUME NEW C, NEW for, Flushed(C, for)
        PROVE  AnswersInv'
    <2>1. ClaimsAnswered'
      BY <1>5, FlushAnswers DEF AnswersInv
    <2>2. /\ UNCHANGED <<key, signedAt, now, transactions>>
          /\ \A c \in Calls : \/ pc'[c] = pc[c] /\ pay'[c] = pay[c]
                              \/ pc'[c] = "sender"
      BY <1>5 DEF Flushed
    <2>3. CallsTold'
      BY <2>2 DEF AnswersInv, CallsTold
    <2>4. ASSUME NEW c \in Calls, gate'[c] = "stale"
          PROVE  IsStale(upload[c])'
      <3>1. CASE c \in C
        <4>1. for[c] \in Mesh!collectBridgeUploads /\ upload'[c] = for[c][2]
              /\ UploadVerdict(for[c]) = "stale"
          BY <1>5, <2>4, <3>1 DEF Flushed
        <4>2. Verdict(for[c][2]) = "stale"
          BY <4>1 DEF UploadVerdict
        <4>3. IsStale(for[c][2])
          BY <4>2 DEF Verdict
        <4> QED
          BY <2>2, <4>1, <4>3 DEF IsStale
      <3>2. CASE c \notin C
        <4>1. gate[c] = "stale" /\ upload'[c] = upload[c]
          BY <1>5, <2>4, <3>2 DEF Flushed
        <4>2. IsStale(upload[c])
          BY <4>1 DEF AnswersInv, StaleStays
        <4> QED
          BY <2>2, <4>1, <4>2 DEF IsStale
      <3> QED
        BY <3>1, <3>2
    <2> QED
      BY <2>1, <2>3, <2>4 DEF AnswersInv, StaleStays
  <1>6. ASSUME NEW c \in Calls, Settling(c)
        PROVE  AnswersInv'
    <2>1. CallsTold'
      BY <1>6, SettlingTells DEF AnswersInv
    <2>2. UNCHANGED <<seen, gate, upload>>
      BY <1>6 DEF Settling, gateVars
    <2> QED
      BY <1>q, <1>u, <2>1, <2>2 DEF AnswersInv, IsClaimed
  <1> QED
    BY <1>1, <1>2, <1>3, <1>4, <1>5, <1>6, ServerSteps

\* A verdict stands, and a call that has ended stays so.
LEMMA EndedCallsStay ==
  ASSUME SimInv, [FormNext]_uiVars, NEW c \in Calls, gate[c] # "none"
  PROVE  /\ gate'[c] = gate[c]
         /\ pc[c] \notin Unanswered => pc'[c] = pc[c]
  <1>t. SettlementTypeOK
    BY DEF SimInv, SimSettlementInv, BridgeTypeOK
  <1>1. ASSUME NEW d \in Calls, Settling(d)
        PROVE  /\ gate'[c] = gate[c]
               /\ pc[c] \notin Unanswered => pc'[c] = pc[c]
    <2>1. pc[d] \in Active
      BY <1>1 DEF Settling, SettlementStep, ReadSender, ReadReceiver, DebitSender,
                  CreditReceiver, RecordSettled, RecordRejected, CommitSettled, CommitRejected,
                  DatabaseError, Active
    <2> QED
      BY <1>1, <1>t, <2>1, SettlingKeepsCalls DEF gateVars, Unanswered
  <1>2. ASSUME NEW C, NEW for, Flushed(C, for)
        PROVE  gate'[c] = gate[c] /\ pc'[c] = pc[c]
    BY <1>2 DEF Flushed
  <1>3. \A p, ttl : demoSend(p, StartDevice, ttl) => UNCHANGED <<gate, pc>>
    BY DEF demoSend, CreatePacket, settlementVars
  <1>4. meshGossip \/ meshReset \/ evictExpired \/ Tick \/ UNCHANGED simVars
        => UNCHANGED <<gate, pc>>
    BY DEF meshGossip, meshReset, evictExpired, Tick, simVars, bridgeVars, gateVars,
           settlementVars
  <1>5. ASSUME RestartSimulator
        PROVE  /\ gate'[c] = gate[c]
               /\ pc[c] \notin Unanswered => pc'[c] = pc[c]
    BY <1>5 DEF RestartSimulator, RestartServer, Unanswered
  <1> QED
    BY <1>1, <1>2, <1>3, <1>4, <1>5, ServerSteps

LEMMA StepFlushInv ==
  ASSUME SimInv, FormTypeOK, FlushInv, [FormNext]_uiVars
  PROVE  FlushInv'
  <1>1. /\ \A c \in flushCalls : gate'[c] # "none"
        /\ \A c \in shownFlush : gate'[c] # "none" /\ pc'[c] \notin Unanswered
    BY EndedCallsStay DEF FlushInv
  <1>2. \A c \in flushCalls' : c \in Calls /\ gate'[c] # "none"
    <2>1. ASSUME NEW b \in Buttons, Handle(b)
          PROVE  \A c \in flushCalls' : c \in Calls /\ gate'[c] # "none"
      BY <1>1, <2>1 DEF Handle, FlushInv
    <2>2. flushCalls' = flushCalls => \A c \in flushCalls' : c \in Calls /\ gate'[c] # "none"
      BY <1>1 DEF FlushInv
    <2> QED
      BY <2>1, <2>2 DEF FormNext, Click, HandleLate, Resume, GiveUp, Refuse, ResumeRefused,
                        uiVars, formVars
  <1>3. \A c \in shownFlush' : c \in Calls /\ gate'[c] # "none" /\ pc'[c] \notin Unanswered
    <2>1. ASSUME NEW b \in Buttons, Resume(b)
          PROVE  \A c \in shownFlush' : c \in Calls /\ gate'[c] # "none" /\ pc'[c] \notin Unanswered
      <3>1. CASE b = "flush"
        <4>1. shownFlush' = flushCalls /\ \A c \in flushCalls : pc[c] \notin Unanswered
          BY <2>1, <3>1 DEF Resume, Ready, Unanswered
        <4> QED
          BY <1>1, <4>1, EndedCallsStay DEF FlushInv
      <3>2. CASE b # "flush"
        BY <1>1, <2>1, <3>2 DEF Resume, FlushInv
      <3> QED
        BY <3>1, <3>2
    <2>2. ASSUME NEW b \in Buttons, Click(b)
          PROVE  shownFlush' \subseteq shownFlush
      BY <2>2 DEF Click
    <2>3. shownFlush' \subseteq shownFlush =>
             \A c \in shownFlush' : c \in Calls /\ gate'[c] # "none" /\ pc'[c] \notin Unanswered
      BY <1>1 DEF FlushInv
    <2> QED
      BY <2>1, <2>2, <2>3 DEF FormNext, Handle, HandleLate, GiveUp, Refuse, ResumeRefused,
                              uiVars, formVars
  <1> QED
    BY <1>2, <1>3 DEF FlushInv

(* What the flush result on the page says of a packet is true, and final:  *)
(* it settled or was rejected and is on record, it failed, it came too     *)
(* late and will be too late for good, or another call had it, which       *)
(* passed or came too late; whatever overlaps the flush, however long it   *)
(* takes, and though the server be restarted (PaymentForm.jsx, line 230).  *)
THEOREM FlushResultIsTrue ==
  ASSUME Tampered = {}, MaxAge <= Ttl
  PROVE  FormSpec => []ShownFlushIsTrue
  <1>1. ASSUME FormInit
        PROVE  AnswersInv /\ FlushInv
    BY <1>1 DEF FormInit, SimInit, BridgeInit, SettlementInit, AnswersInv, ClaimsAnswered, StaleStays,
                CallsTold, FlushInv, IsClaimed
  <1>2. SimInv /\ SimGateInv /\ AnswersInv /\ [FormNext]_uiVars => AnswersInv'
    BY StepAnswers
  <1>3. SimInv /\ FormTypeOK /\ FlushInv /\ [FormNext]_uiVars => FlushInv'
    BY StepFlushInv
  <1>4. ASSUME SimInv, AnswersInv, FlushInv
        PROVE  ShownFlushIsTrue
    <2> SUFFICES ASSUME NEW c \in shownFlush
                 PROVE  \/ gate[c] = "passed" /\ transactions[upload[c]] # "none"
                        \/ gate[c] = "passed" /\ pc[c] \in {"failed", "conflict"}
                        \/ gate[c] = "stale" /\ IsStale(upload[c])
                        \/ gate[c] = "duplicate"
                              /\ \E d \in Calls \ {c} :
                                    upload[d] = upload[c] /\ gate[d] \in {"passed", "stale"}
      BY DEF ShownFlushIsTrue
    <2>1. c \in Calls /\ gate[c] \in {"passed", "stale", "duplicate"} /\ pc[c] \notin Unanswered
      BY <1>4 DEF FlushInv, AnswersInv, ClaimsAnswered
    <2>2. CASE gate[c] = "passed"
      <3>1. pc[c] # "idle" /\ pay[c] = upload[c] /\ pc[c] \in {"idle"} \cup Active \cup Returned
        BY <1>4, <2>1, <2>2 DEF SimInv, SimSettlementInv, BridgeTypeOK, SettlementTypeOK
      <3>2. pc[c] \in {"settled", "rejected", "failed", "conflict", "duplicateKey"}
        BY <2>1, <3>1 DEF Returned, Unanswered
      <3> QED
        BY <1>4, <2>1, <2>2, <3>1, <3>2 DEF AnswersInv, CallsTold
    <2>3. CASE gate[c] = "duplicate"
      BY <1>4, <2>1, <2>3 DEF AnswersInv, ClaimsAnswered, HasVerdict
    <2>4. CASE gate[c] = "stale"
      BY <1>4, <2>1, <2>4 DEF AnswersInv, StaleStays
    <2> QED
      BY <2>1, <2>2, <2>3, <2>4
  <1> QED
    BY <1>1, <1>2, <1>3, <1>4, SimInvariant, SimGateInvariant, PageDrivesDemo, FormTypeCorrect, PTL
    DEF FormSpec

=============================================================================
