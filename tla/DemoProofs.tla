------------------------------ MODULE DemoProofs ------------------------------
(***************************************************************************)
(* The mesh, start-up, seeding and the arithmetic of payments, for every   *)
(* list of phones, number of server processes, list of accounts, and       *)
(* failures.  The theorems about MeshService alone come first.             *)
(***************************************************************************)
EXTENDS DemoServer, SumTheorems, WellFoundedInduction, TLAPS

-----------------------------------------------------------------------------
(* The mesh. *)

\* The phones a packet may be passed on from have a first one.
LEMMA LeastNatural ==
  ASSUME NEW S, S \subseteq Nat, S # {}
  PROVE  Min(S) \in S
  <1>1. IsWellFoundedOn(OpToRel(<, Nat), Nat)
    BY NatLessThanWellFounded
  <1>2. PICK x \in S : \A y \in S : ~(<<y, x>> \in OpToRel(<, Nat))
    BY <1>1, WFMin, Zenon
  <1>3. ASSUME NEW y \in S, y < x
        PROVE  FALSE
    <2>1. <<y, x>> \in Nat \X Nat /\ <<y, x>>[1] < <<y, x>>[2]
      BY <1>3
    <2>2. <<y, x>> \in OpToRel(<, Nat)
      BY <2>1, Zenon DEF OpToRel
    <2> QED
      BY <1>2, <2>2
  <1>4. \A y \in S : x <= y
    BY <1>3
  <1> QED
    BY <1>4 DEF Min

LEMMA SourceMayPassOn ==
  ASSUME NEW p, Forwarders(p) # {}
  PROVE  Source(p) \in Devices /\ held[Source(p)][p] > 0
  <1>1. DeviceOrder \in Seq(Devices)
    BY MeshAssumption DEF Devices
  <1>2. Forwarders(p) \subseteq Nat
    BY <1>1 DEF Forwarders
  <1>3. Min(Forwarders(p)) \in Forwarders(p)
    BY <1>2, LeastNatural
  <1> QED
    BY <1>1, <1>3 DEF Source, Forwarders

\* Who has a copy that may be passed on is found in the list of phones.
LEMMA LiveCopyIsFound ==
  ASSUME NEW p, NEW d \in Devices, held[d][p] > 0
  PROVE  Forwarders(p) # {}
  <1>1. PICK i \in DOMAIN DeviceOrder : DeviceOrder[i] = d
    BY DEF Devices, Range
  <1> QED
    BY <1>1 DEF Forwarders

MeshInv == MeshTypeOK /\ TtlPaysForHops

LEMMA MeshInitInv == MeshInit => MeshInv
  BY DEF MeshInit, MeshInv, MeshTypeOK, TtlPaysForHops, NoCopies, holds, Absent

LEMMA InjectKeepsInv ==
  ASSUME MeshInv, NEW p \in Packets, NEW d \in Devices, NEW ttl \in InitialTtls,
         inject(p, d, ttl)
  PROVE  MeshInv'
  <1>1. ttl \in Nat
    BY MeshAssumption
  <1>2. /\ held' \in [Devices -> [Packets -> Nat \cup {Absent}]]
        /\ sentTtl' \in [Packets -> InitialTtls \cup {Absent}]
        /\ hops' \in [Devices -> [Packets -> Nat]]
    BY <1>1 DEF inject, MeshInv, MeshTypeOK
  <1>3. ASSUME NEW e \in Devices, NEW q \in Packets, held'[e][q] # Absent
        PROVE  /\ sentTtl'[q] # Absent
               /\ held'[e][q] >= 0 /\ held'[e][q] + hops'[e][q] = sentTtl'[q]
    <2>1. CASE q = p
      <3>1. e = d
        BY <1>3, <2>1 DEF inject, MeshInv, MeshTypeOK, holds
      <3> QED
        BY <1>1, <2>1, <3>1 DEF inject, MeshInv, MeshTypeOK, Absent
    <2>2. CASE q # p
      BY <1>3, <2>2 DEF inject, MeshInv, MeshTypeOK, TtlPaysForHops, holds
    <2> QED
      BY <2>1, <2>2
  <1> QED
    BY <1>2, <1>3 DEF MeshInv, MeshTypeOK, TtlPaysForHops, holds

LEMMA GossipKeepsInv ==
  ASSUME MeshInv, gossipOnce
  PROVE  MeshInv'
  <1>1. ASSUME NEW d \in Devices, NEW p \in Packets, Received(d, p)
        PROVE  /\ held'[d][p] = held[Source(p)][p] - 1
               /\ hops'[d][p] = hops[Source(p)][p] + 1
               /\ held'[d][p] \in Nat /\ hops'[d][p] \in Nat
               /\ sentTtl[p] # Absent
               /\ held'[d][p] + hops'[d][p] = sentTtl[p]
    <2>1. Source(p) \in Devices /\ held[Source(p)][p] > 0
      BY <1>1, SourceMayPassOn DEF Received
    <2>2. held[Source(p)][p] \in Nat /\ hops[Source(p)][p] \in Nat
      BY <2>1 DEF MeshInv, MeshTypeOK, Absent
    <2>3. sentTtl[p] # Absent /\ held[Source(p)][p] + hops[Source(p)][p] = sentTtl[p]
      BY <2>1, <2>2 DEF MeshInv, MeshTypeOK, TtlPaysForHops, holds, Absent
    <2>4. held'[d][p] = CopyTtl(d, p) /\ hops'[d][p] = hops[Source(p)][p] + 1
      BY <1>1 DEF gossipOnce
    <2> QED
      BY <2>1, <2>2, <2>3, <2>4 DEF CopyTtl
  <1>2. ASSUME NEW d \in Devices, NEW p \in Packets, ~Received(d, p)
        PROVE  held'[d][p] = held[d][p] /\ hops'[d][p] = hops[d][p]
    BY <1>2 DEF gossipOnce
  <1>3. held' \in [Devices -> [Packets -> Nat \cup {Absent}]]
    <2>1. \A d \in Devices, p \in Packets : held'[d][p] \in Nat \cup {Absent}
      BY <1>1, <1>2 DEF MeshInv, MeshTypeOK
    <2> QED
      BY <2>1 DEF gossipOnce
  <1>4. hops' \in [Devices -> [Packets -> Nat]]
    <2>1. \A d \in Devices, p \in Packets : hops'[d][p] \in Nat
      BY <1>1, <1>2 DEF MeshInv, MeshTypeOK
    <2> QED
      BY <2>1 DEF gossipOnce
  <1>5. sentTtl' = sentTtl
    BY DEF gossipOnce
  <1>6. ASSUME NEW d \in Devices, NEW p \in Packets, held'[d][p] # Absent
        PROVE  /\ sentTtl[p] # Absent
               /\ held'[d][p] >= 0 /\ held'[d][p] + hops'[d][p] = sentTtl[p]
    <2>1. CASE Received(d, p)
      BY <1>1, <2>1
    <2>2. CASE ~Received(d, p)
      BY <1>2, <1>6, <2>2 DEF MeshInv, MeshTypeOK, TtlPaysForHops, holds
    <2> QED
      BY <2>1, <2>2
  <1> QED
    BY <1>3, <1>4, <1>5, <1>6 DEF MeshInv, MeshTypeOK, TtlPaysForHops, holds

LEMMA ResetKeepsInv == MeshInv /\ resetMesh => MeshInv'
  BY DEF resetMesh, MeshInv, MeshTypeOK, TtlPaysForHops, NoCopies, holds, Absent

LEMMA MeshStepInv == MeshInv /\ [MeshNext]_meshVars => MeshInv'
  <1> SUFFICES ASSUME MeshInv, [MeshNext]_meshVars PROVE MeshInv'
    OBVIOUS
  <1>1. CASE UNCHANGED meshVars
    BY <1>1 DEF meshVars, MeshInv, MeshTypeOK, TtlPaysForHops, holds
  <1>2. CASE MeshNext
    BY <1>2, InjectKeepsInv, GossipKeepsInv, ResetKeepsInv DEF MeshNext
  <1> QED
    BY <1>1, <1>2

LEMMA MeshInvariant == MeshSpec => []MeshInv
  <1> QED
    BY MeshInitInv, MeshStepInv, PTL DEF MeshSpec

(* However often a packet is gossiped and the mesh is reset, a copy has    *)
(* paid for each of its hops with its ttl (meshService.js, gossipOnce).    *)
THEOREM EveryHopIsPaid == MeshSpec => []TtlPaysForHops
  BY MeshInvariant, PTL DEF MeshInv

(* The hop count of a packet sent with the default ttl is the number of    *)
(* phones it came through (meshController.js, meshFlush).                  *)
THEOREM HopCountIsTrue == MeshSpec => []HopCountIsDistance
  <1>1. MeshInv => HopCountIsDistance
    <2> SUFFICES ASSUME MeshInv, NEW d \in HasInternet, NEW p \in Packets,
                        holds(d, p), sentTtl[p] = DefaultTtl
                 PROVE  hopCount(d, p) = hops[d][p]
      BY DEF HopCountIsDistance, collectBridgeUploads
    <2>1. d \in Devices
      BY MeshAssumption DEF Devices
    <2>2. hops[d][p] \in Nat /\ held[d][p] \in Nat /\ DefaultTtl - held[d][p] = hops[d][p]
      BY <2>1 DEF MeshInv, MeshTypeOK, TtlPaysForHops, holds, DefaultTtl, Absent
    <2> QED
      BY <2>2 DEF hopCount, Max
  <1> QED
    BY <1>1, MeshInvariant, PTL

(* One round of gossip brings a packet anybody may still pass on to every  *)
(* phone, whichever the order of the phones (meshService.js, gossipOnce).  *)
THEOREM RoundReachesAll == MeshSpec => OneRoundReachesAll
  <1>1. ASSUME MeshInv, gossipOnce,
               NEW p \in Packets, NEW e \in Devices, held[e][p] > 0, NEW d \in Devices
        PROVE  held'[d][p] # Absent
    <2>1. Forwarders(p) # {}
      BY <1>1, LiveCopyIsFound
    <2>2. Source(p) \in Devices /\ held[Source(p)][p] > 0
      BY <2>1, SourceMayPassOn
    <2>3. held[Source(p)][p] \in Nat
      BY <1>1, <2>2 DEF MeshInv, MeshTypeOK, Absent
    <2>4. CASE holds(d, p)
      BY <1>1, <2>4 DEF gossipOnce, Received, holds
    <2>5. CASE ~holds(d, p)
      BY <1>1, <2>1, <2>2, <2>3, <2>5 DEF gossipOnce, Received, CopyTtl, Absent
    <2> QED
      BY <2>4, <2>5
  <1>2. MeshInv => (gossipOnce =>
            \A p \in Packets :
                (\E d \in Devices : held[d][p] > 0) => \A d \in Devices : held'[d][p] # Absent)
    BY <1>1
  <1> QED
    BY <1>2, MeshInvariant, PTL DEF OneRoundReachesAll

(* A packet whose ttl is spent everywhere is spread no further.            *)
THEOREM SpentPacketsAreNotSpread == MeshSpec => SpentPacketsStay
  <1> DEFINE Spent(p) == sentTtl[p] # Absent /\ \A d \in Devices : held[d][p] <= 0
             Stays(p) == \A d \in Devices : held'[d][p] \in {held[d][p], Absent}
  <1>1. ASSUME MeshInv, MeshNext, NEW p \in Packets, Spent(p), NEW d \in Devices
        PROVE  held'[d][p] \in {held[d][p], Absent}
    <2>1. ASSUME NEW q \in Packets, NEW e \in Devices, NEW ttl \in InitialTtls, inject(q, e, ttl)
          PROVE  held'[d][p] = held[d][p]
      BY <1>1, <2>1 DEF inject, MeshInv, MeshTypeOK
    <2>2. CASE gossipOnce
      <3>1. Forwarders(p) = {}
        <4> SUFFICES ASSUME Forwarders(p) # {} PROVE FALSE
          OBVIOUS
        <4>1. Source(p) \in Devices /\ held[Source(p)][p] > 0
          BY SourceMayPassOn
        <4>2. held[Source(p)][p] \in Int /\ held[Source(p)][p] <= 0
          BY <1>1, <4>1 DEF MeshInv, MeshTypeOK, Absent
        <4> QED
          BY <4>1, <4>2
      <3> QED
        BY <1>1, <2>2, <3>1 DEF gossipOnce, Received
    <2>3. CASE resetMesh
      BY <1>1, <2>3 DEF resetMesh, NoCopies
    <2> QED
      BY <1>1, <2>1, <2>2, <2>3 DEF MeshNext
  <1>2. MeshInv /\ [MeshNext]_meshVars =>
            [\A p \in Packets : Spent(p) => Stays(p)]_meshVars
    BY <1>1
  <1>3. MeshInv /\ [MeshNext]_meshVars =>
            [\A p \in Packets :
                (sentTtl[p] # Absent /\ \A d \in Devices : held[d][p] <= 0) =>
                    \A d \in Devices : held'[d][p] \in {held[d][p], Absent}]_meshVars
    BY <1>2
  <1> QED
    BY <1>3, MeshInvariant, PTL DEF SpentPacketsStay, MeshSpec

-----------------------------------------------------------------------------
(* Arithmetic. *)

LEMMA ToFixedIsNearest ==
  ASSUME NEW x \in Int, NEW n \in ToFixed(x)
  PROVE  n \in Int /\ 2 * (x - n * 10) \in -10 .. 10
  BY DEF ToFixed, Grain

\* toFixed has a result for every number.
LEMMA ToFixedAnswers ==
  ASSUME NEW x \in Int
  PROVE  \E n \in Int : n \in ToFixed(x)
  <1>1. x = 10 * (x \div 10) + (x % 10) /\ x \div 10 \in Int /\ x % 10 \in 0 .. 9
    OBVIOUS
  <1> DEFINE q == x \div 10
             r == x % 10
  <1>2. q \in Int /\ r \in 0 .. 9 /\ x = 10 * q + r
    BY <1>1
  <1> HIDE DEF q, r
  <1>3. r <= 5 => q \in {n \in q .. (q + 1) : 2 * (x - n * 10) \in -10 .. 10}
    BY <1>2
  <1>4. r > 5 => q + 1 \in {n \in q .. (q + 1) : 2 * (x - n * 10) \in -10 .. 10}
    BY <1>2
  <1>5. ToFixed(x) = {n \in q .. (q + 1) : 2 * (x - n * 10) \in -10 .. 10}
    BY DEF ToFixed, Grain, q
  <1> QED
    BY <1>2, <1>3, <1>4, <1>5

\* A debit the balance covers leaves nothing negative, whichever way it rounds.
LEMMA CoveredDebit ==
  ASSUME NEW b \in Nat, NEW amount \in Nat, ~ExceedsBalance(b, amount),
         NEW n \in NewSenderBalances(b, amount)
  PROVE  n \in Nat
  <1>1. b * 10 - amount >= 0
    BY DEF ExceedsBalance, Grain
  <1>2. n \in Int /\ 2 * ((b * 10 - amount) - n * 10) \in -10 .. 10
    BY ToFixedIsNearest DEF NewSenderBalances, Grain
  <1>3. n \in (b * 10 - amount) \div 10 .. ((b * 10 - amount) \div 10 + 1)
    BY DEF NewSenderBalances, ToFixed, Grain
  <1>4. (b * 10 - amount) \div 10 >= 0
    BY <1>1
  <1> QED
    BY <1>2, <1>3, <1>4

LEMMA CreditStaysPositive ==
  ASSUME NEW b \in Nat, NEW amount \in Nat, NEW n \in NewReceiverBalances(b, amount)
  PROVE  n \in Nat
  <1>1. n \in (b * 10 + amount) \div 10 .. ((b * 10 + amount) \div 10 + 1)
    BY DEF NewReceiverBalances, ToFixed, Grain
  <1>2. b * 10 + amount >= 0 /\ (b * 10 + amount) \div 10 >= 0
    OBVIOUS
  <1> QED
    BY <1>1, <1>2

(* What one transfer makes of the sum of the two balances: a paisa more or *)
(* less at most, and exactly the sum unless the amount lies half way       *)
(* between two paise (settlementService.js, lines 87 to 93).               *)
THEOREM TransferDrift ==
  ASSUME NEW b \in Nat, NEW c \in Nat, NEW amount \in Nat,
         NEW from \in NewSenderBalances(b, amount), NEW to \in NewReceiverBalances(c, amount)
  PROVE  /\ from + to - (b + c) \in -1 .. 1
         /\ ~IsHalfway(amount) => from + to = b + c
  <1> DEFINE q == amount \div 10
             r == amount % 10
  <1>1. q \in Int /\ r \in 0 .. 9 /\ amount = 10 * q + r
    OBVIOUS
  <1>2. from \in Int /\ 2 * ((b * 10 - amount) - from * 10) \in -10 .. 10
    BY ToFixedIsNearest DEF NewSenderBalances, Grain
  <1>3. to \in Int /\ 2 * ((c * 10 + amount) - to * 10) \in -10 .. 10
    BY ToFixedIsNearest DEF NewReceiverBalances, Grain
  <1>4. IsHalfway(amount) <=> r = 5
    BY <1>1 DEF IsHalfway, Grain
  <1> HIDE DEF q, r
  <1>5. r < 5 => from = b - q /\ to = c + q
    BY <1>1, <1>2, <1>3
  <1>6. r > 5 => from = b - q - 1 /\ to = c + q + 1
    BY <1>1, <1>2, <1>3
  <1>7. r = 5 => from \in {b - q, b - q - 1} /\ to \in {c + q, c + q + 1}
    BY <1>1, <1>2, <1>3
  <1> QED
    BY <1>1, <1>2, <1>3, <1>4, <1>5, <1>6, <1>7

-----------------------------------------------------------------------------
(* Seeding. *)

First(k) == {SeedOrder[i] : i \in 1 .. k}

(* Until MongoDB fails in the middle of a batch: what is stored is what    *)
(* the one batch that got anywhere has inserted, or everything; and nobody *)
(* is past the count before something is stored.                           *)
SeedInv ==
    \/ cut
    \/ /\ \A s \in Servers : stage[s] \in {"binding", "listening"} => Stored # {}
       /\ \A s \in Servers : batch[s] > 1 => Stored = First(batch[s] - 1)
       /\ \A s, t \in Servers : batch[s] > 1 /\ batch[t] > 1 => s = t
       /\ Stored # {} => Stored = SeedAccounts \/ \E s \in Servers : batch[s] > 1

StartInv == StartTypeOK /\ SeedInv

LEMMA SeedOrderIsAList ==
  /\ Len(SeedOrder) \in Nat \ {0}
  /\ \A i \in 1 .. Len(SeedOrder) : SeedOrder[i] \in SeedAccounts
  /\ First(Len(SeedOrder)) = SeedAccounts
  /\ \A i, j \in 1 .. Len(SeedOrder) : SeedOrder[i] = SeedOrder[j] => i = j
  <1>1. SeedOrder \in Seq(SeedAccounts) /\ SeedOrder # <<>>
    BY StartAssumption
  <1>2. DOMAIN SeedOrder = 1 .. Len(SeedOrder) /\ Len(SeedOrder) \in Nat \ {0}
    BY <1>1
  <1> QED
    BY <1>1, <1>2, StartAssumption DEF First, SeedAccounts

LEMMA StartInitInv == StartInit => StartInv
  <1> SUFFICES ASSUME StartInit PROVE StartInv
    OBVIOUS
  <1>1. Len(SeedOrder) \in Nat /\ MaxFaults \in Nat
    BY SeedOrderIsAList, StartAssumption
  <1>2. StartTypeOK
    <2>1. 0 \in 0 .. Len(SeedOrder) /\ 0 \in 0 .. MaxFaults
      BY <1>1
    <2> QED
      BY <2>1 DEF StartInit, StartTypeOK, Stages
  <1>3. Stored = {}
    BY DEF StartInit, Stored
  <1>4. SeedInv
    BY <1>3 DEF StartInit, SeedInv
  <1> QED
    BY <1>2, <1>4 DEF StartInv

\* Steps that insert nothing and send no batch.
LEMMA PlainStepsKeepInv ==
  ASSUME StartInv, NEW s \in Servers, Launch(s) \/ Connected(s) \/ ConnectFails(s) \/ Listen(s)
  PROVE  StartInv'
  <1> USE DEF Launch, Connected, ConnectFails, Listen, Advance, StartInv
  <1>1. StartTypeOK'
    <2>1. CASE Launch(s)
      BY <2>1 DEF StartTypeOK, Stages
    <2>2. CASE Connected(s)
      BY <2>2 DEF StartTypeOK, Stages
    <2>3. CASE ConnectFails(s)
      <3>1. faults' \in 0 .. MaxFaults
        BY <2>3, StartAssumption DEF StartTypeOK
      <3> QED
        BY <2>3, <3>1 DEF StartTypeOK, Stages
    <2>4. CASE Listen(s)
      BY <2>4 DEF StartTypeOK, Stages
    <2> QED
      BY <2>1, <2>2, <2>3, <2>4
  <1>2. Stored' = Stored /\ batch' = batch /\ cut' = cut
    BY DEF Stored
  <1>3. \A t \in Servers : stage'[t] \in {"binding", "listening"} =>
                               stage[t] \in {"binding", "listening"}
    BY DEF StartTypeOK
  <1> QED
    BY <1>1, <1>2, <1>3 DEF SeedInv

LEMMA CountKeepsInv ==
  ASSUME StartInv, NEW s \in Servers, CountAccounts(s)
  PROVE  StartInv'
  <1> USE DEF CountAccounts, Advance, StartInv
  <1>1. StartTypeOK'
    <2>1. 1 \in 0 .. Len(SeedOrder)
      BY SeedOrderIsAList
    <2>2. CASE Stored = {}
      BY <2>1, <2>2 DEF StartTypeOK, Stages
    <2>3. CASE Stored # {}
      BY <2>3 DEF StartTypeOK, Stages
    <2> QED
      BY <2>2, <2>3
  <1>2. Stored' = Stored /\ cut' = cut
    BY DEF Stored
  <1>3. batch[s] = 0
    BY DEF StartTypeOK
  <1>4. \A t \in Servers : (batch'[t] > 1 <=> batch[t] > 1) /\ (batch[t] > 1 => batch'[t] = batch[t])
    BY <1>3 DEF StartTypeOK
  <1>5. \A t \in Servers : stage'[t] \in {"binding", "listening"} =>
                               stage[t] \in {"binding", "listening"} \/ Stored # {}
    BY DEF StartTypeOK
  <1> QED
    BY <1>1, <1>2, <1>4, <1>5 DEF SeedInv

\* A batch that meets an account that is there already is the first of nobody.
LEMMA RefusedInsertKeepsInv ==
  ASSUME StartInv, NEW s \in Servers, InsertNext(s), SeedOrder[batch[s]] \in Stored
  PROVE  StartInv'
  <1> USE DEF InsertNext, EndBatch, Advance, StartInv
  <1>1. batch[s] \in 1 .. Len(SeedOrder)
    BY SeedOrderIsAList DEF StartTypeOK
  <1>2. StartTypeOK'
    <2>1. 0 \in 0 .. Len(SeedOrder)
      BY SeedOrderIsAList
    <2>2. batch' = [batch EXCEPT ![s] = 0] /\ UNCHANGED <<balance, cut, faults>>
      OBVIOUS
    <2>3. CASE stage[s] = "seeding"
      <3>1. stage' = [stage EXCEPT ![s] = "down"]
        BY <2>3
      <3> QED
        BY <2>1, <2>2, <3>1 DEF StartTypeOK, Stages
    <2>4. CASE stage[s] # "seeding"
      <3>1. stage' = stage
        BY <2>4 DEF StartTypeOK
      <3> QED
        BY <2>1, <2>2, <2>4, <3>1 DEF StartTypeOK
    <2> QED
      BY <2>3, <2>4
  <1>3. Stored' = Stored /\ cut' = cut
    BY DEF Stored
  <1>4. CASE cut
    BY <1>2, <1>3, <1>4 DEF SeedInv
  <1>5. CASE ~cut
    <2>1. ~(batch[s] > 1)
      <3> SUFFICES ASSUME batch[s] > 1 PROVE FALSE
        OBVIOUS
      <3>1. PICK i \in 1 .. batch[s] - 1 : SeedOrder[batch[s]] = SeedOrder[i]
        BY <1>5 DEF SeedInv, First
      <3> QED
        BY <1>1, <3>1, SeedOrderIsAList
    <2>2. \A t \in Servers : /\ batch[t] > 1 => batch'[t] = batch[t]
                             /\ batch'[t] > 1 => batch[t] > 1
      BY <1>1, <2>1 DEF StartTypeOK
    <2>3. \A t \in Servers : stage'[t] \in {"binding", "listening"} =>
                                 stage[t] \in {"binding", "listening"}
      BY DEF StartTypeOK
    <2> QED
      BY <1>2, <1>3, <1>5, <2>2, <2>3 DEF SeedInv
  <1> QED
    BY <1>4, <1>5

LEMMA InsertKeepsInv ==
  ASSUME StartInv, NEW s \in Servers, InsertNext(s), SeedOrder[batch[s]] \notin Stored
  PROVE  StartInv'
  <1> USE DEF InsertNext, EndBatch, Advance, StartInv
  <1> DEFINE k == batch[s]
  <1>1. k \in 1 .. Len(SeedOrder) /\ SeedOrder[k] \in SeedAccounts
    BY SeedOrderIsAList DEF StartTypeOK
  <1>2. SeedBalance[SeedOrder[k]] \in Nat /\ SeedBalance[SeedOrder[k]] # NoAccount
    BY <1>1, StartAssumption
  <1>3. StartTypeOK'
    <2>1. balance' \in [SeedAccounts -> Nat \cup {NoAccount}]
      BY <1>1, <1>2 DEF StartTypeOK
    <2>2. CASE k # Len(SeedOrder)
      <3>1. k + 1 \in 0 .. Len(SeedOrder) /\ k + 1 # 0
        BY <1>1, <2>2, SeedOrderIsAList
      <3>2. batch' = [batch EXCEPT ![s] = k + 1] /\ UNCHANGED <<stage, cut, faults>>
        BY <2>2
      <3> HIDE DEF InsertNext
      <3> QED
        BY <1>1, <2>1, <3>1, <3>2 DEF StartTypeOK
    <2>3. CASE k = Len(SeedOrder) /\ stage[s] = "seeding"
      <3>1. /\ batch' = [batch EXCEPT ![s] = 0] /\ stage' = [stage EXCEPT ![s] = "binding"]
            /\ UNCHANGED <<cut, faults>>
        BY <2>3
      <3> HIDE DEF InsertNext
      <3>2. 0 \in 0 .. Len(SeedOrder)
        BY SeedOrderIsAList
      <3> QED
        BY <2>1, <3>1, <3>2 DEF StartTypeOK, Stages
    <2>4. CASE k = Len(SeedOrder) /\ stage[s] # "seeding"
      <3>1. batch' = [batch EXCEPT ![s] = 0] /\ UNCHANGED <<stage, cut, faults>>
        BY <2>4 DEF StartTypeOK
      <3> HIDE DEF InsertNext
      <3>2. 0 \in 0 .. Len(SeedOrder)
        BY SeedOrderIsAList
      <3> QED
        BY <2>1, <2>4, <3>1, <3>2 DEF StartTypeOK
    <2> QED
      BY <2>2, <2>3, <2>4
  <1>4. Stored' = Stored \cup {SeedOrder[k]}
    BY <1>1, <1>2 DEF Stored, StartTypeOK
  <1>5. cut' = cut
    OBVIOUS
  <1>6. CASE cut
    BY <1>3, <1>5, <1>6 DEF SeedInv
  <1>7. CASE ~cut
    <2>1. Stored = First(k - 1)
      <3>1. CASE k > 1
        BY <1>7, <3>1 DEF SeedInv
      <3>2. CASE k = 1
        <4>1. First(0) = {}
          BY DEF First
        <4>2. ASSUME NEW t \in Servers, batch[t] > 1
              PROVE  FALSE
          <5>1. Stored = First(batch[t] - 1) /\ 1 \in 1 .. batch[t] - 1
            BY <1>7, <4>2 DEF SeedInv, StartTypeOK
          <5> QED
            BY <3>2, <5>1 DEF First
        <4>3. Stored # SeedAccounts
          BY <1>1
        <4> QED
          BY <1>7, <3>2, <4>1, <4>2, <4>3 DEF SeedInv
      <3> QED
        BY <1>1, <3>1, <3>2
    <2>2. Stored' = First(k) /\ Stored' # {}
      <3>1. First(k) = First(k - 1) \cup {SeedOrder[k]}
        BY <1>1 DEF First
      <3> QED
        BY <1>4, <2>1, <3>1
    <2>3. ASSUME NEW t \in Servers, t # s
          PROVE  ~(batch[t] > 1) /\ batch'[t] = batch[t]
      <3>1. batch'[t] = batch[t]
        BY <2>3 DEF StartTypeOK
      <3>2. CASE k > 1
        BY <1>7, <2>3, <3>1, <3>2 DEF SeedInv
      <3>3. CASE k = 1
        <4> SUFFICES ASSUME batch[t] > 1 PROVE FALSE
          BY <3>1
        <4>1. Stored = First(batch[t] - 1) /\ 1 \in 1 .. batch[t] - 1
          BY <1>7 DEF SeedInv, StartTypeOK
        <4> QED
          BY <3>3, <4>1 DEF First
      <3> QED
        BY <1>1, <3>2, <3>3
    <2>4. CASE k = Len(SeedOrder)
      <3>1. batch'[s] = 0 /\ Stored' = SeedAccounts
        BY <2>2, <2>4, SeedOrderIsAList DEF StartTypeOK
      <3> QED
        BY <1>3, <1>5, <1>7, <2>2, <2>3, <3>1 DEF SeedInv
    <2>5. CASE k # Len(SeedOrder)
      <3>1. batch'[s] = k + 1 /\ k + 1 > 1 /\ (k + 1) - 1 = k
        BY <1>1, <2>5 DEF StartTypeOK
      <3> QED
        BY <1>3, <1>5, <1>7, <2>2, <2>3, <3>1 DEF SeedInv
    <2> QED
      BY <2>4, <2>5
  <1> QED
    BY <1>6, <1>7

LEMMA FaultsKeepInv ==
  ASSUME StartInv, DatabaseFails \/ \E s \in Servers : Crash(s)
  PROVE  StartInv'
  <1> USE DEF StartInv
  <1>1. CASE DatabaseFails
    <2> USE <1>1 DEF DatabaseFails
    <2>1. StartTypeOK'
      BY SeedOrderIsAList, StartAssumption DEF StartTypeOK, Stages
    <2>2. Stored' = Stored
      BY DEF Stored
    <2>3. \A t \in Servers : /\ batch'[t] = 0
                             /\ stage'[t] \in {"binding", "listening"} =>
                                    stage[t] \in {"binding", "listening"}
      BY DEF StartTypeOK
    <2>4. ~cut' => ~cut /\ \A t \in Servers : ~(batch[t] > 1)
      OBVIOUS
    <2>5. \A t \in Servers : ~(batch'[t] > 1)
      BY <2>3
    <2> HIDE <1>1
    <2>6. CASE ~cut'
      <3>1. \A t \in Servers : stage'[t] \in {"binding", "listening"} => Stored' # {}
        BY <2>2, <2>3, <2>4, <2>6 DEF SeedInv
      <3>2. Stored' # {} => Stored' = SeedAccounts
        BY <2>2, <2>4, <2>6 DEF SeedInv
      <3> QED
        BY <2>1, <2>5, <3>1, <3>2 DEF SeedInv
    <2>7. CASE cut'
      BY <2>1, <2>7 DEF SeedInv
    <2> QED
      BY <2>6, <2>7
  <1>2. ASSUME NEW s \in Servers, Crash(s)
        PROVE  StartInv'
    <2> USE <1>2 DEF Crash, Advance
    <2>1. StartTypeOK'
      BY SeedOrderIsAList, StartAssumption DEF StartTypeOK, Stages
    <2>2. Stored' = Stored /\ cut' = cut
      BY DEF Stored
    <2>3. \A t \in Servers : /\ batch[t] > 1 => batch'[t] = batch[t]
                             /\ batch'[t] > 1 => batch[t] > 1
                             /\ stage'[t] \in {"binding", "listening"} =>
                                    stage[t] \in {"binding", "listening"}
      BY DEF StartTypeOK
    <2> QED
      BY <2>1, <2>2, <2>3 DEF SeedInv
  <1> QED
    BY <1>1, <1>2

LEMMA StartingKeepsInv ==
  ASSUME StartInv, NEW s \in Servers, Launch(s) \/ StartStep(s) \/ ConnectFails(s)
  PROVE  StartInv'
  <1>1. CASE Launch(s) \/ Connected(s) \/ ConnectFails(s) \/ Listen(s)
    BY <1>1, PlainStepsKeepInv
  <1>2. CASE CountAccounts(s)
    BY <1>2, CountKeepsInv
  <1>3. CASE InsertNext(s)
    BY <1>3, RefusedInsertKeepsInv, InsertKeepsInv
  <1> QED
    BY <1>1, <1>2, <1>3 DEF StartStep

-----------------------------------------------------------------------------
(* The server as a whole. *)

SettleTypeOK ==
    /\ version \in [SeedAccounts -> Nat]
    /\ at \in [Packets -> Awaits \cup {"none", "settled", "rejected", "ended"}]
    /\ view \in [Packets -> [sender : Nat, version : Nat, receiver : Nat]]
    /\ debited \subseteq Packets /\ credited \subseteq debited
    /\ \A p \in Packets : at[p] # "none" => sentTtl[p] # Absent

\* What a settlement has established, and done, when it stands at an await.
Progress ==
    \A p \in Packets :
        /\ at[p] \in Awaits \ {"sender"} => Sender[p] \in Stored
        /\ at[p] \in Awaits \ {"sender", "receiver"} => Receiver[p] \in Stored
        /\ at[p] \in {"debit", "credit"} => ~ExceedsBalance(view[p].sender, Amount[p])
        /\ p \in debited => /\ at[p] \in {"credit", "save", "settled", "ended"}
                            /\ Sender[p] \in Stored /\ Receiver[p] \in Stored
        /\ at[p] = "credit" => p \in debited
        /\ p \in credited => at[p] \in {"save", "settled", "ended"}

DemoInv == StartInv /\ MeshInv /\ SettleTypeOK /\ Progress

\* The phones only change as the mesh says, or are cleared.
LEMMA DemoStepIsMeshStep == [DemoNext]_demoVars => [MeshNext]_meshVars
  BY DEF DemoNext, StartingUp, Stopping, ProcessDies, OnTheMesh, Upload, SettlementStep, ReadSender,
         ReadReceiver, DebitSender, CreditReceiver, Record, SettlementFails, MeshNext, demoVars,
         meshVars

LEMMA DemoImplementsMesh == DemoSpec => MeshSpec
  <1>1. DemoInit => MeshInit
    BY DEF DemoInit
  <1> QED
    BY <1>1, DemoStepIsMeshStep, PTL DEF DemoSpec, MeshSpec

LEMMA StoredHaveBalances ==
  ASSUME StartInv
  PROVE  /\ Stored \subseteq SeedAccounts
         /\ balance \in [SeedAccounts -> Nat \cup {NoAccount}]
         /\ \A a \in Stored : balance[a] \in Nat
  BY DEF Stored, StartInv, StartTypeOK

\* A write of a balance changes an account that is there, and no other.
LEMMA WriteKeepsStartInv ==
  ASSUME StartInv, NEW a \in Stored, NEW n \in Nat,
         balance' = [balance EXCEPT ![a] = n], UNCHANGED <<stage, batch, cut, faults>>
  PROVE  /\ StartInv' /\ Stored' = Stored /\ balance'[a] = n
         /\ \A b \in SeedAccounts \ {a} : balance'[b] = balance[b]
  <1>1. /\ a \in SeedAccounts /\ balance \in [SeedAccounts -> Nat \cup {NoAccount}]
        /\ balance[a] # NoAccount
    BY DEF Stored, StartInv, StartTypeOK
  <1>2. n # NoAccount
    BY StartAssumption
  <1>3. balance' \in [SeedAccounts -> Nat \cup {NoAccount}]
    BY <1>1
  <1>4. balance'[a] = n /\ \A b \in SeedAccounts \ {a} : balance'[b] = balance[b]
    BY <1>1
  <1>5. \A b \in SeedAccounts : balance'[b] # NoAccount <=> balance[b] # NoAccount
    BY <1>1, <1>2, <1>4
  <1>6. Stored' = Stored
    BY <1>5 DEF Stored
  <1> QED
    BY <1>3, <1>4, <1>6 DEF StartInv, StartTypeOK, SeedInv

\* The debit is refused, or writes what was read less the amount.
LEMMA DebitIs ==
  ASSUME DemoInv, NEW p \in Packets, DebitSender(p)
  PROVE  /\ Sender[p] \in Stored /\ Receiver[p] \in Stored /\ Sender[p] # Receiver[p]
         /\ p \notin debited
         /\ UNCHANGED <<stage, batch, cut, faults, view, credited, contended>>
         /\ \/ UNCHANGED <<balance, version, debited>> /\ at' = [at EXCEPT ![p] = "ended"]
            \/ \E from \in NewSenderBalances(view[p].sender, Amount[p]) :
                  /\ from \in Nat
                  /\ balance' = [balance EXCEPT ![Sender[p]] = from]
                  /\ version' = [version EXCEPT ![Sender[p]] = @ + 1]
                  /\ debited' = debited \cup {p}
                  /\ at' = [at EXCEPT ![p] = "credit"]
  <1>1. at[p] = "debit"
    BY DEF DebitSender
  <1>2. /\ Sender[p] \in Stored /\ Receiver[p] \in Stored /\ Sender[p] # Receiver[p]
        /\ p \notin debited /\ ~ExceedsBalance(view[p].sender, Amount[p])
    BY <1>1, DemoAssumption DEF DemoInv, Progress, Awaits
  <1>3. view[p].sender \in Nat /\ Amount[p] \in Nat
    BY DemoAssumption DEF DemoInv, SettleTypeOK
  <1>4. \A from \in NewSenderBalances(view[p].sender, Amount[p]) : from \in Nat
    BY <1>2, <1>3, CoveredDebit
  <1>5. UNCHANGED <<stage, batch, cut, faults, view, credited, contended>>
    BY DEF DebitSender
  <1>6. CASE version[Sender[p]] # view[p].version
    BY <1>2, <1>5, <1>6 DEF DebitSender, Goto
  <1>7. CASE version[Sender[p]] = view[p].version
    <2>1. /\ version' = [version EXCEPT ![Sender[p]] = @ + 1]
          /\ debited' = debited \cup {p} /\ at' = [at EXCEPT ![p] = "credit"]
      BY <1>7 DEF DebitSender, Goto
    <2>2. PICK from \in NewSenderBalances(view[p].sender, Amount[p]) :
              balance' = [balance EXCEPT ![Sender[p]] = from]
      BY <1>7 DEF DebitSender
    <2>3. from \in Nat
      BY <1>4
    <2> QED
      BY <1>2, <1>5, <2>1, <2>2, <2>3
  <1> QED
    BY <1>6, <1>7

LEMMA CreditIs ==
  ASSUME DemoInv, NEW p \in Packets, CreditReceiver(p)
  PROVE  /\ Sender[p] \in Stored /\ Receiver[p] \in Stored /\ Sender[p] # Receiver[p]
         /\ p \in debited /\ p \notin credited
         /\ UNCHANGED <<stage, batch, cut, faults, version, view, debited, contended>>
         /\ credited' = credited \cup {p} /\ at' = [at EXCEPT ![p] = "save"]
         /\ \E to \in NewReceiverBalances(view[p].receiver, Amount[p]) :
               to \in Nat /\ balance' = [balance EXCEPT ![Receiver[p]] = to]
  <1>1. at[p] = "credit"
    BY DEF CreditReceiver
  <1>2. /\ Sender[p] \in Stored /\ Receiver[p] \in Stored /\ Sender[p] # Receiver[p]
        /\ p \in debited /\ p \notin credited
    BY <1>1, DemoAssumption DEF DemoInv, Progress, Awaits
  <1>3. view[p].receiver \in Nat /\ Amount[p] \in Nat
    BY DemoAssumption DEF DemoInv, SettleTypeOK
  <1>4. \A to \in NewReceiverBalances(view[p].receiver, Amount[p]) : to \in Nat
    BY <1>3, CreditStaysPositive
  <1> QED
    BY <1>2, <1>4 DEF CreditReceiver, Goto

\* Whoever has an account keeps it.
LEMMA AccountsStay ==
  ASSUME DemoInv, [DemoNext]_demoVars
  PROVE  Stored \subseteq Stored'
  <1>1. /\ balance \in [SeedAccounts -> Nat \cup {NoAccount}] /\ NoAccount \notin Int
        /\ StartInv
    BY StartAssumption DEF DemoInv, StartInv, StartTypeOK
  <1>2. UNCHANGED balance => Stored \subseteq Stored'
    BY DEF Stored
  <1>3. ASSUME NEW s \in Servers, InsertNext(s)
        PROVE  Stored \subseteq Stored'
    <2> DEFINE a == SeedOrder[batch[s]]
    <2>1. a \in SeedAccounts
      BY <1>3, SeedOrderIsAList DEF InsertNext, DemoInv, StartInv, StartTypeOK
    <2>2. /\ a \in Stored => UNCHANGED balance
          /\ a \notin Stored => balance' = [balance EXCEPT ![a] = SeedBalance[a]]
      BY <1>3 DEF InsertNext
    <2> HIDE DEF a
    <2>3. \A b \in Stored : b # a /\ a \notin Stored => balance[b] # NoAccount /\ b \in SeedAccounts
      BY DEF Stored
    <2> QED
      BY <1>1, <1>2, <2>1, <2>2, <2>3 DEF Stored
  <1>4. CASE StartingUp
    BY <1>2, <1>3, <1>4
    DEF StartingUp, Launch, StartStep, Connected, CountAccounts, Listen, ConnectFails
  <1>5. CASE Stopping
    BY <1>2, <1>5 DEF Stopping, DatabaseFails, Crash
  <1>6. ASSUME NEW p \in Packets, DebitSender(p)
        PROVE  Stored \subseteq Stored'
    BY <1>1, <1>2, <1>6, DebitIs, WriteKeepsStartInv
  <1>7. ASSUME NEW p \in Packets, CreditReceiver(p)
        PROVE  Stored \subseteq Stored'
    BY <1>1, <1>7, CreditIs, WriteKeepsStartInv
  <1>8. ASSUME NEW p \in Packets,
               Upload(p) \/ ReadSender(p) \/ ReadReceiver(p) \/ Record(p) \/ SettlementFails(p)
        PROVE  UNCHANGED balance
    BY <1>8 DEF Upload, ReadSender, ReadReceiver, Record, SettlementFails, startVars
  <1>9. OnTheMesh \/ UNCHANGED demoVars => UNCHANGED balance
    BY DEF OnTheMesh, demoVars, startVars
  <1> QED
    BY <1>2, <1>4, <1>5, <1>6, <1>7, <1>8, <1>9 DEF DemoNext, SettlementStep

LEMMA DemoStepStartInv ==
  ASSUME DemoInv, [DemoNext]_demoVars
  PROVE  StartInv'
  <1>0. StartInv
    BY DEF DemoInv
  <1>1. ASSUME UNCHANGED startVars
        PROVE  StartInv'
    BY <1>0, <1>1 DEF startVars, StartInv, StartTypeOK, SeedInv, Stored
  <1>2. CASE StartingUp
    BY <1>0, <1>2, StartingKeepsInv DEF StartingUp
  <1>3. CASE Stopping
    BY <1>0, <1>3, FaultsKeepInv DEF Stopping
  <1>4. CASE OnTheMesh \/ UNCHANGED demoVars
    BY <1>1, <1>4 DEF OnTheMesh, demoVars
  <1>5. ASSUME NEW p \in Packets, Upload(p) \/ ReadSender(p) \/ ReadReceiver(p) \/ Record(p)
        PROVE  StartInv'
    BY <1>1, <1>5 DEF Upload, ReadSender, ReadReceiver, Record
  <1>6. ASSUME NEW p \in Packets, DebitSender(p)
        PROVE  StartInv'
    <2>1. UNCHANGED <<stage, batch, cut, faults>> /\ Sender[p] \in Stored
      BY <1>6, DebitIs
    <2>2. CASE UNCHANGED balance
      BY <1>1, <2>1, <2>2 DEF startVars
    <2>3. CASE \E from \in Nat : balance' = [balance EXCEPT ![Sender[p]] = from]
      BY <1>0, <2>1, <2>3, WriteKeepsStartInv
    <2> QED
      BY <1>6, <2>2, <2>3, DebitIs
  <1>7. ASSUME NEW p \in Packets, CreditReceiver(p)
        PROVE  StartInv'
    BY <1>0, <1>7, CreditIs, WriteKeepsStartInv
  <1>8. ASSUME NEW p \in Packets, SettlementFails(p)
        PROVE  StartInv'
    <2>1. faults' \in 0 .. MaxFaults
      BY <1>0, <1>8, StartAssumption DEF SettlementFails, StartInv, StartTypeOK
    <2> QED
      BY <1>0, <1>8, <2>1 DEF SettlementFails, StartInv, StartTypeOK, SeedInv, Stored
  <1> QED
    BY <1>2, <1>3, <1>4, <1>5, <1>6, <1>7, <1>8 DEF DemoNext, SettlementStep

LEMMA DemoInitInv == DemoInit => DemoInv
  <1> SUFFICES ASSUME DemoInit PROVE DemoInv
    OBVIOUS
  <1>1. StartInv /\ MeshInv
    BY StartInitInv, MeshInitInv DEF DemoInit
  <1>2. SettleTypeOK
    BY DEF DemoInit, SettleTypeOK
  <1>3. Progress
    BY DEF DemoInit, Progress, Awaits
  <1> QED
    BY <1>1, <1>2, <1>3 DEF DemoInv

LEMMA DemoStepProgress ==
  ASSUME DemoInv, [DemoNext]_demoVars
  PROVE  SettleTypeOK' /\ Progress'
  <1>1. Stored \subseteq Stored' /\ Stored \subseteq SeedAccounts
    BY AccountsStay DEF Stored
  <1>2. \A p \in Packets : sentTtl[p] # Absent => sentTtl'[p] # Absent
    <2>1. ASSUME NEW q \in Packets, NEW d \in Devices, NEW ttl \in InitialTtls, inject(q, d, ttl)
          PROVE  \A p \in Packets : sentTtl[p] # Absent => sentTtl'[p] # Absent
      BY <2>1 DEF inject, DemoInv, MeshInv, MeshTypeOK
    <2>2. CASE gossipOnce \/ resetMesh \/ UNCHANGED meshVars
      BY <2>2 DEF gossipOnce, resetMesh, meshVars
    <2> QED
      BY <2>1, <2>2, DemoStepIsMeshStep DEF MeshNext
  <1>3. SettleTypeOK /\ Progress
    BY DEF DemoInv
  <1>4. ASSUME UNCHANGED settleVars
        PROVE  SettleTypeOK' /\ Progress'
    <2>1. SettleTypeOK'
      BY <1>2, <1>3, <1>4 DEF settleVars, SettleTypeOK
    <2>2. Progress'
      BY <1>1, <1>3, <1>4 DEF settleVars, Progress
    <2> QED
      BY <2>1, <2>2
  <1>5. CASE ProcessDies
    <2>1. /\ at' = [p \in Packets |-> IF at[p] \in Awaits THEN "ended" ELSE at[p]]
          /\ UNCHANGED <<version, view, debited, credited>>
      BY <1>5 DEF ProcessDies, InHand
    <2>2. SettleTypeOK'
      BY <1>2, <1>3, <2>1 DEF SettleTypeOK, Awaits
    <2>3. Progress'
      BY <1>1, <1>3, <2>1 DEF Progress, Awaits
    <2> QED
      BY <2>2, <2>3
  <1>6. ASSUME NEW p \in Packets, NEW label, at' = [at EXCEPT ![p] = label],
               UNCHANGED <<version, view, debited, credited>>,
               label \in Awaits \cup {"settled", "rejected", "ended"}, sentTtl[p] # Absent
        PROVE  SettleTypeOK'
    BY <1>2, <1>3, <1>6 DEF SettleTypeOK
  <1>s. ASSUME NEW p \in Packets, at[p] # "none"
        PROVE  sentTtl[p] # Absent
    BY <1>3, <1>s DEF SettleTypeOK
  <1>7. ASSUME NEW p \in Packets, Upload(p)
        PROVE  SettleTypeOK' /\ Progress'
    <2>1. sentTtl[p] # Absent
      <3>1. PICK u \in HasInternet \X Packets : holds(u[1], u[2]) /\ u[2] = p
        BY <1>7 DEF Upload, collectBridgeUploads
      <3>2. u[1] \in Devices
        BY <3>1, MeshAssumption DEF Devices
      <3> QED
        BY <3>1, <3>2 DEF DemoInv, MeshInv, MeshTypeOK
    <2>2. /\ at[p] = "none" /\ at' = [at EXCEPT ![p] = "sender"]
          /\ UNCHANGED <<version, view, debited, credited>>
      BY <1>7 DEF Upload, Goto
    <2>3. SettleTypeOK'
      BY <1>6, <2>1, <2>2 DEF Awaits
    <2>4. Progress'
      BY <1>1, <1>3, <2>2 DEF Progress, Awaits, SettleTypeOK
    <2> QED
      BY <2>3, <2>4
  <1>8. ASSUME NEW p \in Packets, ReadSender(p)
        PROVE  SettleTypeOK' /\ Progress'
    <2>1. at[p] = "sender" /\ UNCHANGED <<version, debited, credited>> /\ sentTtl[p] # Absent
      BY <1>8, <1>s DEF ReadSender
    <2>2. CASE Sender[p] \in Stored
      <3>1. /\ at' = [at EXCEPT ![p] = "receiver"]
            /\ view' = [view EXCEPT ![p].sender = balance[Sender[p]],
                                    ![p].version = version[Sender[p]]]
        BY <1>8, <2>2 DEF ReadSender, Goto
      <3>2. balance[Sender[p]] \in Nat /\ version[Sender[p]] \in Nat
        BY <1>3, <2>2, StoredHaveBalances DEF DemoInv, SettleTypeOK
      <3>3. view' \in [Packets -> [sender : Nat, version : Nat, receiver : Nat]]
        BY <1>3, <3>1, <3>2 DEF SettleTypeOK
      <3>4. \A q \in Packets \ {p} : view'[q] = view[q] /\ at'[q] = at[q]
        BY <1>3, <3>1 DEF SettleTypeOK
      <3>5. SettleTypeOK'
        BY <1>2, <1>3, <2>1, <3>1, <3>3 DEF SettleTypeOK, Awaits
      <3>6. at'[p] = "receiver"
        BY <1>3, <3>1 DEF SettleTypeOK
      <3>7. Progress'
        BY <1>1, <1>3, <2>1, <2>2, <3>4, <3>6 DEF Progress, Awaits
      <3> QED
        BY <3>5, <3>7
    <2>3. CASE Sender[p] \notin Stored
      <3>1. at' = [at EXCEPT ![p] = "ended"] /\ UNCHANGED view
        BY <1>8, <2>3 DEF ReadSender, Goto
      <3>2. SettleTypeOK'
        BY <1>6, <2>1, <3>1
      <3>3. Progress'
        BY <1>1, <1>3, <2>1, <3>1 DEF Progress, Awaits, SettleTypeOK
      <3> QED
        BY <3>2, <3>3
    <2> QED
      BY <2>2, <2>3
  <1>9. ASSUME NEW p \in Packets, ReadReceiver(p)
        PROVE  SettleTypeOK' /\ Progress'
    <2>1. at[p] = "receiver" /\ UNCHANGED <<version, debited, credited>> /\ sentTtl[p] # Absent
      BY <1>9, <1>s DEF ReadReceiver
    <2>2. CASE Receiver[p] \in Stored
      <3>1. /\ at' = [at EXCEPT ![p] = IF ExceedsBalance(view[p].sender, Amount[p])
                                       THEN "reject" ELSE "debit"]
            /\ view' = [view EXCEPT ![p].receiver = balance[Receiver[p]]]
        BY <1>9, <2>2 DEF ReadReceiver, Goto
      <3>2. balance[Receiver[p]] \in Nat
        BY <2>2, StoredHaveBalances DEF DemoInv
      <3>3. view' \in [Packets -> [sender : Nat, version : Nat, receiver : Nat]]
        BY <1>3, <3>1, <3>2 DEF SettleTypeOK
      <3>4. /\ \A q \in Packets \ {p} : view'[q] = view[q] /\ at'[q] = at[q]
            /\ view'[p].sender = view[p].sender
        BY <1>3, <3>1 DEF SettleTypeOK
      <3>5. SettleTypeOK'
        BY <1>2, <1>3, <2>1, <3>1, <3>3 DEF SettleTypeOK, Awaits
      <3>6. at'[p] = IF ExceedsBalance(view[p].sender, Amount[p]) THEN "reject" ELSE "debit"
        BY <1>3, <3>1 DEF SettleTypeOK
      <3>7. Progress'
        BY <1>1, <1>3, <2>1, <2>2, <3>4, <3>6 DEF Progress, Awaits
      <3> QED
        BY <3>5, <3>7
    <2>3. CASE Receiver[p] \notin Stored
      <3>1. at' = [at EXCEPT ![p] = "ended"] /\ UNCHANGED view
        BY <1>9, <2>3 DEF ReadReceiver, Goto
      <3>2. SettleTypeOK'
        BY <1>6, <2>1, <3>1
      <3>3. Progress'
        BY <1>1, <1>3, <2>1, <3>1 DEF Progress, Awaits, SettleTypeOK
      <3> QED
        BY <3>2, <3>3
    <2> QED
      BY <2>2, <2>3
  <1>10. ASSUME NEW p \in Packets, DebitSender(p)
         PROVE  SettleTypeOK' /\ Progress'
    <2>1. at[p] = "debit" /\ UNCHANGED <<view, credited>> /\ sentTtl[p] # Absent
      BY <1>10, <1>s DEF DebitSender
    <2>2. CASE UNCHANGED <<version, debited>> /\ at' = [at EXCEPT ![p] = "ended"]
      <3>1. SettleTypeOK'
        BY <1>6, <2>1, <2>2
      <3>2. Progress'
        BY <1>1, <1>3, <2>1, <2>2 DEF Progress, Awaits, SettleTypeOK
      <3> QED
        BY <3>1, <3>2
    <2>3. CASE /\ version' = [version EXCEPT ![Sender[p]] = @ + 1]
               /\ debited' = debited \cup {p} /\ at' = [at EXCEPT ![p] = "credit"]
      <3>0. Sender[p] \in SeedAccounts
        BY <1>1, <1>10, DebitIs
      <3>1. version' \in [SeedAccounts -> Nat]
        BY <1>3, <2>3, <3>0 DEF SettleTypeOK
      <3>2. SettleTypeOK'
        BY <1>2, <1>3, <2>1, <2>3, <3>1 DEF SettleTypeOK, Awaits
      <3>3. Progress'
        BY <1>1, <1>3, <2>1, <2>3 DEF Progress, Awaits, SettleTypeOK
      <3> QED
        BY <3>2, <3>3
    <2> QED
      BY <1>10, <2>2, <2>3, DebitIs
  <1>11. ASSUME NEW p \in Packets, CreditReceiver(p)
         PROVE  SettleTypeOK' /\ Progress'
    <2>1. /\ at[p] = "credit" /\ UNCHANGED <<version, view, debited>> /\ sentTtl[p] # Absent
          /\ p \in debited /\ credited' = credited \cup {p} /\ at' = [at EXCEPT ![p] = "save"]
      BY <1>11, <1>s, CreditIs DEF CreditReceiver
    <2>2. SettleTypeOK'
      BY <1>2, <1>3, <2>1 DEF SettleTypeOK, Awaits
    <2>3. Progress'
      BY <1>1, <1>3, <2>1 DEF Progress, Awaits, SettleTypeOK
    <2> QED
      BY <2>2, <2>3
  <1>12. ASSUME NEW p \in Packets, Record(p) \/ SettlementFails(p)
         PROVE  SettleTypeOK' /\ Progress'
    <2>1. /\ UNCHANGED <<version, view, debited, credited>>
          /\ \/ at[p] = "save" /\ at' = [at EXCEPT ![p] = "settled"]
             \/ at[p] = "reject" /\ at' = [at EXCEPT ![p] = "rejected"]
             \/ at[p] \in Awaits /\ at' = [at EXCEPT ![p] = "ended"]
      BY <1>12 DEF Record, SettlementFails, Goto, InHand
    <2>2. sentTtl[p] # Absent
      BY <1>s, <2>1 DEF Awaits
    <2>3. SettleTypeOK'
      BY <1>6, <2>1, <2>2
    <2>4. Progress'
      BY <1>1, <1>3, <2>1 DEF Progress, Awaits, SettleTypeOK
    <2> QED
      BY <2>3, <2>4
  <1>13. StartingUp \/ OnTheMesh \/ UNCHANGED demoVars => UNCHANGED settleVars
    BY DEF StartingUp, OnTheMesh, demoVars
  <1>14. Stopping => ProcessDies \/ UNCHANGED settleVars
    BY DEF Stopping
  <1> QED
    BY <1>4, <1>5, <1>7, <1>8, <1>9, <1>10, <1>11, <1>12, <1>13, <1>14 DEF DemoNext, SettlementStep

LEMMA DemoStepInv == DemoInv /\ [DemoNext]_demoVars => DemoInv'
  BY DemoStepIsMeshStep, MeshStepInv, DemoStepStartInv, DemoStepProgress DEF DemoInv

LEMMA DemoInvariant == DemoSpec => []DemoInv
  BY DemoInitInv, DemoStepInv, PTL DEF DemoSpec

(* Every variable of the server and its mesh keeps its type.               *)
THEOREM DemoTypeCorrect == DemoSpec => []DemoTypeOK
  <1>1. DemoInv => DemoTypeOK
    BY DEF DemoInv, DemoTypeOK, SettleTypeOK, StartInv, MeshInv
  <1> QED
    BY <1>1, DemoInvariant, PTL

(* Whoever starts, dies or seeds in between, a server that listens finds   *)
(* every account, except after MongoDB failed in the middle of a batch or  *)
(* while another batch is on its way (demoService.js, seedAccounts).       *)
THEOREM ServedAccounts == DemoSpec => []ServedAccountsAreComplete
  <1>1. DemoInv => ServedAccountsAreComplete
    <2> SUFFICES ASSUME DemoInv, NEW s \in Servers, stage[s] = "listening",
                        ~cut, Stored # SeedAccounts
                 PROVE  \E t \in Servers \ Listening : batch[t] # 0
      BY DEF ServedAccountsAreComplete, Listening
    <2>1. PICK t \in Servers : batch[t] > 1
      BY DEF DemoInv, StartInv, SeedInv
    <2>2. batch[t] # 0 /\ stage[t] # "listening"
      BY <2>1 DEF DemoInv, StartInv, StartTypeOK
    <2> QED
      BY <2>2 DEF Listening
  <1> QED
    BY <1>1, DemoInvariant, PTL

(* No payment, however its debit is rounded, whatever settles, crashes or  *)
(* fails between its steps, takes an account below zero                    *)
(* (settlementService.js, lines 77 to 109).                                *)
THEOREM NeverBelowZero == DemoSpec => []NoBalanceBelowZero
  <1>1. DemoInv => NoBalanceBelowZero
    <2> SUFFICES ASSUME DemoInv, NEW a \in Stored PROVE balance[a] >= 0
      BY DEF NoBalanceBelowZero
    <2>1. balance[a] \in Nat
      BY DEF Stored, DemoInv, StartInv, StartTypeOK
    <2> QED
      BY <2>1
  <1> QED
    BY <1>1, DemoInvariant, PTL

(* In the memory of servers that come and go, too, every copy has paid for *)
(* its hops and the hop count of a packet sent with the default ttl is the *)
(* number of phones it came through (meshService.js, gossipOnce).          *)
THEOREM ServedHopsArePaid == DemoSpec => [](TtlPaysForHops /\ HopCountIsDistance)
  BY DemoImplementsMesh, EveryHopIsPaid, HopCountIsTrue, PTL

-----------------------------------------------------------------------------
(* The books of the server. *)

LEMMA SeedAccountsAreFinite == IsFiniteSet(SeedAccounts)
  <1>1. SeedOrder \in [1 .. Len(SeedOrder) -> SeedAccounts]
    BY StartAssumption
  <1>2. \A a \in SeedAccounts : \E i \in 1 .. Len(SeedOrder) : SeedOrder[i] = a
    BY <1>1 DEF SeedAccounts
  <1>3. SeedOrder \in Surjection(1 .. Len(SeedOrder), SeedAccounts)
    BY <1>1, <1>2 DEF Surjection
  <1>4. IsFiniteSet(1 .. Len(SeedOrder))
    BY SeedOrderIsAList, FS_Interval
  <1> QED
    BY <1>3, <1>4, FS_Surjection

LEMMA SumOverIsSumBy == \A w, S : SumOver(w, S) = SumBy(w, S)
  BY Zenon DEF SumOver, SumBy

LEMMA SumOfIsSumBy == \A S : SumOf(S) = SumBy(Amount, S)
  BY SumOverIsSumBy DEF SumOf

\* An account owes its balance to the payments in Involving(a).
Involving(a) == PaidBy(a) \cup PaidTo(a)

LEMMA PaymentsAreCounted ==
  ASSUME DemoInv, NEW a
  PROVE  /\ IsFiniteSet(PaidBy(a)) /\ IsFiniteSet(PaidTo(a)) /\ IsFiniteSet(Involving(a))
         /\ Cardinality(Involving(a)) \in Nat
         /\ SumOf(PaidBy(a)) \in Int /\ SumOf(PaidTo(a)) \in Int
  <1>1. PaidBy(a) \subseteq Packets /\ PaidTo(a) \subseteq Packets
    BY DEF PaidBy, PaidTo, DemoInv, SettleTypeOK
  <1>2. Involving(a) \subseteq Packets
    BY <1>1 DEF Involving
  <1>3. IsFiniteSet(PaidBy(a)) /\ IsFiniteSet(PaidTo(a)) /\ IsFiniteSet(Involving(a))
    BY <1>1, <1>2, DemoAssumption, FS_Subset
  <1>4. \A p \in Packets : Amount[p] \in Int
    BY DemoAssumption
  <1>5. SumBy(Amount, PaidBy(a)) \in Int /\ SumBy(Amount, PaidTo(a)) \in Int
    BY <1>1, <1>3, <1>4, SumByRecursion
  <1> QED
    BY <1>3, <1>5, SumOfIsSumBy, FS_CardinalityType

\* e stands for the balance without rounding, n for the payments so far.
InHalves(b, e, n) == 2 * (b * 10 - e) \in -(10 * n) .. 10 * n

LEMMA BookedInHalves ==
  BalancesAreBooked <=>
    \A a \in Stored \ contended :
        InHalves(balance[a], ExactBalance(a), Cardinality(Involving(a)))
  BY DEF BalancesAreBooked, InHalves, Involving, Grain

LEMMA RoundedDebit ==
  ASSUME NEW b \in Int, NEW e \in Int, NEW n \in Nat, NEW amount \in Int,
         InHalves(b, e, n), NEW from \in NewSenderBalances(b, amount)
  PROVE  InHalves(from, e - amount, n + 1)
  <1>1. from \in Int /\ 2 * ((b * 10 - amount) - from * 10) \in -10 .. 10
    BY ToFixedIsNearest DEF NewSenderBalances, Grain
  <1> QED
    BY <1>1 DEF InHalves

LEMMA RoundedCredit ==
  ASSUME NEW b \in Int, NEW e \in Int, NEW n \in Nat, NEW amount \in Int,
         InHalves(b, e, n), NEW to \in NewReceiverBalances(b, amount)
  PROVE  InHalves(to, e + amount, n + 1)
  <1>1. to \in Int /\ 2 * ((b * 10 + amount) - to * 10) \in -10 .. 10
    BY ToFixedIsNearest DEF NewReceiverBalances, Grain
  <1> QED
    BY <1>1 DEF InHalves

(* What a debit takes and a credit gives is the amount in whole paise, or  *)
(* a paisa less where it lies half way between two.                        *)
LEMMA TakenAndGiven ==
  ASSUME NEW b \in Nat, NEW p \in Packets
  PROVE  /\ Whole[p] \in Int
         /\ \A from \in NewSenderBalances(b, Amount[p]) :
               from - b + Whole[p] \in 0 .. (IF IsHalfway(Amount[p]) THEN 1 ELSE 0)
         /\ \A to \in NewReceiverBalances(b, Amount[p]) :
               to - b - Whole[p] \in (IF IsHalfway(Amount[p]) THEN -1 ELSE 0) .. 0
  <1> DEFINE n == Amount[p]
             q == n \div 10
             r == n % 10
             w == Whole[p]
  <1>0. n \in Nat
    BY DemoAssumption
  <1>1. q \in Int /\ r \in 0 .. 9 /\ n = 10 * q + r
    BY <1>0
  <1>2. w = (n + 5) \div 10
    <2>1. 10 \div 2 = 5
      OBVIOUS
    <2> QED
      BY <2>1 DEF Whole, Grain
  <1>3. IsHalfway(n) <=> r = 5
    BY <1>1 DEF IsHalfway, Grain
  <1>4. w = IF r < 5 THEN q ELSE q + 1
    <2>1. 10 * ((n + 5) \div 10) <= n + 5 /\ n + 5 < 10 * ((n + 5) \div 10) + 10
      BY <1>0
    <2>2. w \in Int /\ 10 * w <= n + 5 /\ n + 5 < 10 * w + 10
      BY <1>0, <1>2, <2>1
    <2> HIDE DEF n, q, r, w
    <2> QED
      BY <1>1, <2>2
  <1>5. ASSUME NEW from \in NewSenderBalances(b, n)
        PROVE  from \in Int /\ 2 * ((b * 10 - n) - from * 10) \in -10 .. 10
    BY <1>0, <1>5, ToFixedIsNearest DEF NewSenderBalances, Grain
  <1>6. ASSUME NEW to \in NewReceiverBalances(b, n)
        PROVE  to \in Int /\ 2 * ((b * 10 + n) - to * 10) \in -10 .. 10
    BY <1>0, <1>6, ToFixedIsNearest DEF NewReceiverBalances, Grain
  <1> HIDE DEF n, q, r, w
  <1>7. ASSUME NEW from \in NewSenderBalances(b, n)
        PROVE  from - b + w \in 0 .. (IF IsHalfway(n) THEN 1 ELSE 0)
    BY <1>1, <1>3, <1>4, <1>5, <1>7
  <1>8. ASSUME NEW to \in NewReceiverBalances(b, n)
        PROVE  to - b - w \in (IF IsHalfway(n) THEN -1 ELSE 0) .. 0
    BY <1>1, <1>3, <1>4, <1>6, <1>8
  <1> QED
    BY <1>1, <1>4, <1>7, <1>8 DEF n, w

-----------------------------------------------------------------------------
(* Two settlements in hand meet in contended accounts only, so whatever    *)
(* else is written, a settlement still stands by what it has read.         *)
ViewsHold ==
    /\ \A p, q \in InHand : p # q => Parties(p) \cap Parties(q) \subseteq contended
    /\ \A p \in Packets :
          /\ at[p] \in {"receiver", "debit"} /\ Sender[p] \notin contended =>
                view[p].sender = balance[Sender[p]]
          /\ at[p] \in {"debit", "credit"} /\ Receiver[p] \notin contended =>
                view[p].receiver = balance[Receiver[p]]

LEMMA ConservedInSums ==
  /\ MoneyIsConserved <=>
       (contended = {} =>
          SumBy(Gain, Stored) + SumBy(Whole, OnTheWay) \in
              -Cardinality(Doubtful(credited)) .. Cardinality(Doubtful(debited)))
  /\ MoneyIsConserved' <=>
       (contended' = {} =>
          SumBy(Gain', Stored') + SumBy(Whole, OnTheWay') \in
              -Cardinality(Doubtful(credited)') .. Cardinality(Doubtful(debited)'))
  BY SumOverIsSumBy DEF MoneyIsConserved, Whole

\* The books of the server: what they say is shown of both at once.
Books == ViewsHold /\ BalancesAreBooked /\ MoneyIsConserved

LEMMA FiniteBooks ==
  ASSUME DemoInv
  PROVE  /\ IsFiniteSet(Stored) /\ IsFiniteSet(debited) /\ IsFiniteSet(credited)
         /\ IsFiniteSet(OnTheWay) /\ \A p \in Packets : Whole[p] \in Int
         /\ IsFiniteSet(Doubtful(debited)) /\ Cardinality(Doubtful(debited)) \in Nat
         /\ IsFiniteSet(Doubtful(credited)) /\ Cardinality(Doubtful(credited)) \in Nat
         /\ \A a \in Stored : SeedBalance[a] \in Int /\ balance[a] \in Int /\ Gain[a] \in Int
         /\ SumBy(Gain, Stored) \in Int /\ SumBy(Whole, OnTheWay) \in Int
  <1>1. IsFiniteSet(Stored)
    BY SeedAccountsAreFinite, FS_Subset DEF Stored
  <1>2. debited \subseteq Packets /\ credited \subseteq Packets /\ OnTheWay \subseteq Packets
    BY DEF DemoInv, SettleTypeOK, OnTheWay
  <1>3. Doubtful(debited) \subseteq Packets /\ Doubtful(credited) \subseteq Packets
    BY <1>2 DEF Doubtful
  <1>4. /\ IsFiniteSet(debited) /\ IsFiniteSet(credited) /\ IsFiniteSet(OnTheWay)
        /\ IsFiniteSet(Doubtful(debited)) /\ IsFiniteSet(Doubtful(credited))
    BY <1>2, <1>3, DemoAssumption, FS_Subset
  <1>5. \A p \in Packets : Whole[p] \in Int
    BY TakenAndGiven
  <1>6. \A a \in Stored : SeedBalance[a] \in Int /\ balance[a] \in Int
    BY StartAssumption, StoredHaveBalances DEF DemoInv
  <1>7. \A a \in Stored : Gain[a] \in Int
    BY <1>6 DEF Gain
  <1> QED
    BY <1>1, <1>2, <1>4, <1>5, <1>6, <1>7, FS_CardinalityType, SumByRecursion

\* A write of one balance changes the sum of the gains by as much.
LEMMA GainOfAWrite ==
  ASSUME DemoInv, NEW a \in Stored, NEW n \in Nat, Stored' = Stored,
         balance'[a] = n, \A b \in SeedAccounts \ {a} : balance'[b] = balance[b]
  PROVE  SumBy(Gain', Stored') = SumBy(Gain, Stored) + n - balance[a]
  <1> DEFINE g == Gain
             k == Gain'
  <1>1. /\ IsFiniteSet(Stored) /\ Stored \subseteq SeedAccounts
        /\ \A b \in Stored : SeedBalance[b] \in Int /\ balance[b] \in Int
    BY FiniteBooks DEF Stored
  <1>2. \A b \in Stored : g[b] = balance[b] - SeedBalance[b] /\ k[b] = balance'[b] - SeedBalance[b]
    BY DEF Gain
  <1> HIDE DEF g, k
  <1>3. /\ \A b \in Stored : g[b] \in Int
        /\ k[a] = n - SeedBalance[a] /\ g[a] = balance[a] - SeedBalance[a] /\ k[a] \in Int
    BY <1>1, <1>2
  <1>4. \A b \in Stored \ {a} : k[b] = g[b]
    BY <1>1, <1>2
  <1>5. SumBy(k, Stored) = SumBy(g, Stored) + k[a] - g[a] /\ SumBy(g, Stored) \in Int
    <2>1. /\ IsFiniteSet(Stored) /\ \A b \in Stored : g[b] \in Int
          /\ k[a] \in Int
      BY <1>1, <1>3
    <2>2. SumBy(g, Stored) \in Int
      BY <2>1, SumByRecursion
    <2>3. SumBy(k, Stored) = SumBy(g, Stored) + k[a] - g[a]
      BY <2>1, <1>4, SumByChange
    <2> QED
      BY <2>2, <2>3
  <1>6. SumBy(k, Stored) = SumBy(g, Stored) + n - balance[a]
    BY <1>1, <1>3, <1>5
  <1> QED
    BY <1>6 DEF g, k

\* An account is inserted with its opening balance, and without a payment.
LEMMA InsertKeepsBooks ==
  ASSUME DemoInv, Books, NEW a \in SeedAccounts, a \notin Stored,
         balance' = [balance EXCEPT ![a] = SeedBalance[a]], UNCHANGED settleVars
  PROVE  Books'
  <1>1. /\ SeedBalance[a] \in Nat /\ SeedBalance[a] # NoAccount
        /\ balance \in [SeedAccounts -> Nat \cup {NoAccount}]
    <2>1. SeedBalance[a] \in Nat /\ NoAccount \notin Int
      BY StartAssumption
    <2> QED
      BY <2>1, StoredHaveBalances DEF DemoInv
  <1>2. /\ Stored' = Stored \cup {a}
        /\ balance'[a] = SeedBalance[a] /\ \A b \in Stored : balance'[b] = balance[b]
    BY <1>1 DEF Stored
  <1>3. /\ UNCHANGED <<at, view, debited, credited, contended>>
        /\ OnTheWay' = OnTheWay /\ Doubtful(debited)' = Doubtful(debited)
        /\ Doubtful(credited)' = Doubtful(credited)
        /\ \A b : /\ PaidBy(b)' = PaidBy(b) /\ PaidTo(b)' = PaidTo(b)
                  /\ Involving(b)' = Involving(b) /\ ExactBalance(b)' = ExactBalance(b)
    BY DEF settleVars, OnTheWay, Doubtful, PaidBy, PaidTo, Involving, ExactBalance
  <1>4. ViewsHold'
    <2>1. \A p \in Packets : /\ at[p] \in {"receiver", "debit"} => Sender[p] \in Stored
                             /\ at[p] \in {"debit", "credit"} => Receiver[p] \in Stored
      BY DEF DemoInv, Progress, Awaits
    <2> QED
      BY <1>2, <1>3, <2>1 DEF Books, ViewsHold, InHand
  <1>5. InHalves(balance'[a], ExactBalance(a), Cardinality(Involving(a)))
    <2>1. PaidBy(a) = {} /\ PaidTo(a) = {} /\ Involving(a) = {}
      BY DEF DemoInv, SettleTypeOK, Progress, PaidBy, PaidTo, Involving
    <2>2. SumOf({}) = 0 /\ Cardinality({}) = 0
      BY SumOfIsSumBy, SumByEmpty, FS_EmptySet
    <2>3. ExactBalance(a) = SeedBalance[a] * 10
      BY <1>1, <2>1, <2>2 DEF ExactBalance, Grain
    <2>4. balance'[a] = SeedBalance[a]
      BY <1>2
    <2> QED
      BY <1>1, <2>1, <2>2, <2>3, <2>4 DEF InHalves
  <1>6. BalancesAreBooked'
    <2>1. \A b \in Stored \ contended :
             InHalves(balance[b], ExactBalance(b), Cardinality(Involving(b)))
      BY BookedInHalves DEF Books
    <2>2. \A b \in Stored' \ contended' :
             InHalves(balance'[b], ExactBalance(b)', Cardinality(Involving(b)'))
      BY <1>2, <1>3, <1>5, <2>1
    <2> QED
      BY <2>2 DEF BalancesAreBooked, InHalves, Involving, Grain
  <1>7. MoneyIsConserved'
    <2>1. IsFiniteSet(Stored)
      BY FiniteBooks
    <2>2. \A b \in Stored' : Gain'[b] \in Int
      BY <1>1, <1>2, StartAssumption, StoredHaveBalances DEF Gain, DemoInv
    <2>3. \A b \in Stored : Gain[b] \in Int /\ Gain'[b] = Gain[b]
      BY <1>2, FiniteBooks DEF Gain
    <2>4. Gain'[a] = 0
      BY <1>1, <1>2 DEF Gain
    <2>5. SumBy(Gain', Stored \cup {a}) = SumBy(Gain', Stored) + Gain'[a]
      BY <1>2, <2>1, <2>2, SumByAdd
    <2>6. SumBy(Gain', Stored) = SumBy(Gain, Stored)
      BY <2>1, <2>3, SumBySame
    <2>7. SumBy(Gain, Stored) \in Int
      BY <2>1, <2>3, SumByRecursion
    <2>8. SumBy(Gain', Stored') = SumBy(Gain, Stored)
      BY <1>2, <2>4, <2>5, <2>6, <2>7
    <2> QED
      BY <1>3, <2>8, ConservedInSums DEF Books
  <1> QED
    BY <1>4, <1>6, <1>7 DEF Books

\* A debit by the amount to half a paisa, of what the account still has.
LEMMA DebitKeepsBooks ==
  ASSUME DemoInv, Books, NEW p \in Packets, DebitSender(p), at'[p] = "credit"
  PROVE  BalancesAreBooked' /\ MoneyIsConserved'
  <1> DEFINE s == Sender[p]
             n == Amount[p]
  <1>1. /\ s \in Stored /\ p \notin debited /\ p \notin credited
        /\ UNCHANGED <<stage, batch, cut, faults, credited, contended>>
        /\ at[p] = "debit" /\ n \in Nat
    BY DebitIs, DemoAssumption DEF DebitSender, DemoInv, SettleTypeOK
  <1>2. PICK from \in NewSenderBalances(view[p].sender, n) :
            from \in Nat /\ balance' = [balance EXCEPT ![s] = from] /\ debited' = debited \cup {p}
    BY <1>1, DebitIs DEF DemoInv, SettleTypeOK
  <1>3. /\ Stored' = Stored /\ Stored \subseteq SeedAccounts /\ balance'[s] = from
        /\ \A a \in SeedAccounts \ {s} : balance'[a] = balance[a]
    BY <1>1, <1>2, WriteKeepsStartInv DEF DemoInv, Stored
  <1>4. s \notin contended => view[p].sender = balance[s]
    BY <1>1 DEF Books, ViewsHold
  <1>5. BalancesAreBooked'
    <2>1. \A a \in Stored \ contended :
             InHalves(balance[a], ExactBalance(a), Cardinality(Involving(a)))
      BY BookedInHalves DEF Books
    <2>2. ASSUME NEW a \in Stored, a # s
          PROVE  /\ balance'[a] = balance[a] /\ ExactBalance(a)' = ExactBalance(a)
                 /\ Involving(a)' = Involving(a)
      <3>1. PaidBy(a)' = PaidBy(a) /\ PaidTo(a)' = PaidTo(a)
        BY <1>1, <1>2, <2>2 DEF PaidBy, PaidTo
      <3> QED
        BY <1>3, <2>2, <3>1 DEF ExactBalance, Involving
    <2>3. ASSUME s \notin contended
          PROVE  InHalves(balance'[s], ExactBalance(s)', Cardinality(Involving(s)'))
      <3> DEFINE paid == SumOf(PaidBy(s))
                 got == SumOf(PaidTo(s))
                 seed == SeedBalance[s]
      <3>1. PaidBy(s)' = PaidBy(s) \cup {p} /\ PaidTo(s)' = PaidTo(s)
        BY <1>1, <1>2 DEF PaidBy, PaidTo
      <3>2. /\ p \notin PaidBy(s) /\ p \notin Involving(s)
            /\ Involving(s)' = Involving(s) \cup {p}
        BY <1>1, <3>1 DEF Involving, PaidBy, PaidTo
      <3>3. /\ IsFiniteSet(PaidBy(s)) /\ PaidBy(s) \subseteq Packets
            /\ IsFiniteSet(Involving(s)) /\ Cardinality(Involving(s)) \in Nat
            /\ paid \in Int /\ got \in Int /\ seed \in Int /\ balance[s] \in Int
        BY <1>1, PaymentsAreCounted, FiniteBooks DEF PaidBy, DemoInv, SettleTypeOK
      <3>4. SumOf(PaidBy(s) \cup {p}) = paid + n
        <4>1. \A q \in Packets : Amount[q] \in Int
          BY DemoAssumption
        <4> QED
          BY <3>2, <3>3, <4>1, SumByAdd, SumOfIsSumBy
      <3>5. Cardinality(Involving(s)') = Cardinality(Involving(s)) + 1
        BY <3>2, <3>3, FS_AddElement
      <3>6. /\ ExactBalance(s) = seed * 10 + got - paid
            /\ ExactBalance(s)' = seed * 10 + SumOf(PaidTo(s)') - SumOf(PaidBy(s)')
        BY DEF ExactBalance, Grain
      <3>7. SumOf(PaidBy(s)') = paid + n /\ SumOf(PaidTo(s)') = got
        BY <3>1, <3>4
      <3> HIDE DEF paid, got, seed
      <3>8. ExactBalance(s) \in Int /\ ExactBalance(s)' = ExactBalance(s) - n
        BY <1>1, <3>3, <3>6, <3>7
      <3>9. InHalves(from, ExactBalance(s) - n, Cardinality(Involving(s)) + 1)
        <4>1. InHalves(balance[s], ExactBalance(s), Cardinality(Involving(s)))
          BY <1>1, <2>1, <2>3
        <4>2. from \in NewSenderBalances(balance[s], n)
          BY <1>2, <1>4, <2>3
        <4> QED
          BY <1>1, <3>3, <3>8, <4>1, <4>2, RoundedDebit
      <3> QED
        BY <1>3, <3>5, <3>8, <3>9
    <2>4. \A a \in Stored' \ contended' :
             InHalves(balance'[a], ExactBalance(a)', Cardinality(Involving(a)'))
      BY <1>1, <1>3, <2>1, <2>2, <2>3
    <2> QED
      BY <2>4 DEF BalancesAreBooked, InHalves, Involving, Grain
  <1>6. MoneyIsConserved'
    <2> SUFFICES ASSUME contended = {}
                 PROVE  SumBy(Gain', Stored') + SumBy(Whole, OnTheWay') \in
                            -Cardinality(Doubtful(credited)') .. Cardinality(Doubtful(debited)')
      BY <1>1, ConservedInSums
    <2> DEFINE gain == SumBy(Gain, Stored)
               way == SumBy(Whole, OnTheWay)
               lo == Cardinality(Doubtful(credited))
               hi == Cardinality(Doubtful(debited))
               half == IF IsHalfway(n) THEN 1 ELSE 0
    <2>1. SumBy(Gain', Stored') = gain + from - balance[s]
      BY <1>1, <1>2, <1>3, GainOfAWrite
    <2>2. SumBy(Whole, OnTheWay') = way + Whole[p]
      <3>1. OnTheWay' = OnTheWay \cup {p} /\ p \notin OnTheWay /\ OnTheWay \subseteq Packets
        BY <1>1, <1>2 DEF OnTheWay, DemoInv, SettleTypeOK
      <3> QED
        BY <3>1, FiniteBooks, SumByAdd
    <2>3. Cardinality(Doubtful(debited)') = hi + half
      <3>1. p \notin Doubtful(debited) /\ IsFiniteSet(Doubtful(debited)) /\ hi \in Nat
        BY <1>1, FiniteBooks DEF Doubtful
      <3>2. Doubtful(debited)' = IF IsHalfway(n) THEN Doubtful(debited) \cup {p}
                                 ELSE Doubtful(debited)
        BY <1>2 DEF Doubtful
      <3>3. Cardinality(Doubtful(debited) \cup {p}) = hi + 1
        BY <3>1, FS_AddElement
      <3>4. CASE IsHalfway(n)
        BY <3>2, <3>3, <3>4
      <3>5. CASE ~IsHalfway(n)
        BY <3>1, <3>2, <3>5
      <3> QED
        BY <3>4, <3>5
    <2>4. Cardinality(Doubtful(credited)') = lo
      BY <1>1 DEF Doubtful
    <2>5. from - balance[s] + Whole[p] \in 0 .. half /\ Whole[p] \in Int /\ balance[s] \in Int
      BY <1>1, <1>2, <1>4, FiniteBooks, StoredHaveBalances, TakenAndGiven DEF DemoInv
    <2>6. gain + way \in -lo .. hi
      BY ConservedInSums DEF Books
    <2>7. gain \in Int /\ way \in Int /\ lo \in Nat /\ hi \in Nat /\ half \in {0, 1}
      BY FiniteBooks
    <2> HIDE DEF gain, way, lo, hi, half
    <2> QED
      BY <1>2, <2>1, <2>2, <2>3, <2>4, <2>5, <2>6, <2>7
  <1> QED
    BY <1>5, <1>6

\* A credit of what was debited, to what the account still has.
LEMMA CreditKeepsBooks ==
  ASSUME DemoInv, Books, NEW p \in Packets, CreditReceiver(p)
  PROVE  BalancesAreBooked' /\ MoneyIsConserved'
  <1> DEFINE r == Receiver[p]
             n == Amount[p]
  <1>1. /\ r \in Stored /\ p \in debited /\ p \notin credited
        /\ UNCHANGED <<stage, batch, cut, faults, debited, contended>>
        /\ at[p] = "credit" /\ n \in Nat /\ credited' = credited \cup {p}
    BY CreditIs, DemoAssumption DEF CreditReceiver
  <1>2. PICK to \in NewReceiverBalances(view[p].receiver, n) :
            to \in Nat /\ balance' = [balance EXCEPT ![r] = to]
    BY CreditIs
  <1>3. /\ Stored' = Stored /\ Stored \subseteq SeedAccounts /\ balance'[r] = to
        /\ \A a \in SeedAccounts \ {r} : balance'[a] = balance[a]
    BY <1>1, <1>2, WriteKeepsStartInv DEF DemoInv, Stored
  <1>4. r \notin contended => view[p].receiver = balance[r]
    BY <1>1 DEF Books, ViewsHold
  <1>5. BalancesAreBooked'
    <2>1. \A a \in Stored \ contended :
             InHalves(balance[a], ExactBalance(a), Cardinality(Involving(a)))
      BY BookedInHalves DEF Books
    <2>2. ASSUME NEW a \in Stored, a # r
          PROVE  /\ balance'[a] = balance[a] /\ ExactBalance(a)' = ExactBalance(a)
                 /\ Involving(a)' = Involving(a)
      <3>1. PaidBy(a)' = PaidBy(a) /\ PaidTo(a)' = PaidTo(a)
        BY <1>1, <2>2 DEF PaidBy, PaidTo
      <3> QED
        BY <1>3, <2>2, <3>1 DEF ExactBalance, Involving
    <2>3. ASSUME r \notin contended
          PROVE  InHalves(balance'[r], ExactBalance(r)', Cardinality(Involving(r)'))
      <3> DEFINE paid == SumOf(PaidBy(r))
                 got == SumOf(PaidTo(r))
                 seed == SeedBalance[r]
      <3>1. PaidBy(r)' = PaidBy(r) /\ PaidTo(r)' = PaidTo(r) \cup {p}
        BY <1>1 DEF PaidBy, PaidTo
      <3>2. /\ p \notin PaidTo(r) /\ p \notin Involving(r)
            /\ Involving(r)' = Involving(r) \cup {p}
        BY <1>1, <3>1, CreditIs DEF Involving, PaidBy, PaidTo
      <3>3. /\ IsFiniteSet(PaidTo(r)) /\ PaidTo(r) \subseteq Packets
            /\ IsFiniteSet(Involving(r)) /\ Cardinality(Involving(r)) \in Nat
            /\ paid \in Int /\ got \in Int /\ seed \in Int /\ balance[r] \in Int
        BY <1>1, PaymentsAreCounted, FiniteBooks DEF PaidTo, DemoInv, SettleTypeOK
      <3>4. SumOf(PaidTo(r) \cup {p}) = got + n
        <4>1. \A q \in Packets : Amount[q] \in Int
          BY DemoAssumption
        <4> QED
          BY <3>2, <3>3, <4>1, SumByAdd, SumOfIsSumBy
      <3>5. Cardinality(Involving(r)') = Cardinality(Involving(r)) + 1
        BY <3>2, <3>3, FS_AddElement
      <3>6. /\ ExactBalance(r) = seed * 10 + got - paid
            /\ ExactBalance(r)' = seed * 10 + SumOf(PaidTo(r)') - SumOf(PaidBy(r)')
        BY DEF ExactBalance, Grain
      <3>7. SumOf(PaidTo(r)') = got + n /\ SumOf(PaidBy(r)') = paid
        BY <3>1, <3>4
      <3> HIDE DEF paid, got, seed
      <3>8. ExactBalance(r) \in Int /\ ExactBalance(r)' = ExactBalance(r) + n
        BY <1>1, <3>3, <3>6, <3>7
      <3>9. InHalves(to, ExactBalance(r) + n, Cardinality(Involving(r)) + 1)
        <4>1. InHalves(balance[r], ExactBalance(r), Cardinality(Involving(r)))
          BY <1>1, <2>1, <2>3
        <4>2. to \in NewReceiverBalances(balance[r], n)
          BY <1>2, <1>4, <2>3
        <4> QED
          BY <1>1, <3>3, <3>8, <4>1, <4>2, RoundedCredit
      <3> QED
        BY <1>3, <3>5, <3>8, <3>9
    <2>4. \A a \in Stored' \ contended' :
             InHalves(balance'[a], ExactBalance(a)', Cardinality(Involving(a)'))
      BY <1>1, <1>3, <2>1, <2>2, <2>3
    <2> QED
      BY <2>4 DEF BalancesAreBooked, InHalves, Involving, Grain
  <1>6. MoneyIsConserved'
    <2> SUFFICES ASSUME contended = {}
                 PROVE  SumBy(Gain', Stored') + SumBy(Whole, OnTheWay') \in
                            -Cardinality(Doubtful(credited)') .. Cardinality(Doubtful(debited)')
      BY <1>1, ConservedInSums
    <2> DEFINE gain == SumBy(Gain, Stored)
               way == SumBy(Whole, OnTheWay)
               lo == Cardinality(Doubtful(credited))
               hi == Cardinality(Doubtful(debited))
               half == IF IsHalfway(n) THEN 1 ELSE 0
    <2>1. SumBy(Gain', Stored') = gain + to - balance[r]
      BY <1>1, <1>2, <1>3, GainOfAWrite
    <2>2. way = Whole[p] + SumBy(Whole, OnTheWay') /\ SumBy(Whole, OnTheWay') \in Int
      <3>1. OnTheWay' = OnTheWay \ {p} /\ p \in OnTheWay /\ OnTheWay \subseteq Packets
        BY <1>1 DEF OnTheWay, DemoInv, SettleTypeOK
      <3>2. IsFiniteSet(OnTheWay) /\ \A q \in OnTheWay : Whole[q] \in Int
        BY <3>1, FiniteBooks
      <3>3. IsFiniteSet(OnTheWay \ {p}) /\ \A q \in OnTheWay \ {p} : Whole[q] \in Int
        BY <3>2, FS_RemoveElement
      <3>4. SumBy(Whole, OnTheWay \ {p}) \in Int
        BY <3>3, SumByRecursion
      <3>5. SumBy(Whole, OnTheWay) = Whole[p] + SumBy(Whole, OnTheWay \ {p})
        BY <3>1, <3>2, SumByRemove
      <3> QED
        BY <3>1, <3>4, <3>5
    <2>3. Cardinality(Doubtful(credited)') = lo + half
      <3>1. p \notin Doubtful(credited) /\ IsFiniteSet(Doubtful(credited)) /\ lo \in Nat
        BY <1>1, FiniteBooks DEF Doubtful
      <3>2. Doubtful(credited)' = IF IsHalfway(n) THEN Doubtful(credited) \cup {p}
                                  ELSE Doubtful(credited)
        BY <1>1 DEF Doubtful
      <3>3. Cardinality(Doubtful(credited) \cup {p}) = lo + 1
        BY <3>1, FS_AddElement
      <3>4. CASE IsHalfway(n)
        BY <3>2, <3>3, <3>4
      <3>5. CASE ~IsHalfway(n)
        BY <3>1, <3>2, <3>5
      <3> QED
        BY <3>4, <3>5
    <2>4. Cardinality(Doubtful(debited)') = hi
      BY <1>1 DEF Doubtful
    <2>5. to - balance[r] - Whole[p] \in -half .. 0 /\ Whole[p] \in Int /\ balance[r] \in Int
      BY <1>1, <1>2, <1>4, FiniteBooks, StoredHaveBalances, TakenAndGiven DEF DemoInv
    <2>6. gain + way \in -lo .. hi
      BY ConservedInSums DEF Books
    <2>7. gain \in Int /\ way \in Int /\ lo \in Nat /\ hi \in Nat /\ half \in {0, 1}
      BY FiniteBooks
    <2> HIDE DEF gain, way, lo, hi, half
    <2> QED
      BY <1>2, <2>1, <2>2, <2>3, <2>4, <2>5, <2>6, <2>7
  <1> QED
    BY <1>5, <1>6

-----------------------------------------------------------------------------
\* Steps that write no balance leave the books as they are.
LEMMA QuietStepKeepsBooks ==
  ASSUME Books, UNCHANGED <<balance, debited, credited>>, contended \subseteq contended'
  PROVE  BalancesAreBooked' /\ MoneyIsConserved'
  <1>1. /\ Stored' = Stored /\ Gain' = Gain /\ OnTheWay' = OnTheWay
        /\ Doubtful(debited)' = Doubtful(debited) /\ Doubtful(credited)' = Doubtful(credited)
    BY DEF Stored, Gain, OnTheWay, Doubtful
  <1>2. \A a : /\ PaidBy(a)' = PaidBy(a) /\ PaidTo(a)' = PaidTo(a)
               /\ ExactBalance(a)' = ExactBalance(a)
    BY DEF PaidBy, PaidTo, ExactBalance
  <1>3. BalancesAreBooked'
    BY <1>1, <1>2 DEF Books, BalancesAreBooked
  <1>4. contended' = {} => contended = {}
    OBVIOUS
  <1> QED
    BY <1>1, <1>3, <1>4, ConservedInSums DEF Books

\* A settlement that moves on, or ends, and writes nothing.
LEMMA MovingOnKeepsViews ==
  ASSUME DemoInv, ViewsHold, NEW p \in Packets, p \in InHand, NEW label,
         at' = [at EXCEPT ![p] = label], UNCHANGED <<balance, contended>>,
         \A q \in Packets \ {p} : view'[q] = view[q],
         label = "receiver" => view'[p].sender = balance[Sender[p]],
         label = "debit" => /\ at[p] = "receiver" /\ view'[p].sender = view[p].sender
                            /\ view'[p].receiver = balance[Receiver[p]],
         label # "credit"
  PROVE  ViewsHold'
  <1>1. /\ at'[p] = label /\ \A q \in Packets \ {p} : at'[q] = at[q]
        /\ \A q \in Packets : q \in InHand' => q \in InHand
    BY DEF DemoInv, SettleTypeOK, InHand
  <1>3. \A q, o \in InHand' : q # o => Parties(q) \cap Parties(o) \subseteq contended'
    BY <1>1 DEF ViewsHold, InHand
  <1>4. ASSUME NEW q \in Packets \ {p}
        PROVE  /\ at'[q] \in {"receiver", "debit"} /\ Sender[q] \notin contended' =>
                     view'[q].sender = balance'[Sender[q]]
               /\ at'[q] \in {"debit", "credit"} /\ Receiver[q] \notin contended' =>
                     view'[q].receiver = balance'[Receiver[q]]
    BY <1>1 DEF ViewsHold
  <1>5. /\ at'[p] \in {"receiver", "debit"} /\ Sender[p] \notin contended' =>
              view'[p].sender = balance'[Sender[p]]
        /\ at'[p] \in {"debit", "credit"} /\ Receiver[p] \notin contended' =>
              view'[p].receiver = balance'[Receiver[p]]
    BY <1>1 DEF ViewsHold
  <1> QED
    BY <1>3, <1>4, <1>5 DEF ViewsHold

\* A write changes what nobody else has read and still relies on.
LEMMA WritingKeepsViews ==
  ASSUME DemoInv, ViewsHold, NEW p \in Packets, p \in InHand, NEW a \in Parties(p), NEW n,
         balance' = [balance EXCEPT ![a] = n], UNCHANGED <<view, contended>>,
         \/ a = Sender[p] /\ at[p] = "debit" /\ at' = [at EXCEPT ![p] = "credit"]
         \/ a = Receiver[p] /\ at' = [at EXCEPT ![p] = "save"]
  PROVE  ViewsHold'
  <1>1. /\ at'[p] \in {"credit", "save"} /\ \A q \in Packets \ {p} : at'[q] = at[q]
        /\ \A q \in Packets : q \in InHand' => q \in InHand
        /\ at'[p] = "credit" => a = Sender[p] /\ at[p] = "debit"
    BY DEF DemoInv, SettleTypeOK, InHand
  <1>2. \A b : b # a => balance'[b] = balance[b]
    BY StoredHaveBalances DEF DemoInv
  <1>3. \A q, o \in InHand' : q # o => Parties(q) \cap Parties(o) \subseteq contended'
    BY <1>1 DEF ViewsHold, InHand
  <1>4. ASSUME NEW q \in Packets \ {p}
        PROVE  /\ at'[q] \in {"receiver", "debit"} /\ Sender[q] \notin contended' =>
                     view'[q].sender = balance'[Sender[q]]
               /\ at'[q] \in {"debit", "credit"} /\ Receiver[q] \notin contended' =>
                     view'[q].receiver = balance'[Receiver[q]]
    <2>1. at[q] \in {"receiver", "debit", "credit"} => q \in InHand
      BY DEF InHand, Awaits
    <2>2. q \in InHand => Parties(p) \cap Parties(q) \subseteq contended
      BY DEF ViewsHold
    <2>3. at[q] \in {"receiver", "debit", "credit"} /\ a \in Parties(q) => a \in contended
      BY <2>1, <2>2
    <2> QED
      BY <1>1, <1>2, <2>3 DEF ViewsHold, Parties
  <1>5. at'[p] = "credit" /\ Receiver[p] \notin contended' =>
              view'[p].receiver = balance'[Receiver[p]]
    BY <1>1, <1>2, DemoAssumption DEF ViewsHold
  <1> QED
    BY <1>1, <1>3, <1>4, <1>5 DEF ViewsHold

LEMMA UploadKeepsViews ==
  ASSUME DemoInv, ViewsHold, NEW p \in Packets, Upload(p)
  PROVE  ViewsHold'
  <1>1. /\ at' = [at EXCEPT ![p] = "sender"] /\ UNCHANGED <<balance, view>>
        /\ contended' = contended \cup (Parties(p) \cap UNION {Parties(q) : q \in InHand})
    BY DEF Upload, Goto, startVars
  <1>2. at'[p] = "sender" /\ \A q \in Packets \ {p} : at'[q] = at[q]
    BY <1>1 DEF DemoInv, SettleTypeOK
  <1>3. InHand' \subseteq InHand \cup {p}
    BY <1>2 DEF InHand
  <1>4. \A q \in InHand : Parties(p) \cap Parties(q) \subseteq contended'
    BY <1>1
  <1>5. \A q, o \in InHand' : q # o => Parties(q) \cap Parties(o) \subseteq contended'
    BY <1>1, <1>3, <1>4 DEF ViewsHold
  <1> QED
    BY <1>1, <1>2, <1>5 DEF ViewsHold

LEMMA DemoStepBooks == DemoInv /\ Books /\ [DemoNext]_demoVars => Books'
  <1> SUFFICES ASSUME DemoInv, Books, [DemoNext]_demoVars PROVE Books'
    OBVIOUS
  <1>0. ViewsHold
    BY DEF Books
  <1>1. ASSUME UNCHANGED <<balance, settleVars>>
        PROVE  Books'
    <2>1. UNCHANGED <<balance, at, view, debited, credited, contended>>
      BY <1>1 DEF settleVars
    <2>2. ViewsHold'
      BY <1>0, <2>1 DEF ViewsHold, InHand
    <2> QED
      BY <2>1, <2>2, QuietStepKeepsBooks DEF Books
  <1>2. ASSUME NEW s \in Servers, InsertNext(s), UNCHANGED settleVars
        PROVE  Books'
    <2> DEFINE a == SeedOrder[batch[s]]
    <2>1. a \in SeedAccounts
      BY <1>2, SeedOrderIsAList DEF InsertNext, DemoInv, StartInv, StartTypeOK
    <2>2. CASE a \in Stored
      BY <1>1, <1>2, <2>2 DEF InsertNext
    <2>3. CASE a \notin Stored
      <3>1. balance' = [balance EXCEPT ![a] = SeedBalance[a]]
        BY <1>2, <2>3 DEF InsertNext
      <3> HIDE DEF a
      <3> QED
        BY <1>2, <2>1, <2>3, <3>1, InsertKeepsBooks
    <2> QED
      BY <2>2, <2>3
  <1>3. CASE StartingUp
    BY <1>1, <1>2, <1>3
    DEF StartingUp, Launch, StartStep, Connected, CountAccounts, Listen, ConnectFails
  <1>4. CASE Stopping
    <2>1. UNCHANGED balance
      BY <1>4 DEF Stopping, DatabaseFails, Crash
    <2>2. CASE ProcessDies
      <3>1. /\ UNCHANGED <<view, debited, credited, contended>>
            /\ \A p \in Packets : at'[p] \notin Awaits
        BY <2>2 DEF ProcessDies, InHand, Awaits, DemoInv, SettleTypeOK
      <3>2. ViewsHold'
        BY <3>1 DEF ViewsHold, InHand, Awaits
      <3> QED
        BY <2>1, <3>1, <3>2, QuietStepKeepsBooks DEF Books
    <2> QED
      BY <1>1, <1>4, <2>1, <2>2 DEF Stopping
  <1>5. CASE OnTheMesh \/ UNCHANGED demoVars
    BY <1>1, <1>5 DEF OnTheMesh, demoVars, startVars
  <1>6. ASSUME NEW p \in Packets, Upload(p)
        PROVE  Books'
    <2>1. UNCHANGED <<balance, debited, credited>> /\ contended \subseteq contended'
      BY <1>6 DEF Upload, startVars
    <2> QED
      BY <1>0, <1>6, <2>1, UploadKeepsViews, QuietStepKeepsBooks DEF Books
  <1>7. ASSUME NEW p \in Packets, ReadSender(p)
        PROVE  Books'
    <2>1. /\ UNCHANGED <<balance, debited, credited, contended>> /\ p \in InHand
          /\ \/ /\ at' = [at EXCEPT ![p] = "receiver"]
                /\ view' = [view EXCEPT ![p].sender = balance[Sender[p]],
                                        ![p].version = version[Sender[p]]]
             \/ at' = [at EXCEPT ![p] = "ended"] /\ UNCHANGED view
      BY <1>7 DEF ReadSender, Goto, startVars, InHand, Awaits
    <2>2. ViewsHold'
      <3>1. CASE at' = [at EXCEPT ![p] = "ended"] /\ UNCHANGED view
        BY <1>0, <2>1, <3>1, MovingOnKeepsViews
      <3>2. CASE /\ at' = [at EXCEPT ![p] = "receiver"]
                 /\ view' = [view EXCEPT ![p].sender = balance[Sender[p]],
                                         ![p].version = version[Sender[p]]]
        <4>1. /\ view'[p].sender = balance[Sender[p]]
              /\ \A q \in Packets \ {p} : view'[q] = view[q]
          BY <3>2 DEF DemoInv, SettleTypeOK
        <4> QED
          BY <1>0, <2>1, <3>2, <4>1, MovingOnKeepsViews
      <3> QED
        BY <2>1, <3>1, <3>2
    <2> QED
      BY <2>1, <2>2, QuietStepKeepsBooks DEF Books
  <1>8. ASSUME NEW p \in Packets, ReadReceiver(p)
        PROVE  Books'
    <2>1. /\ UNCHANGED <<balance, debited, credited, contended>> /\ p \in InHand
          /\ at[p] = "receiver"
          /\ \/ /\ \E label \in {"reject", "debit"} : at' = [at EXCEPT ![p] = label]
                /\ view' = [view EXCEPT ![p].receiver = balance[Receiver[p]]]
             \/ at' = [at EXCEPT ![p] = "ended"] /\ UNCHANGED view
      BY <1>8 DEF ReadReceiver, Goto, startVars, InHand, Awaits
    <2>2. ViewsHold'
      <3>1. CASE at' = [at EXCEPT ![p] = "ended"] /\ UNCHANGED view
        BY <1>0, <2>1, <3>1, MovingOnKeepsViews
      <3>2. ASSUME NEW label \in {"reject", "debit"}, at' = [at EXCEPT ![p] = label],
                   view' = [view EXCEPT ![p].receiver = balance[Receiver[p]]]
            PROVE  ViewsHold'
        <4>1. /\ view'[p].sender = view[p].sender
              /\ view'[p].receiver = balance[Receiver[p]]
              /\ \A q \in Packets \ {p} : view'[q] = view[q]
          BY <3>2 DEF DemoInv, SettleTypeOK
        <4> QED
          BY <1>0, <2>1, <3>2, <4>1, MovingOnKeepsViews
      <3> QED
        BY <2>1, <3>1, <3>2
    <2> QED
      BY <2>1, <2>2, QuietStepKeepsBooks DEF Books
  <1>9. ASSUME NEW p \in Packets, DebitSender(p)
        PROVE  Books'
    <2>1. /\ UNCHANGED <<view, credited, contended>> /\ p \in InHand /\ at[p] = "debit"
          /\ Sender[p] \in Parties(p)
          /\ DOMAIN at = Packets
      BY <1>9, DebitIs DEF DebitSender, InHand, Awaits, Parties, DemoInv, SettleTypeOK
    <2>2. CASE UNCHANGED <<balance, debited>> /\ at' = [at EXCEPT ![p] = "ended"]
      <3>1. ViewsHold'
        BY <1>0, <2>1, <2>2, MovingOnKeepsViews
      <3> QED
        BY <2>1, <2>2, <3>1, QuietStepKeepsBooks DEF Books
    <2>3. ASSUME NEW from \in Nat, balance' = [balance EXCEPT ![Sender[p]] = from],
                 at' = [at EXCEPT ![p] = "credit"]
          PROVE  Books'
      <3>1. ViewsHold'
        BY <1>0, <2>1, <2>3, WritingKeepsViews
      <3>2. at'[p] = "credit"
        BY <2>1, <2>3
      <3> QED
        BY <1>9, <3>1, <3>2, DebitKeepsBooks DEF Books
    <2> QED
      BY <1>9, <2>2, <2>3, DebitIs
  <1>10. ASSUME NEW p \in Packets, CreditReceiver(p)
         PROVE  Books'
    <2>1. /\ UNCHANGED <<view, contended>> /\ p \in InHand /\ Receiver[p] \in Parties(p)
          /\ at' = [at EXCEPT ![p] = "save"]
          /\ \E to : balance' = [balance EXCEPT ![Receiver[p]] = to]
      BY <1>10, CreditIs DEF CreditReceiver, InHand, Awaits, Parties
    <2>2. ViewsHold'
      BY <1>0, <2>1, WritingKeepsViews
    <2> QED
      BY <1>10, <2>2, CreditKeepsBooks DEF Books
  <1>11. ASSUME NEW p \in Packets, Record(p) \/ SettlementFails(p)
         PROVE  Books'
    <2>1. /\ UNCHANGED <<balance, view, debited, credited, contended>> /\ p \in InHand
          /\ \E label \in {"settled", "rejected", "ended"} : at' = [at EXCEPT ![p] = label]
      BY <1>11 DEF Record, SettlementFails, Goto, InHand, Awaits, startVars
    <2>2. ViewsHold'
      BY <1>0, <2>1, MovingOnKeepsViews
    <2> QED
      BY <2>1, <2>2, QuietStepKeepsBooks DEF Books
  <1> QED
    BY <1>3, <1>4, <1>5, <1>6, <1>7, <1>8, <1>9, <1>10, <1>11 DEF DemoNext, SettlementStep

LEMMA BooksInvariant == DemoSpec => []Books
  <1>1. DemoInit => Books
    <2> SUFFICES ASSUME DemoInit PROVE Books
      OBVIOUS
    <2>1. Stored = {} /\ InHand = {} /\ OnTheWay = {} /\ Doubtful(debited) = {} /\ Doubtful(credited) = {}
      BY DEF DemoInit, StartInit, Stored, InHand, Awaits, OnTheWay, Doubtful
    <2>2. /\ SumBy(Gain, Stored) = 0 /\ SumBy(Whole, OnTheWay) = 0
          /\ Cardinality(Doubtful(debited)) = 0 /\ Cardinality(Doubtful(credited)) = 0
      BY <2>1, SumByEmpty, FS_EmptySet
    <2>3. MoneyIsConserved
      BY <2>2, ConservedInSums
    <2>4. BalancesAreBooked
      BY <2>1 DEF BalancesAreBooked
    <2>5. ViewsHold
      BY <2>1 DEF ViewsHold, DemoInit
    <2> QED
      BY <2>3, <2>4, <2>5 DEF Books
  <1> QED
    BY <1>1, DemoStepBooks, DemoInvariant, PTL DEF DemoSpec

(* An account that no two settlements had at once has what it was seeded   *)
(* with and what was paid from and to it, each to half a paisa: nothing    *)
(* else moves it, no crash or error between any two steps of a settlement, *)
(* no restart, no second start that seeds, nothing MongoDB does in the     *)
(* middle of a batch (settlementService.js, lines 61 to 125;               *)
(* demoService.js, seedAccounts).                                          *)
THEOREM EveryBalanceIsBooked == DemoSpec => []BalancesAreBooked
  BY BooksInvariant, PTL DEF Books

(* Where no two settlements meet, what all accounts together have less     *)
(* than they were seeded with is what was debited and not credited, the    *)
(* debits a crash or an error cut off included, to a paisa for each amount *)
(* half way between two paise (settlementService.js, lines 87 to 109).     *)
THEOREM MoneyStays == DemoSpec => []MoneyIsConserved
  BY BooksInvariant, PTL DEF Books

=============================================================================
