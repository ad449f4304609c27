---------------------------- MODULE JavaMeshProofs ----------------------------
(***************************************************************************)
(* The Java mesh, for every list of phones and any number of requests that *)
(* gossip, flush and reset it at the same time.                            *)
(***************************************************************************)
EXTENDS JavaMesh, TLAPS

Rounds == {t \in Threads : step[t].op \in {"snapshot", "copy"}}
Flushes == {t \in Threads : step[t].op \in {"collect", "upload"}}
Resets == {t \in Threads : step[t].op \in {"clear", "forget"}}

LEMMA StepNames ==
  /\ Range(StepsOf["gossip"]) = {"snapshot", "copy"} /\ StepsOf["gossip"][1] = "snapshot"
  /\ Range(StepsOf["flush"]) = {"collect", "upload"} /\ StepsOf["flush"][1] = "collect"
  /\ Range(StepsOf["reset"]) = {"clear", "forget"} /\ StepsOf["reset"][1] = "clear"
  <1>1. ASSUME NEW a, NEW b
        PROVE  Range(<<a, b>>) = {a, b}
    <2>1. DOMAIN <<a, b>> = {1, 2}
      OBVIOUS
    <2> QED
      BY <2>1 DEF Range
  <1> QED
    BY <1>1 DEF StepsOf

Ops == {"idle", "returned", "snapshot", "copy", "collect", "upload", "clear", "forget"}

LEMMA StepsAre == Steps = [op : Ops, at : Nat]
  <1>1. UNION {Range(StepsOf[k]) : k \in Kinds}
          = {"snapshot", "copy", "collect", "upload", "clear", "forget"}
    BY StepNames DEF Kinds
  <1>2. {"idle", "returned"} \cup UNION {Range(StepsOf[k]) : k \in Kinds} = Ops
    BY <1>1 DEF Ops
  <1> QED
    BY <1>2 DEF Steps

LEMMA MeetsAre ==
  ASSUME NEW t \in Threads, NEW k \in Kinds
  PROVE  Meets(k, t) = IF k = "reset"
                       THEN IF t \in Rounds THEN {"gossip"}
                            ELSE IF t \in Flushes THEN {"flush"} ELSE {}
                       ELSE IF t \in Resets THEN {"reset"} ELSE {}
  <1>1. \A other \in Kinds : step[t].op \in Range(StepsOf[other]) <=>
            \/ other = "gossip" /\ t \in Rounds
            \/ other = "flush" /\ t \in Flushes
            \/ other = "reset" /\ t \in Resets
    BY StepNames DEF Kinds, Rounds, Flushes, Resets
  <1>2. t \in Rounds => t \notin Flushes
    BY DEF Rounds, Flushes
  <1> QED
    BY <1>1, <1>2 DEF Meets, Kinds

\* The phone a request is at is one of the list.
PlacesOK ==
    \A t \in Threads :
        /\ step[t].op \in {"snapshot", "collect", "clear"} => step[t].at \in 1 .. Len(DeviceOrder)
        /\ step[t].op = "copy" => step[t].at \in 0 .. Len(DeviceOrder)

\* Only a round or a flush has something to do, and a request that has not
\* begun has seen nothing.
TodoOK ==
    \A t \in Threads :
        /\ step[t].op \notin {"copy", "collect", "upload"} => todo[t] = {}
        /\ step[t].op = "copy" => \A u \in todo[t] : u[1].ttl > 0
        /\ step[t].op = "idle" => \A d \in Devices : snapshot[t][d] = {}

ShapeOK == JavaMeshTypeOK /\ PlacesOK /\ TodoOK

LEMMA PhonesAreDevices ==
  /\ Len(DeviceOrder) \in Nat /\ 1 \in 1 .. Len(DeviceOrder)
  /\ \A i \in 1 .. Len(DeviceOrder) : DeviceOrder[i] \in Devices
  /\ \A d \in Devices : \E i \in 1 .. Len(DeviceOrder) : DeviceOrder[i] = d
  <1>1. DeviceOrder \in Seq(Devices) /\ DeviceOrder # <<>>
    BY JavaMeshAssumption
  <1>2. DOMAIN DeviceOrder = 1 .. Len(DeviceOrder) /\ Len(DeviceOrder) \in Nat \ {0}
    BY <1>1
  <1> QED
    BY <1>1, <1>2 DEF Devices, Range

\* Putting a copy on a phone keeps what the phones hold well formed.
LEMMA HoldIsTyped ==
  ASSUME JavaMeshTypeOK, NEW d \in Devices, NEW x \in Copy, hold(d, x)
  PROVE  /\ heldPackets' \in [Devices -> SUBSET Copy]
         /\ \A e \in Devices : \A y, z \in heldPackets'[e] : y.packetId = z.packetId => y = z
         /\ \A e \in Devices : /\ heldPackets[e] \subseteq heldPackets'[e]
                               /\ heldPackets'[e] \subseteq heldPackets[e] \cup {x}
                               /\ e # d => heldPackets'[e] = heldPackets[e]
         /\ \E y \in heldPackets'[d] : y.packetId = x.packetId
  BY DEF hold, holds, JavaMeshTypeOK

\* What is handed over has paid one ttl for one hop.
LEMMA HopIsPaid ==
  ASSUME NEW x \in Copy, x.ttl > 0
  PROVE  /\ HopCopy(x) \in Copy /\ HopCopy(x).packetId = x.packetId
         /\ HopCopy(x).ttl + HopCopy(x).hops = x.ttl + x.hops
  <1>1. x.ttl - 1 \in Nat /\ x.hops + 1 \in Nat /\ x.ttl \in Nat /\ x.hops \in Nat
    BY DEF Copy
  <1> DEFINE m == x.ttl - 1
             n == x.hops + 1
  <1>2. HopCopy(x) = [x EXCEPT !.ttl = m, !.hops = n]
    BY DEF HopCopy
  <1>3. m \in Nat /\ n \in Nat
    BY <1>1
  <1> HIDE DEF m, n
  <1>4. /\ HopCopy(x) \in Copy /\ HopCopy(x).packetId = x.packetId
        /\ HopCopy(x).ttl = m /\ HopCopy(x).hops = n
    BY <1>2, <1>3 DEF Copy
  <1> QED
    BY <1>1, <1>4 DEF m, n

LEMMA ShapeInit == JavaMeshInit => ShapeOK
  <1> SUFFICES ASSUME JavaMeshInit PROVE ShapeOK
    OBVIOUS
  <1>1. \A t \in Threads : step[t].op = "idle" /\ step[t] \in Steps
    BY StepsAre DEF JavaMeshInit, Ops
  <1>2. JavaMeshTypeOK
    BY <1>1 DEF JavaMeshInit, JavaMeshTypeOK
  <1>3. PlacesOK /\ TodoOK
    BY <1>1 DEF JavaMeshInit, PlacesOK, TodoOK
  <1> QED
    BY <1>2, <1>3 DEF ShapeOK

\* The step of one request to a place that exists.
LEMMA GotoIsTyped ==
  ASSUME JavaMeshTypeOK, PlacesOK, NEW t \in Threads, NEW op \in Ops, NEW place \in Nat,
         Goto(t, op, place),
         op \in {"snapshot", "collect", "clear"} => place \in 1 .. Len(DeviceOrder),
         op = "copy" => place \in 0 .. Len(DeviceOrder)
  PROVE  /\ step' \in [Threads -> Steps] /\ PlacesOK'
         /\ step'[t].op = op /\ step'[t].at = place
         /\ \A r \in Threads \ {t} : step'[r] = step[r]
  BY StepsAre DEF Goto, JavaMeshTypeOK, PlacesOK

LEMMA AdvanceIsTyped ==
  ASSUME JavaMeshTypeOK, PlacesOK, NEW t \in Threads, NEW op \in Ops, NEW place \in Nat,
         step[t].op \in {"snapshot", "collect", "clear"},
         op \notin {"snapshot", "collect", "clear"},
         op = "copy" => place \in 0 .. Len(DeviceOrder),
         Advance(t, Goto(t, op, place))
  PROVE  /\ step' \in [Threads -> Steps] /\ PlacesOK'
         /\ step'[t].op \in {step[t].op, op}
         /\ step'[t].op = step[t].op => step'[t].at = step[t].at + 1
         /\ step'[t].op = op => step[t].at = Len(DeviceOrder)
         /\ \A r \in Threads \ {t} : step'[r] = step[r]
  <1>1. step[t].at \in 1 .. Len(DeviceOrder) /\ step[t].op \in Ops
    BY StepsAre DEF PlacesOK, JavaMeshTypeOK
  <1>2. CASE step[t].at < Len(DeviceOrder)
    <2>1. Goto(t, step[t].op, step[t].at + 1) /\ step[t].at + 1 \in 1 .. Len(DeviceOrder)
      BY <1>1, <1>2, PhonesAreDevices DEF Advance
    <2>2. step[t].at + 1 \in Nat
      BY <1>1
    <2> QED
      BY <1>1, <2>1, <2>2, GotoIsTyped
  <1>3. CASE ~(step[t].at < Len(DeviceOrder))
    <2>1. Goto(t, op, place) /\ step[t].at = Len(DeviceOrder)
      BY <1>1, <1>3, PhonesAreDevices DEF Advance
    <2> QED
      BY <2>1, GotoIsTyped
  <1> QED
    BY <1>2, <1>3

LEMMA StepShape == ShapeOK /\ [JavaMeshNext]_meshVars => ShapeOK'
  <1> SUFFICES ASSUME ShapeOK, [JavaMeshNext]_meshVars PROVE ShapeOK'
    OBVIOUS
  <1>t. JavaMeshTypeOK /\ PlacesOK /\ TodoOK
    BY DEF ShapeOK
  <1>p. \A r \in Threads : step[r].op \in {"snapshot", "collect", "clear"} =>
            AtPhone(r) \in Devices /\ heldPackets[AtPhone(r)] \subseteq Copy
    BY <1>t, PhonesAreDevices DEF PlacesOK, AtPhone, JavaMeshTypeOK
  <1>1. ASSUME NEW p \in Packets, NEW d \in Devices, NEW ttl \in InitialTtls, inject(p, d, ttl)
        PROVE  ShapeOK'
    <2>1. [packetId |-> p, ttl |-> ttl, hops |-> 0] \in Copy /\ ttl \in Nat
      BY JavaMeshAssumption DEF Copy
    <2>2. /\ heldPackets' \in [Devices -> SUBSET Copy]
          /\ \A e \in Devices : \A y, z \in heldPackets'[e] : y.packetId = z.packetId => y = z
      BY <1>1, <1>t, <2>1, HoldIsTyped DEF inject
    <2>3. sentTtl' \in [Packets -> Nat \cup {-1}]
      BY <1>1, <1>t, <2>1 DEF inject, JavaMeshTypeOK
    <2> QED
      BY <1>1, <1>t, <2>2, <2>3
      DEF inject, flushVars, historyVars, ShapeOK, JavaMeshTypeOK, PlacesOK, TodoOK
  <1>2. ASSUME NEW t \in Threads, NEW k \in Kinds, Start(t, k)
        PROVE  ShapeOK'
    <2>1. StepsOf[k][1] \in {"snapshot", "collect", "clear"}
      BY StepNames DEF Kinds
    <2>2. /\ step' \in [Threads -> Steps] /\ PlacesOK'
          /\ step'[t].op = StepsOf[k][1]
          /\ \A r \in Threads \ {t} : step'[r] = step[r]
      BY <1>2, <1>t, <2>1, GotoIsTyped, PhonesAreDevices DEF Start, Ops
    <2>3. step[t].op = "idle" /\ todo[t] = {}
      BY <1>2, <1>t DEF Start, TodoOK
    <2>4. TodoOK'
      BY <1>2, <1>t, <2>1, <2>2, <2>3 DEF Start, TodoOK
    <2>5. before' \in [Threads -> SUBSET Packets]
      BY <1>2, <1>t DEF Start, JavaMeshTypeOK
    <2>6. along' \in [Threads -> SUBSET Kinds]
      <3>1. \A r \in Threads : Meets(k, r) \subseteq Kinds
        BY DEF Meets
      <3>2. UNION {Meets(k, r) : r \in Threads} \subseteq Kinds
        BY <3>1
      <3>3. \A s \in Threads : along'[s] \subseteq Kinds
        BY <1>2, <1>t, <3>2 DEF Start, JavaMeshTypeOK
      <3> QED
        BY <1>2, <3>3 DEF Start
    <2> QED
      BY <1>2, <1>t, <2>2, <2>4, <2>5, <2>6 DEF Start, flushVars, ShapeOK, JavaMeshTypeOK
  <1>3. ASSUME NEW t \in Threads, TakeSnapshot(t)
        PROVE  ShapeOK'
    <2>1. /\ step' \in [Threads -> Steps] /\ PlacesOK'
          /\ step'[t].op \in {"snapshot", "copy"}
          /\ \A r \in Threads \ {t} : step'[r] = step[r]
      BY <1>3, <1>t, AdvanceIsTyped, PhonesAreDevices DEF TakeSnapshot, Ops
    <2>2. snapshot' \in [Threads -> [Devices -> SUBSET Copy]]
      BY <1>3, <1>t, <1>p DEF TakeSnapshot, JavaMeshTypeOK
    <2>3. todo[t] = {} /\ UNCHANGED todo /\ \A r \in Threads \ {t} : snapshot'[r] = snapshot[r]
      BY <1>3, <1>t DEF TakeSnapshot, TodoOK, JavaMeshTypeOK
    <2>4. TodoOK'
      BY <1>t, <2>1, <2>3 DEF TodoOK
    <2> QED
      BY <1>3, <1>t, <2>1, <2>2, <2>4
      DEF TakeSnapshot, flushVars, historyVars, ShapeOK, JavaMeshTypeOK
  <1>4. ASSUME NEW t \in Threads, NextSource(t)
        PROVE  ShapeOK'
    <2>1. CASE step[t].at < Len(DeviceOrder)
      <3>1. /\ Goto(t, "copy", step[t].at + 1) /\ step[t].at + 1 \in 1 .. Len(DeviceOrder)
            /\ todo' = [todo EXCEPT ![t] = Offers(t, DeviceOrder[step[t].at + 1])]
        BY <1>4, <1>t, <2>1, PhonesAreDevices DEF NextSource, PlacesOK
      <3>2. /\ step' \in [Threads -> Steps] /\ PlacesOK' /\ step'[t].op = "copy"
            /\ \A r \in Threads \ {t} : step'[r] = step[r]
        BY <1>t, <3>1, GotoIsTyped DEF Ops
      <3>3. /\ Offers(t, DeviceOrder[step[t].at + 1]) \subseteq Copy \X Devices
            /\ \A u \in Offers(t, DeviceOrder[step[t].at + 1]) : u[1].ttl > 0
        BY <1>t, <3>1, PhonesAreDevices DEF Offers, JavaMeshTypeOK
      <3>4. todo' \in [Threads -> SUBSET (Copy \X Devices)] /\ TodoOK'
        BY <1>4, <1>t, <3>1, <3>2, <3>3 DEF NextSource, JavaMeshTypeOK, TodoOK
      <3> QED
        BY <1>4, <1>t, <3>2, <3>4
        DEF NextSource, flushVars, historyVars, ShapeOK, JavaMeshTypeOK
    <2>2. CASE ~(step[t].at < Len(DeviceOrder))
      <3>1. Goto(t, "returned", 1) /\ UNCHANGED todo /\ todo[t] = {}
        BY <1>4, <2>2 DEF NextSource
      <3>2. /\ step' \in [Threads -> Steps] /\ PlacesOK' /\ step'[t].op = "returned"
            /\ \A r \in Threads \ {t} : step'[r] = step[r]
        BY <1>t, <3>1, GotoIsTyped DEF Ops
      <3> QED
        BY <1>4, <1>t, <3>1, <3>2
        DEF NextSource, flushVars, historyVars, ShapeOK, JavaMeshTypeOK, TodoOK
    <2> QED
      BY <2>1, <2>2
  <1>5. ASSUME NEW t \in Threads, HandOver(t)
        PROVE  ShapeOK'
    <2>1. PICK u \in todo[t] : /\ hold(u[2], HopCopy(u[1]))
                               /\ todo' = [todo EXCEPT ![t] = @ \ {u}]
      BY <1>5 DEF HandOver
    <2>2. u[1] \in Copy /\ u[2] \in Devices /\ u[1].ttl > 0
      BY <1>5, <1>t, <2>1 DEF HandOver, JavaMeshTypeOK, TodoOK
    <2>3. HopCopy(u[1]) \in Copy
      BY <2>2, HopIsPaid
    <2>4. /\ heldPackets' \in [Devices -> SUBSET Copy]
          /\ \A e \in Devices : \A y, z \in heldPackets'[e] : y.packetId = z.packetId => y = z
      BY <1>t, <2>1, <2>2, <2>3, HoldIsTyped
    <2>5. todo' \in [Threads -> SUBSET (Copy \X Devices)] /\ TodoOK'
      BY <1>5, <1>t, <2>1 DEF HandOver, JavaMeshTypeOK, TodoOK
    <2> QED
      BY <1>5, <1>t, <2>4, <2>5
      DEF HandOver, flushVars, historyVars, ShapeOK, JavaMeshTypeOK, PlacesOK
  <1>6. ASSUME NEW t \in Threads, Collect(t)
        PROVE  ShapeOK'
    <2>1. /\ step' \in [Threads -> Steps] /\ PlacesOK'
          /\ step'[t].op \in {"collect", "upload"}
          /\ \A r \in Threads \ {t} : step'[r] = step[r]
      BY <1>6, <1>t, AdvanceIsTyped, PhonesAreDevices DEF Collect, Ops
    <2>2. heldPackets[AtPhone(t)] \X (HasInternet \cap {AtPhone(t)}) \subseteq Copy \X Devices
      BY <1>6, <1>p DEF Collect
    <2>3. todo' \in [Threads -> SUBSET (Copy \X Devices)]
      BY <1>6, <1>t, <2>2 DEF Collect, JavaMeshTypeOK
    <2>4. TodoOK'
      BY <1>6, <1>t, <2>1 DEF Collect, TodoOK, JavaMeshTypeOK
    <2> QED
      BY <1>6, <1>t, <2>1, <2>3, <2>4
      DEF Collect, flushVars, historyVars, ShapeOK, JavaMeshTypeOK
  <1>7. ASSUME NEW t \in Threads, Upload(t)
        PROVE  ShapeOK'
    <2>1. PICK u \in todo[t] :
             /\ todo' = [todo EXCEPT ![t] = @ \ {u}]
             /\ claimed' = claimed \cup {u[1].packetId}
             /\ passes' = IF u[1].packetId \in claimed THEN passes
                          ELSE [passes EXCEPT ![u[1].packetId] = @ + 1]
      BY <1>7 DEF Upload
    <2>2. u[1].packetId \in Packets
      BY <1>t, <2>1 DEF JavaMeshTypeOK, Copy
    <2>3. claimed' \subseteq Packets /\ passes' \in [Packets -> Nat]
      BY <1>t, <2>1, <2>2 DEF JavaMeshTypeOK
    <2>4. todo' \in [Threads -> SUBSET (Copy \X Devices)] /\ TodoOK'
      BY <1>7, <1>t, <2>1 DEF Upload, JavaMeshTypeOK, TodoOK
    <2> QED
      BY <1>7, <1>t, <2>3, <2>4 DEF Upload, historyVars, ShapeOK, JavaMeshTypeOK, PlacesOK
  <1>8. ASSUME NEW t \in Threads, ClearPhone(t)
        PROVE  ShapeOK'
    <2>1. /\ step' \in [Threads -> Steps] /\ PlacesOK'
          /\ step'[t].op \in {"clear", "forget"}
          /\ \A r \in Threads \ {t} : step'[r] = step[r]
      BY <1>8, <1>t, AdvanceIsTyped, PhonesAreDevices DEF ClearPhone, Ops
    <2>2. /\ heldPackets' \in [Devices -> SUBSET Copy]
          /\ \A e \in Devices : \A y, z \in heldPackets'[e] : y.packetId = z.packetId => y = z
      BY <1>8, <1>t DEF ClearPhone, JavaMeshTypeOK
    <2>3. TodoOK'
      BY <1>8, <1>t, <2>1 DEF ClearPhone, TodoOK
    <2> QED
      BY <1>8, <1>t, <2>1, <2>2, <2>3
      DEF ClearPhone, flushVars, historyVars, ShapeOK, JavaMeshTypeOK
  <1>9. ASSUME NEW t \in Threads, EndFlush(t) \/ Forget(t)
        PROVE  ShapeOK'
    <2>1. /\ step' \in [Threads -> Steps] /\ PlacesOK' /\ step'[t].op = "returned"
          /\ \A r \in Threads \ {t} : step'[r] = step[r]
      BY <1>9, <1>t, GotoIsTyped DEF EndFlush, Forget, Ops
    <2>2. TodoOK'
      BY <1>9, <1>t, <2>1 DEF EndFlush, Forget, TodoOK
    <2> QED
      BY <1>9, <1>t, <2>1, <2>2
      DEF EndFlush, Forget, flushVars, historyVars, ShapeOK, JavaMeshTypeOK
  <1>10. CASE UNCHANGED meshVars
    BY <1>10, <1>t
    DEF meshVars, flushVars, historyVars, ShapeOK, JavaMeshTypeOK, PlacesOK, TodoOK
  <1> QED
    BY <1>1, <1>2, <1>3, <1>4, <1>5, <1>6, <1>7, <1>8, <1>9, <1>10 DEF JavaMeshNext, Done

(* Whatever runs at the same time, what the requests share keeps its type, *)
(* and a phone holds one copy of a packet (VirtualDevice.java, hold).   *)
THEOREM JavaMeshTypeCorrect == JavaMeshSpec => []JavaMeshTypeOK
  <1>1. ShapeOK => JavaMeshTypeOK
    BY DEF ShapeOK
  <1> QED
    BY <1>1, ShapeInit, StepShape, PTL DEF JavaMeshSpec

-----------------------------------------------------------------------------
\* All copies that phones hold, rounds have seen or requests are to pass on.
Within(S) ==
    /\ \A d \in Devices : heldPackets[d] \subseteq S
    /\ \A t \in Rounds, d \in Devices : snapshot[t][d] \subseteq S
    /\ \A t \in Threads : \A u \in todo[t] : u[1] \in S

(* New copies are made by injecting a packet and by handing one on.        *)
LEMMA CopiesSpread ==
  ASSUME ShapeOK, [JavaMeshNext]_meshVars, NEW S, Within(S),
         \A x \in S : x \in Copy /\ x.ttl > 0 => HopCopy(x) \in S,
         \A p \in Packets, d \in Devices, ttl \in InitialTtls :
            inject(p, d, ttl) => [packetId |-> p, ttl |-> ttl, hops |-> 0] \in S
  PROVE  Within(S)'
  <1>t. JavaMeshTypeOK /\ PlacesOK /\ TodoOK
    BY DEF ShapeOK
  <1>w. /\ \A d \in Devices : heldPackets[d] \subseteq S
        /\ \A t \in Rounds, d \in Devices : snapshot[t][d] \subseteq S
        /\ \A t \in Threads : \A u \in todo[t] : u[1] \in S
    BY DEF Within
  <1>p. \A r \in Threads : step[r].op \in {"snapshot", "collect", "clear"} =>
            AtPhone(r) \in Devices
    BY <1>t, PhonesAreDevices DEF PlacesOK, AtPhone
  <1>g. ASSUME \A d \in Devices : heldPackets'[d] \subseteq S,
               \A t \in Threads : step'[t].op \in {"snapshot", "copy"} =>
                   \A d \in Devices : snapshot'[t][d] \subseteq S,
               \A t \in Threads : \A u \in todo'[t] : u[1] \in S
        PROVE  Within(S)'
    BY <1>g DEF Within, Rounds
  <1>r. \A t \in Threads : step[t].op \in {"snapshot", "copy"} =>
            \A d \in Devices : snapshot[t][d] \subseteq S
    BY <1>w DEF Rounds
  \* A step that only goes on, or ends.
  <1>q. ASSUME UNCHANGED <<snapshot, todo>>, \A d \in Devices : heldPackets'[d] \subseteq S,
               \A t \in Threads : step'[t].op \in {"snapshot", "copy"} =>
                   step[t].op \in {"snapshot", "copy", "idle"}
        PROVE  Within(S)'
    <2>1. \A t \in Threads : step[t].op = "idle" => \A d \in Devices : snapshot[t][d] \subseteq S
      BY <1>t DEF TodoOK
    <2> QED
      BY <1>q, <1>w, <1>r, <1>g, <2>1
  <1>1. ASSUME NEW p \in Packets, NEW d \in Devices, NEW ttl \in InitialTtls, inject(p, d, ttl)
        PROVE  Within(S)'
    <2> DEFINE x == [packetId |-> p, ttl |-> ttl, hops |-> 0]
    <2>1. x \in Copy /\ hold(d, x)
      BY <1>1, JavaMeshAssumption DEF Copy, inject
    <2>3. x \in S
      BY <1>1
    <2> HIDE DEF x
    <2>2. \A e \in Devices : heldPackets'[e] \subseteq S
      BY <1>t, <1>w, <2>1, <2>3, HoldIsTyped
    <2> QED
      BY <1>1, <1>q, <2>2 DEF inject
  <1>2. ASSUME NEW t \in Threads, NEW k \in Kinds, Start(t, k)
        PROVE  Within(S)'
    <2>1. step[t].op = "idle" /\ \A r \in Threads \ {t} : step'[r] = step[r]
      BY <1>2, <1>t DEF Start, Goto, JavaMeshTypeOK
    <2> QED
      BY <1>2, <1>w, <1>q, <2>1 DEF Start
  <1>3. ASSUME NEW t \in Threads, TakeSnapshot(t)
        PROVE  Within(S)'
    <2>1. \A r \in Threads \ {t} : step'[r] = step[r]
      BY <1>3, <1>t DEF TakeSnapshot, Advance, Goto, JavaMeshTypeOK
    <2>2. \A r \in Threads, d \in Devices :
             snapshot'[r][d] = IF r = t /\ d = AtPhone(t) THEN heldPackets[d] ELSE snapshot[r][d]
      BY <1>3, <1>t, <1>p DEF TakeSnapshot, JavaMeshTypeOK
    <2>3. step[t].op = "snapshot" /\ UNCHANGED <<heldPackets, todo>>
      BY <1>3 DEF TakeSnapshot
    <2> QED
      BY <1>w, <1>r, <1>g, <2>1, <2>2, <2>3
  <1>4. ASSUME NEW t \in Threads, NextSource(t)
        PROVE  Within(S)'
    <2>1. /\ step[t].op = "copy" /\ \A r \in Threads \ {t} : step'[r] = step[r]
          /\ UNCHANGED <<heldPackets, snapshot>>
      BY <1>4, <1>t DEF NextSource, Goto, JavaMeshTypeOK
    <2>2. \A r \in Threads : \A u \in todo'[r] : u[1] \in S
      <3>1. CASE step[t].at < Len(DeviceOrder)
        <4>1. /\ DeviceOrder[step[t].at + 1] \in Devices
              /\ todo' = [todo EXCEPT ![t] = Offers(t, DeviceOrder[step[t].at + 1])]
          BY <1>4, <1>t, <3>1, PhonesAreDevices DEF NextSource, PlacesOK
        <4>2. \A u \in Offers(t, DeviceOrder[step[t].at + 1]) : u[1] \in S
          BY <1>r, <2>1, <4>1 DEF Offers
        <4> QED
          BY <1>t, <1>w, <4>1, <4>2 DEF JavaMeshTypeOK
      <3>2. CASE ~(step[t].at < Len(DeviceOrder))
        BY <1>4, <1>w, <3>2 DEF NextSource
      <3> QED
        BY <3>1, <3>2
    <2> QED
      BY <1>w, <1>r, <1>g, <2>1, <2>2
  <1>5. ASSUME NEW t \in Threads, HandOver(t)
        PROVE  Within(S)'
    <2>1. PICK u \in todo[t] : /\ hold(u[2], HopCopy(u[1]))
                               /\ todo' = [todo EXCEPT ![t] = @ \ {u}]
      BY <1>5 DEF HandOver
    <2>2. u[1] \in Copy /\ u[2] \in Devices /\ u[1].ttl > 0 /\ u[1] \in S
      BY <1>5, <1>t, <1>w, <2>1 DEF HandOver, JavaMeshTypeOK, TodoOK
    <2>3. HopCopy(u[1]) \in Copy /\ HopCopy(u[1]) \in S
      BY <2>2, HopIsPaid
    <2>4. \A e \in Devices : heldPackets'[e] \subseteq S
      BY <1>t, <1>w, <2>1, <2>2, <2>3, HoldIsTyped
    <2>5. \A r \in Threads : todo'[r] \subseteq todo[r]
      BY <1>t, <2>1 DEF JavaMeshTypeOK
    <2> QED
      BY <1>5, <1>w, <1>r, <1>g, <2>4, <2>5 DEF HandOver
  <1>6. ASSUME NEW t \in Threads, Collect(t)
        PROVE  Within(S)'
    <2>1. /\ step[t].op = "collect" /\ \A r \in Threads \ {t} : step'[r] = step[r]
          /\ step'[t].op \in {"collect", "upload"} /\ UNCHANGED <<heldPackets, snapshot>>
      BY <1>6, <1>t, AdvanceIsTyped, PhonesAreDevices DEF Collect, Ops
    <2>2. \A u \in heldPackets[AtPhone(t)] \X (HasInternet \cap {AtPhone(t)}) : u[1] \in S
      BY <1>p, <1>w, <2>1
    <2>3. \A r \in Threads : \A u \in todo'[r] : u[1] \in S
      BY <1>6, <1>t, <1>w, <2>2 DEF Collect, JavaMeshTypeOK
    <2> QED
      BY <1>w, <1>r, <1>g, <2>1, <2>3
  <1>7. ASSUME NEW t \in Threads, Upload(t)
        PROVE  Within(S)'
    <2>1. \A r \in Threads : todo'[r] \subseteq todo[r]
      BY <1>7, <1>t DEF Upload, JavaMeshTypeOK
    <2> QED
      BY <1>7, <1>w, <1>r, <1>g, <2>1 DEF Upload
  <1>8. ASSUME NEW t \in Threads, ClearPhone(t)
        PROVE  Within(S)'
    <2>1. /\ step'[t].op \in {"clear", "forget"} /\ \A r \in Threads \ {t} : step'[r] = step[r]
      BY <1>8, <1>t, AdvanceIsTyped, PhonesAreDevices DEF ClearPhone, Ops
    <2>2. \A d \in Devices : heldPackets'[d] \subseteq S
      BY <1>8, <1>t, <1>w DEF ClearPhone, JavaMeshTypeOK
    <2> QED
      BY <1>8, <1>q, <2>1, <2>2 DEF ClearPhone
  <1>9. ASSUME NEW t \in Threads, EndFlush(t) \/ Forget(t)
        PROVE  Within(S)'
    <2>1. step'[t].op = "returned" /\ \A r \in Threads \ {t} : step'[r] = step[r]
      BY <1>9, <1>t, GotoIsTyped DEF EndFlush, Forget, Ops
    <2> QED
      BY <1>9, <1>w, <1>q, <2>1 DEF EndFlush, Forget
  <1>10. CASE UNCHANGED meshVars
    BY <1>10, <1>w, <1>q DEF meshVars
  <1> QED
    BY <1>1, <1>2, <1>3, <1>4, <1>5, <1>6, <1>7, <1>8, <1>9, <1>10 DEF JavaMeshNext, Done

\* A packet is sent once, with one ttl.
LEMMA SentOnce ==
  ASSUME ShapeOK, [JavaMeshNext]_meshVars
  PROVE  /\ \A p \in Packets : sentTtl[p] # -1 => sentTtl'[p] = sentTtl[p]
         /\ \A p \in Packets, d \in Devices, ttl \in InitialTtls :
               inject(p, d, ttl) => sentTtl'[p] = ttl
  <1>1. ASSUME NEW p \in Packets, NEW d \in Devices, NEW ttl \in InitialTtls, inject(p, d, ttl)
        PROVE  sentTtl'[p] = ttl /\ \A q \in Packets : sentTtl[q] # -1 => sentTtl'[q] = sentTtl[q]
    BY <1>1 DEF inject, ShapeOK, JavaMeshTypeOK
  <1> QED
    BY <1>1 DEF JavaMeshNext, Done, meshVars, Start, TakeSnapshot, NextSource, HandOver,
                Collect, Upload, EndFlush, ClearPhone, Forget

Pays(x) == x.ttl + x.hops = sentTtl[x.packetId]

PaysInv == Within({x \in Copy : Pays(x)})

LEMMA PayingPacketsAreSent ==
  ASSUME JavaMeshTypeOK, NEW x \in Copy, Pays(x)
  PROVE  x.packetId \in Packets /\ sentTtl[x.packetId] # -1
  BY DEF JavaMeshTypeOK, Copy, Pays

LEMMA StepPays == ShapeOK /\ PaysInv /\ [JavaMeshNext]_meshVars => PaysInv'
  <1> SUFFICES ASSUME ShapeOK, PaysInv, [JavaMeshNext]_meshVars PROVE PaysInv'
    OBVIOUS
  <1>1. PICK S : S = {x \in Copy : Pays(x)'}
    OBVIOUS
  <1>2. \A x \in Copy : Pays(x) => x \in S
    BY <1>1, PayingPacketsAreSent, SentOnce DEF Pays, ShapeOK
  <1>3. Within(S)
    BY <1>2 DEF PaysInv, Within
  <1>4. \A x \in S : x \in Copy /\ x.ttl > 0 => HopCopy(x) \in S
    BY <1>1, HopIsPaid DEF Pays
  <1>5. ASSUME NEW p \in Packets, NEW d \in Devices, NEW ttl \in InitialTtls, inject(p, d, ttl)
        PROVE  [packetId |-> p, ttl |-> ttl, hops |-> 0] \in S
    <2>1. sentTtl'[p] = ttl /\ ttl \in Nat
      BY <1>5, SentOnce, JavaMeshAssumption
    <2> QED
      BY <1>1, <2>1 DEF Pays, Copy
  <1>6. Within(S)'
    BY <1>3, <1>4, <1>5, CopiesSpread
  <1> QED
    BY <1>1, <1>6 DEF PaysInv, Within

LEMMA PaysInvariant == JavaMeshSpec => [](ShapeOK /\ PaysInv)
  <1>1. JavaMeshInit => PaysInv
    BY DEF JavaMeshInit, PaysInv, Within, Rounds
  <1> QED
    BY <1>1, ShapeInit, StepShape, StepPays, PTL DEF JavaMeshSpec

-----------------------------------------------------------------------------
\* A round or a flush and a reset that run at the same time know of each other.
OverlapsOK ==
    /\ \A t \in Threads : step[t].op = "idle" => along[t] = {}
    /\ \A r \in Resets : /\ \A t \in Rounds : "reset" \in along[t] /\ "gossip" \in along[r]
                         /\ \A t \in Flushes : "reset" \in along[t] /\ "flush" \in along[r]

\* Nothing begins in a step, and what ends is no longer a round, a flush or a reset.
GoesOn ==
    /\ UNCHANGED historyVars
    /\ \A t \in Threads : step'[t].op # step[t].op =>
          \/ step'[t].op = "returned"
          \/ step[t].op = "snapshot" /\ step'[t].op = "copy"
          \/ step[t].op = "collect" /\ step'[t].op = "upload"
          \/ step[t].op = "clear" /\ step'[t].op = "forget"

LEMMA StartsOrGoesOn ==
  ASSUME ShapeOK, [JavaMeshNext]_meshVars
  PROVE  GoesOn \/ \E t \in Threads, k \in Kinds : Start(t, k)
  <1>t. JavaMeshTypeOK /\ PlacesOK
    BY DEF ShapeOK
  <1>1. ASSUME NEW t \in Threads,
               TakeSnapshot(t) \/ Collect(t) \/ ClearPhone(t)
        PROVE  GoesOn
    <2>1. /\ TakeSnapshot(t) => step'[t].op \in {"snapshot", "copy"} /\ step[t].op = "snapshot"
          /\ Collect(t) => step'[t].op \in {"collect", "upload"} /\ step[t].op = "collect"
          /\ ClearPhone(t) => step'[t].op \in {"clear", "forget"} /\ step[t].op = "clear"
      BY <1>1, <1>t, AdvanceIsTyped, PhonesAreDevices DEF TakeSnapshot, Collect, ClearPhone, Ops
    <2>2. \A r \in Threads \ {t} : step'[r] = step[r]
      BY <1>1, <1>t DEF TakeSnapshot, Collect, ClearPhone, Advance, Goto, JavaMeshTypeOK
    <2> QED
      BY <1>1, <2>1, <2>2 DEF TakeSnapshot, Collect, ClearPhone, GoesOn
  <1>2. ASSUME NEW t \in Threads, NextSource(t) \/ EndFlush(t) \/ Forget(t)
        PROVE  GoesOn
    <2>1. step'[t].op = step[t].op \/ step'[t].op = "returned"
      BY <1>2, <1>t DEF NextSource, EndFlush, Forget, Goto, JavaMeshTypeOK
    <2>2. \A r \in Threads \ {t} : step'[r] = step[r]
      BY <1>2, <1>t DEF NextSource, EndFlush, Forget, Goto, JavaMeshTypeOK
    <2> QED
      BY <1>2, <2>1, <2>2 DEF NextSource, EndFlush, Forget, GoesOn
  <1>3. ASSUME NEW p \in Packets, NEW d \in Devices, NEW ttl \in InitialTtls, inject(p, d, ttl)
        PROVE  GoesOn
    BY <1>3 DEF inject, GoesOn
  <1>4. ASSUME NEW t \in Threads, HandOver(t) \/ Upload(t)
        PROVE  GoesOn
    BY <1>4 DEF HandOver, Upload, GoesOn
  <1>5. CASE UNCHANGED meshVars
    BY <1>5 DEF meshVars, GoesOn
  <1> QED
    BY <1>1, <1>2, <1>3, <1>4, <1>5 DEF JavaMeshNext, Done

LEMMA GoingOnKeepsKinds ==
  ASSUME GoesOn
  PROVE  Rounds' \subseteq Rounds /\ Flushes' \subseteq Flushes /\ Resets' \subseteq Resets
  BY DEF GoesOn, Rounds, Flushes, Resets

\* What a request that begins is, and whom it meets.
LEMMA StartMeets ==
  ASSUME ShapeOK, NEW t \in Threads, NEW k \in Kinds, Start(t, k)
  PROVE  /\ step[t].op = "idle" /\ step'[t].at = 1
         /\ \A r \in Threads \ {t} : step'[r] = step[r]
         /\ k = "gossip" => step'[t].op = "snapshot"
         /\ k = "flush" => step'[t].op = "collect"
         /\ k = "reset" => step'[t].op = "clear"
         /\ \A r \in Threads \ {t} : along[r] \subseteq along'[r]
         /\ \A r \in Resets : k # "reset" => k \in along'[r] /\ "reset" \in along'[t]
         /\ \A r \in Rounds : k = "reset" => "reset" \in along'[r] /\ "gossip" \in along'[t]
         /\ \A r \in Flushes : k = "reset" => "reset" \in along'[r] /\ "flush" \in along'[t]
  <1>1. /\ step[t].op = "idle" /\ step'[t].at = 1 /\ step'[t].op = StepsOf[k][1]
        /\ \A r \in Threads \ {t} : step'[r] = step[r]
    BY DEF Start, Goto, ShapeOK, JavaMeshTypeOK
  <1>2. t \notin Rounds /\ t \notin Flushes /\ t \notin Resets
    BY <1>1 DEF Rounds, Flushes, Resets
  <1>3. /\ along'[t] = UNION {Meets(k, r) : r \in Threads}
        /\ \A r \in Threads \ {t} :
              along'[r] = IF Meets(k, r) # {} THEN along[r] \cup {k} ELSE along[r]
    BY DEF Start
  <1>4. \A r \in Threads : Meets(k, r) \subseteq along'[t]
    BY <1>3
  <1>5. \A r \in Resets : k # "reset" => Meets(k, r) = {"reset"} /\ r \in Threads \ {t}
    BY <1>2, MeetsAre DEF Resets
  <1>6. \A r \in Rounds : k = "reset" => Meets(k, r) = {"gossip"} /\ r \in Threads \ {t}
    BY <1>2, MeetsAre DEF Rounds
  <1>7. \A r \in Flushes : k = "reset" => Meets(k, r) = {"flush"} /\ r \in Threads \ {t}
    <2>1. \A r \in Flushes : r \notin Rounds
      BY DEF Rounds, Flushes
    <2> QED
      BY <1>2, <2>1, MeetsAre DEF Flushes
  <1>9. /\ k = "gossip" => step'[t].op = "snapshot"
        /\ k = "flush" => step'[t].op = "collect"
        /\ k = "reset" => step'[t].op = "clear"
    BY <1>1, StepNames
  <1>10. \A r \in Threads \ {t} : along[r] \subseteq along'[r]
    BY <1>3
  <1>11. \A r \in Resets : k # "reset" => k \in along'[r] /\ "reset" \in along'[t]
    BY <1>3, <1>4, <1>5
  <1>12. \A r \in Rounds : k = "reset" => "reset" \in along'[r] /\ "gossip" \in along'[t]
    BY <1>3, <1>4, <1>6
  <1>13. \A r \in Flushes : k = "reset" => "reset" \in along'[r] /\ "flush" \in along'[t]
    BY <1>3, <1>4, <1>7
  <1> QED
    BY <1>1, <1>9, <1>10, <1>11, <1>12, <1>13

LEMMA StepOverlaps == ShapeOK /\ OverlapsOK /\ [JavaMeshNext]_meshVars => OverlapsOK'
  <1> SUFFICES ASSUME ShapeOK, OverlapsOK, [JavaMeshNext]_meshVars PROVE OverlapsOK'
    OBVIOUS
  <1>1. CASE GoesOn
    <2>1. Rounds' \subseteq Rounds /\ Flushes' \subseteq Flushes /\ Resets' \subseteq Resets
      BY <1>1, GoingOnKeepsKinds
    <2>2. \A t \in Threads : step'[t].op = "idle" => step[t].op = "idle"
      BY <1>1 DEF GoesOn
    <2> QED
      BY <1>1, <2>1, <2>2 DEF GoesOn, historyVars, OverlapsOK
  <1>2. ASSUME NEW t \in Threads, NEW k \in Kinds, Start(t, k)
        PROVE  OverlapsOK'
    <2>1. k \in {"gossip", "flush", "reset"}
      BY DEF Kinds
    <2>2. \A r \in Threads : step'[r].op = "idle" => step[r].op = "idle" /\ r # t
      BY <1>2, <2>1, StartMeets
    <2>3. \A r \in Threads : step[r].op = "idle" => Meets(k, r) = {}
      BY MeetsAre DEF Rounds, Flushes, Resets
    <2>4. \A r \in Threads : step'[r].op = "idle" => along'[r] = {}
      BY <1>2, <2>2, <2>3 DEF Start, OverlapsOK
    <2>5. ASSUME NEW r \in Resets', NEW s \in Rounds'
          PROVE  "reset" \in along'[s] /\ "gossip" \in along'[r]
      <3>1. r \in Threads /\ s \in Threads /\ r # s
        BY DEF Resets, Rounds
      <3>2. r = t => k = "reset" /\ s \in Rounds
        BY <1>2, <2>1, <3>1, StartMeets DEF Resets, Rounds
      <3>3. s = t => k = "gossip" /\ r \in Resets
        BY <1>2, <2>1, <3>1, StartMeets DEF Resets, Rounds
      <3>4. r # t /\ s # t => r \in Resets /\ s \in Rounds
        BY <1>2, <3>1, StartMeets DEF Resets, Rounds
      <3> QED
        BY <1>2, <3>1, <3>2, <3>3, <3>4, StartMeets DEF OverlapsOK
    <2>6. ASSUME NEW r \in Resets', NEW s \in Flushes'
          PROVE  "reset" \in along'[s] /\ "flush" \in along'[r]
      <3>1. r \in Threads /\ s \in Threads /\ r # s
        BY DEF Resets, Flushes
      <3>2. r = t => k = "reset" /\ s \in Flushes
        BY <1>2, <2>1, <3>1, StartMeets DEF Resets, Flushes
      <3>3. s = t => k = "flush" /\ r \in Resets
        BY <1>2, <2>1, <3>1, StartMeets DEF Resets, Flushes
      <3>4. r # t /\ s # t => r \in Resets /\ s \in Flushes
        BY <1>2, <3>1, StartMeets DEF Resets, Flushes
      <3> QED
        BY <1>2, <3>1, <3>2, <3>3, <3>4, StartMeets DEF OverlapsOK
    <2> QED
      BY <2>4, <2>5, <2>6 DEF OverlapsOK
  <1> QED
    BY <1>1, <1>2, StartsOrGoesOn

\* No reset has run along with a round or a flush.
Quiet == \A t \in Threads : along[t] = {}

LEMMA QuietWas ==
  ASSUME ShapeOK, OverlapsOK, [JavaMeshNext]_meshVars, NEW t \in Threads
  PROVE  along[t] \subseteq along'[t]
  <1>1. GoesOn => along' = along
    BY DEF GoesOn, historyVars
  <1>2. ASSUME NEW s \in Threads, NEW k \in Kinds, Start(s, k)
        PROVE  along[t] \subseteq along'[t]
    BY <1>2, StartMeets DEF OverlapsOK
  <1> QED
    BY <1>1, <1>2, StartsOrGoesOn

-----------------------------------------------------------------------------
\* Reset r has been at phone d.
Cleared(r, d) ==
    \E j \in 1 .. Len(DeviceOrder) :
        d = DeviceOrder[j] /\ (step[r].op = "forget" \/ j < step[r].at)

\* What a phone comes to hold was injected or brought by a round, and what a
\* round passes on.
LEMMA HeldChanges ==
  ASSUME ShapeOK, [JavaMeshNext]_meshVars, NEW d \in Devices, NEW x \in heldPackets'[d]
  PROVE  \/ x \in heldPackets[d]
         \/ \E p \in Packets : sentTtl[p] = -1 /\ x.packetId = p
         \/ Rounds # {}
  <1>t. JavaMeshTypeOK /\ PlacesOK /\ TodoOK
    BY DEF ShapeOK
  <1>1. ASSUME NEW p \in Packets, NEW e \in Devices, NEW ttl \in InitialTtls, inject(p, e, ttl)
        PROVE  x \in heldPackets[d] \/ (sentTtl[p] = -1 /\ x.packetId = p)
    <2> DEFINE y == [packetId |-> p, ttl |-> ttl, hops |-> 0]
    <2>1. y \in Copy /\ hold(e, y) /\ sentTtl[p] = -1 /\ y.packetId = p
      BY <1>1, JavaMeshAssumption DEF Copy, inject
    <2> HIDE DEF y
    <2>2. x \in heldPackets[d] \cup {y}
      BY <1>t, <2>1, HoldIsTyped
    <2> QED
      BY <2>1, <2>2
  <1>2. ASSUME NEW t \in Threads, HandOver(t)
        PROVE  Rounds # {}
    BY <1>2 DEF HandOver, Rounds
  <1>3. ASSUME NEW t \in Threads, ClearPhone(t)
        PROVE  x \in heldPackets[d]
    BY <1>3, <1>t DEF ClearPhone, JavaMeshTypeOK
  <1>4. CASE UNCHANGED heldPackets
    BY <1>4
  <1> QED
    BY <1>1, <1>2, <1>3, <1>4
    DEF JavaMeshNext, Done, meshVars, Start, TakeSnapshot, NextSource, Collect,
        Upload, EndFlush, Forget

\* A phone that a reset has been at was cleared in this step or before.
LEMMA ClearedPhones ==
  ASSUME ShapeOK, [JavaMeshNext]_meshVars, NEW r \in Resets', NEW d \in Devices, Cleared(r, d)'
  PROVE  (r \in Resets /\ Cleared(r, d)) \/ heldPackets'[d] = {}
  <1>t. JavaMeshTypeOK /\ PlacesOK
    BY DEF ShapeOK
  <1>r. r \in Threads /\ step'[r].op \in {"clear", "forget"}
    BY DEF Resets
  <1>c. PICK j \in 1 .. Len(DeviceOrder) :
             d = DeviceOrder[j] /\ (step'[r].op = "forget" \/ j < step'[r].at)
    BY DEF Cleared
  <1>1. CASE step'[r] = step[r]
    BY <1>1, <1>r, <1>c DEF Cleared, Resets
  <1>2. ASSUME NEW k \in Kinds, Start(r, k)
        PROVE  FALSE
    <2>1. step'[r].at = 1 /\ step'[r].op # "forget"
      BY <1>2, <1>r, StartMeets DEF Kinds
    <2> QED
      BY <1>c, <2>1, PhonesAreDevices
  <1>3. CASE ClearPhone(r)
    <2>1. /\ step'[r].op \in {"clear", "forget"} /\ step[r].op = "clear"
          /\ step'[r].op = "clear" => step'[r].at = step[r].at + 1
          /\ step'[r].op = "forget" => step[r].at = Len(DeviceOrder)
      BY <1>3, <1>r, <1>t, AdvanceIsTyped, PhonesAreDevices DEF ClearPhone, Ops
    <2>2. step[r].at \in 1 .. Len(DeviceOrder)
      BY <1>r, <1>t, <2>1 DEF PlacesOK
    <2>3. j < step[r].at \/ j = step[r].at
      BY <1>c, <2>1, <2>2, PhonesAreDevices
    <2>4. CASE j < step[r].at
      BY <1>c, <1>r, <2>1, <2>4 DEF Cleared, Resets
    <2>5. CASE j = step[r].at
      BY <1>3, <1>c, <1>t, <2>5 DEF ClearPhone, AtPhone, JavaMeshTypeOK
    <2> QED
      BY <2>3, <2>4, <2>5
  <1>4. ASSUME NEW t \in Threads \ {r},
               \/ \E k \in Kinds : Start(t, k)
               \/ TakeSnapshot(t) \/ NextSource(t) \/ Collect(t) \/ EndFlush(t)
               \/ ClearPhone(t) \/ Forget(t)
        PROVE  step'[r] = step[r]
    BY <1>4, <1>r, <1>t
    DEF Start, TakeSnapshot, NextSource, Collect, EndFlush, ClearPhone, Forget,
        Advance, Goto, JavaMeshTypeOK
  <1>5. ASSUME NEW t \in Threads, HandOver(t) \/ Upload(t)
        PROVE  step'[r] = step[r]
    BY <1>5 DEF HandOver, Upload
  <1>6. ASSUME NEW p \in Packets, NEW e \in Devices, NEW ttl \in InitialTtls, inject(p, e, ttl)
        PROVE  step'[r] = step[r]
    BY <1>6 DEF inject
  <1>7. ASSUME TakeSnapshot(r) \/ NextSource(r) \/ Collect(r) \/ EndFlush(r) \/ Forget(r)
        PROVE  FALSE
    <2>1. /\ TakeSnapshot(r) => step'[r].op \in {"snapshot", "copy"}
          /\ Collect(r) => step'[r].op \in {"collect", "upload"}
      BY <1>r, <1>t, AdvanceIsTyped, PhonesAreDevices DEF TakeSnapshot, Collect, Ops
    <2>2. NextSource(r) => step'[r].op \in {"copy", "returned"}
      BY <1>r, <1>t DEF NextSource, Goto, JavaMeshTypeOK
    <2>3. EndFlush(r) \/ Forget(r) => step'[r].op = "returned"
      BY <1>r, <1>t DEF EndFlush, Forget, Goto, JavaMeshTypeOK
    <2> QED
      BY <1>7, <1>r, <2>1, <2>2, <2>3
  <1>8. CASE UNCHANGED meshVars
    BY <1>8, <1>1 DEF meshVars
  <1> QED
    BY <1>1, <1>2, <1>3, <1>4, <1>5, <1>6, <1>7, <1>8, <1>r DEF JavaMeshNext, Done

\* Before a request began, only what was sent had been sent; and what a phone
\* holds after a reset has been at it was sent since.
ClearInv ==
    /\ \A t \in Threads : \A p \in before[t] : sentTtl[p] # -1
    /\ \A r \in Resets : "gossip" \notin along[r] =>
          \A d \in Devices : Cleared(r, d) =>
              \A x \in heldPackets[d] : x.packetId \notin before[r]

\* While nothing runs into a reset, what is held, seen or to be passed on is of
\* a packet that was never uploaded, or whose claim still stands.
Live(p) == passes[p] = 0 \/ p \in claimed

OnceInv ==
    /\ \A p \in Packets : sentTtl[p] = -1 => passes[p] = 0
    /\ Quiet =>
          /\ \A p \in Packets : passes[p] <= 1
          /\ \A p \in claimed : passes[p] = 1
          /\ Within({x \in Copy : Live(x.packetId)})
          /\ \A r \in Resets, d \in Devices : Cleared(r, d) =>
                \A x \in heldPackets[d] : passes[x.packetId] = 0

\* While no reset runs into it, what a round has seen stays where it was seen,
\* and what has had its turn is everywhere or still to be offered.
ReachInv ==
    \A t \in Rounds : along[t] = {} =>
        /\ \A d \in Devices : \A x \in snapshot[t][d] : holds(d, x.packetId)
        /\ step[t].op = "copy" =>
              \A i \in 1 .. step[t].at : \A x \in snapshot[t][DeviceOrder[i]] :
                  x.ttl > 0 =>
                      \A d \in Devices : holds(d, x.packetId) \/ <<x, d>> \in todo[t]

-----------------------------------------------------------------------------
MeshInv == ShapeOK /\ PaysInv /\ OverlapsOK

LEMMA MeshInvariant == JavaMeshSpec => []MeshInv
  <1>1. JavaMeshInit => OverlapsOK
    BY DEF JavaMeshInit, OverlapsOK, Rounds, Flushes, Resets
  <1>2. MeshInv <=> ShapeOK /\ PaysInv /\ OverlapsOK
    BY DEF MeshInv
  <1> QED
    BY <1>1, <1>2, PaysInvariant, ShapeInit, StepShape, StepOverlaps, PTL DEF JavaMeshSpec

LEMMA StepClear ==
  ASSUME MeshInv, ClearInv, [JavaMeshNext]_meshVars
  PROVE  ClearInv'
  <1>s. ShapeOK /\ OverlapsOK /\ JavaMeshTypeOK
    BY DEF MeshInv, ShapeOK
  <1>1. \A t \in Threads : before'[t] # before[t] =>
            step[t].op = "idle" /\ before'[t] = {p \in Packets : sentTtl[p] # -1}
    <2>1. ASSUME NEW s \in Threads, NEW k \in Kinds, Start(s, k)
          PROVE  \A t \in Threads : before'[t] # before[t] =>
                     step[t].op = "idle" /\ before'[t] = {p \in Packets : sentTtl[p] # -1}
      BY <2>1, <1>s DEF Start, JavaMeshTypeOK
    <2>2. GoesOn => before' = before
      BY DEF GoesOn, historyVars
    <2> QED
      BY <2>1, <2>2, <1>s, StartsOrGoesOn
  <1>2. \A t \in Threads : \A p \in before'[t] : sentTtl'[p] # -1
    <2>1. \A t \in Threads : \A p \in before'[t] : p \in Packets /\ sentTtl[p] # -1
      BY <1>1, <1>s DEF ClearInv, JavaMeshTypeOK
    <2> QED
      BY <1>s, <2>1, SentOnce
  <1>3. ASSUME NEW r \in Resets', "gossip" \notin along'[r], NEW d \in Devices, Cleared(r, d)',
               NEW x \in heldPackets'[d]
        PROVE  x.packetId \notin before'[r]
    <2>1. r \in Resets /\ Cleared(r, d)
      BY <1>3, <1>s, ClearedPhones
    <2>2. r \in Threads /\ "gossip" \notin along[r] /\ before'[r] = before[r]
      BY <1>1, <1>3, <1>s, <2>1, QuietWas DEF Resets
    <2>3. Rounds = {}
      BY <1>s, <2>1, <2>2 DEF OverlapsOK
    <2>4. x \in heldPackets[d] \/ \E p \in Packets : sentTtl[p] = -1 /\ x.packetId = p
      BY <1>s, <2>3, HeldChanges
    <2> QED
      BY <2>1, <2>2, <2>4 DEF ClearInv
  <1> QED
    BY <1>2, <1>3 DEF ClearInv

LEMMA StepOfReset ==
  ASSUME MeshInv, ClearInv, [JavaMeshNext]_meshVars, NEW t \in Threads,
         step[t].op = "forget", step'[t].op = "returned", "gossip" \notin along[t]
  PROVE  \A d \in Devices : \A x \in heldPackets'[d] : x.packetId \notin before[t]
  <1>s. ShapeOK /\ OverlapsOK /\ JavaMeshTypeOK
    BY DEF MeshInv, ShapeOK
  <1>1. t \in Resets /\ Rounds = {}
    BY <1>s DEF Resets, OverlapsOK
  <1>2. ASSUME NEW d \in Devices, NEW x \in heldPackets'[d]
        PROVE  x.packetId \notin before[t]
    <2>1. Cleared(t, d)
      BY PhonesAreDevices DEF Cleared
    <2>2. x \in heldPackets[d] \/ \E p \in Packets : sentTtl[p] = -1 /\ x.packetId = p
      BY <1>1, <1>s, HeldChanges
    <2> QED
      BY <1>1, <2>1, <2>2 DEF ClearInv
  <1> QED
    BY <1>2

(* Whatever is sent, flushed or reset meanwhile, no packet sent before a   *)
(* reset is in the mesh when it returns (ApiController.java, line 145),    *)
(* unless a round ran into it.                                             *)
THEOREM ResetsClear == JavaMeshSpec => ResetClearsMesh
  <1>1. JavaMeshInit => ClearInv
    BY DEF JavaMeshInit, ClearInv, Resets
  <1>2. MeshInv /\ ClearInv /\ [JavaMeshNext]_meshVars =>
          [\A t \in Threads :
             step[t].op = "forget" /\ step'[t].op = "returned" /\ "gossip" \notin along[t] =>
                 \A d \in Devices : \A x \in heldPackets'[d] :
                     x.packetId \notin before[t]]_meshVars
    BY StepOfReset
  <1> QED
    BY <1>1, <1>2, MeshInvariant, StepClear, PTL DEF JavaMeshSpec, ResetClearsMesh

-----------------------------------------------------------------------------
\* What a step does to the claims and the count of uploads.
LEMMA FlushChanges ==
  ASSUME ShapeOK, [JavaMeshNext]_meshVars
  PROVE  \/ UNCHANGED flushVars
         \/ \E t \in Flushes : Upload(t)
         \/ \E t \in Resets : Forget(t)
  <1>1. ASSUME NEW t \in Threads, Upload(t)
        PROVE  t \in Flushes
    BY <1>1 DEF Upload, Flushes
  <1>2. ASSUME NEW t \in Threads, Forget(t)
        PROVE  t \in Resets
    BY <1>2 DEF Forget, Resets
  <1> QED
    BY <1>1, <1>2
    DEF JavaMeshNext, Done, meshVars, inject, Start, TakeSnapshot, NextSource, HandOver,
        Collect, EndFlush, ClearPhone

\* One upload of a packet: it is claimed now, and counted if it was not before.
LEMMA UploadCounts ==
  ASSUME ShapeOK, NEW t \in Threads, Upload(t)
  PROVE  \E u \in todo[t] :
            /\ u[1] \in Copy /\ u[1].packetId \in Packets
            /\ claimed' = claimed \cup {u[1].packetId}
            /\ \A p \in Packets :
                  passes'[p] = IF p = u[1].packetId /\ p \notin claimed
                               THEN passes[p] + 1 ELSE passes[p]
            /\ UNCHANGED <<sentTtl, heldPackets>>
  <1>1. PICK u \in todo[t] :
             /\ claimed' = claimed \cup {u[1].packetId}
             /\ passes' = IF u[1].packetId \in claimed THEN passes
                          ELSE [passes EXCEPT ![u[1].packetId] = @ + 1]
    BY DEF Upload
  <1>2. u[1] \in Copy /\ u[1].packetId \in Packets
    BY <1>1 DEF ShapeOK, JavaMeshTypeOK, Copy
  <1>3. \A p \in Packets :
            passes'[p] = IF p = u[1].packetId /\ p \notin claimed
                         THEN passes[p] + 1 ELSE passes[p]
    BY <1>1, <1>2 DEF ShapeOK, JavaMeshTypeOK
  <1> QED
    BY <1>1, <1>2, <1>3 DEF Upload

LEMMA StepOnce ==
  ASSUME MeshInv, OnceInv, [JavaMeshNext]_meshVars
  PROVE  OnceInv'
  <1>s. ShapeOK /\ PaysInv /\ OverlapsOK /\ JavaMeshTypeOK
    BY DEF MeshInv, ShapeOK
  <1>k. \A t \in Threads : Upload(t) => t \in Flushes
    BY DEF Upload, Flushes
  <1>c. UNCHANGED flushVars => UNCHANGED claimed /\ UNCHANGED passes
    BY DEF flushVars
  \* An upload is of a packet that was sent.
  <1>1. \A p \in Packets : sentTtl'[p] = -1 => passes'[p] = 0
    <2>1. \A p \in Packets : sentTtl'[p] = -1 => sentTtl[p] = -1
      BY <1>s, SentOnce
    <2>2. ASSUME NEW t \in Threads, Upload(t), NEW p \in Packets, sentTtl[p] = -1
          PROVE  passes'[p] = passes[p]
      <3>1. PICK u \in todo[t] :
               /\ u[1] \in Copy
               /\ \A q \in Packets : passes'[q] = IF q = u[1].packetId /\ q \notin claimed
                                                  THEN passes[q] + 1 ELSE passes[q]
        BY <1>s, <2>2, UploadCounts
      <3>2. u[1] \in {x \in Copy : Pays(x)}
        BY <1>s, <3>1 DEF PaysInv, Within
      <3>3. u[1].packetId # p
        BY <1>s, <2>2, <3>2, PayingPacketsAreSent
      <3> QED
        BY <3>1, <3>3
    <2>3. \A t \in Threads : Forget(t) => UNCHANGED passes
      BY DEF Forget
    <2> QED
      BY <1>s, <1>c, <2>1, <2>2, <2>3, FlushChanges DEF OnceInv, Flushes, Resets
  <1>2. ASSUME Quiet'
        PROVE  /\ \A p \in Packets : passes'[p] <= 1
               /\ \A p \in claimed' : passes'[p] = 1
               /\ Within({x \in Copy : Live(x.packetId)})'
               /\ \A r \in Resets', d \in Devices : Cleared(r, d)' =>
                     \A x \in heldPackets'[d] : passes'[x.packetId] = 0
    <2>q. Quiet
      BY <1>2, <1>s, QuietWas DEF Quiet
    <2>o. /\ \A p \in Packets : passes[p] <= 1
          /\ \A p \in claimed : passes[p] = 1
          /\ Within({x \in Copy : Live(x.packetId)})
          /\ \A r \in Resets, d \in Devices : Cleared(r, d) =>
                \A x \in heldPackets[d] : passes[x.packetId] = 0
      BY <2>q DEF OnceInv
    <2>n. Resets # {} => Rounds = {} /\ Flushes = {}
      BY <2>q, <1>s DEF OverlapsOK, Quiet, Resets
    <2>f. \A t \in Threads : Forget(t) =>
             /\ step[t].op = "forget" /\ t \in Resets /\ claimed' = {} /\ passes' = passes
             /\ heldPackets' = heldPackets /\ todo' = todo
      BY DEF Forget, Resets
    <2> DEFINE Once == /\ \A p \in Packets : passes'[p] <= 1
                       /\ \A p \in claimed' : passes'[p] = 1
    <2>1. Once
      <3>1. ASSUME NEW t \in Threads, Upload(t)
            PROVE  Once
        <4>1. PICK u \in todo[t] :
               /\ u[1] \in Copy /\ u[1].packetId \in Packets
               /\ claimed' = claimed \cup {u[1].packetId}
               /\ \A q \in Packets : passes'[q] = IF q = u[1].packetId /\ q \notin claimed
                                                  THEN passes[q] + 1 ELSE passes[q]
          BY <1>s, <3>1, UploadCounts
        <4>2. u[1] \in {x \in Copy : Live(x.packetId)}
          BY <2>o, <4>1 DEF Within
        <4>3. u[1].packetId \in claimed \/ passes[u[1].packetId] = 0
          BY <4>2 DEF Live
        <4>4. claimed \subseteq Packets
          BY <1>s DEF JavaMeshTypeOK
        <4>5. \A q \in Packets : q # u[1].packetId \/ q \in claimed => passes'[q] = passes[q]
          BY <4>1
        <4>6. u[1].packetId \notin claimed => passes'[u[1].packetId] = 1
          BY <4>1, <4>3
        <4> QED
          BY <2>o, <4>1, <4>4, <4>5, <4>6
      <3>2. ASSUME NEW t \in Threads, Forget(t)
            PROVE  Once
        BY <2>o, <2>f, <3>2
      <3>3. CASE UNCHANGED flushVars
        BY <2>o, <3>3, <1>c
      <3> QED
        BY <1>s, <3>1, <3>2, <3>3, FlushChanges DEF Flushes, Resets
    <2>2. \A r \in Resets', d \in Devices : Cleared(r, d)' =>
             \A x \in heldPackets'[d] : passes'[x.packetId] = 0
      <3> SUFFICES ASSUME NEW r \in Resets', NEW d \in Devices, Cleared(r, d)',
                          NEW x \in heldPackets'[d]
                   PROVE  passes'[x.packetId] = 0
        OBVIOUS
      <3>1. r \in Resets /\ Cleared(r, d)
        BY <1>s, ClearedPhones
      <3>2. Rounds = {} /\ Flushes = {}
        BY <2>n, <3>1
      <3>3. passes' = passes
        BY <1>s, <1>c, <2>f, <3>2, FlushChanges DEF Resets
      <3>4. x \in heldPackets[d] \/ \E p \in Packets : sentTtl[p] = -1 /\ x.packetId = p
        BY <1>s, <3>2, HeldChanges
      <3> QED
        BY <2>o, <3>1, <3>3, <3>4 DEF OnceInv
    <2>3. Within({x \in Copy : Live(x.packetId)})'
      <3>1. ASSUME NEW t \in Threads, Forget(t)
            PROVE  Within({x \in Copy : Live(x.packetId)})'
        <4>1. t \in Resets /\ Rounds = {} /\ Flushes = {} /\ step[t].op = "forget"
          BY <2>f, <2>n, <3>1
        <4>2. Rounds' = {}
          <5>1. step'[t].op = "returned" /\ \A r \in Threads \ {t} : step'[r] = step[r]
            BY <3>1, <1>s DEF Forget, Goto, JavaMeshTypeOK
          <5> QED
            BY <4>1, <5>1 DEF Rounds
        <4>3. \A d \in Devices : \A x \in heldPackets'[d] : x \in Copy /\ passes'[x.packetId] = 0
          <5>1. \A d \in Devices : Cleared(t, d)
            BY <4>1, PhonesAreDevices DEF Cleared
          <5> QED
            BY <1>s, <2>o, <2>f, <3>1, <4>1, <5>1 DEF JavaMeshTypeOK
        <4>4. \A r \in Threads : todo'[r] = {}
          BY <1>s, <2>f, <3>1, <4>1 DEF ShapeOK, TodoOK, Rounds, Flushes
        <4> QED
          BY <4>2, <4>3, <4>4 DEF Within, Live
      <3>2. ASSUME \A p \in Packets : Live(p) => Live(p)'
            PROVE  Within({x \in Copy : Live(x.packetId)})'
        <4>1. PICK S : S = {x \in Copy : Live(x.packetId)'}
          OBVIOUS
        <4>2. \A x \in Copy : Live(x.packetId) => x \in S
          BY <3>2, <4>1 DEF Copy
        <4>3. Within(S)
          BY <2>o, <4>2 DEF Within
        <4>4. \A x \in S : x \in Copy /\ x.ttl > 0 => HopCopy(x) \in S
          BY <4>1, HopIsPaid
        <4>5. ASSUME NEW p \in Packets, NEW d \in Devices, NEW ttl \in InitialTtls,
                     inject(p, d, ttl)
              PROVE  [packetId |-> p, ttl |-> ttl, hops |-> 0] \in S
          <5> DEFINE y == [packetId |-> p, ttl |-> ttl, hops |-> 0]
          <5>1. y \in Copy /\ y.packetId = p
            BY JavaMeshAssumption DEF Copy
          <5>2. sentTtl[p] = -1
            BY <4>5 DEF inject
          <5>3. Live(p)
            BY <5>2 DEF OnceInv, Live
          <5> HIDE DEF y
          <5>4. y \in S
            BY <4>2, <5>1, <5>3
          <5> QED
            BY <5>4 DEF y
        <4>6. Within(S)'
          BY <1>s, <4>3, <4>4, <4>5, CopiesSpread
        <4> QED
          BY <4>1, <4>6 DEF Within
      <3>3. ASSUME NEW t \in Threads, Upload(t)
            PROVE  \A p \in Packets : Live(p) => Live(p)'
        BY <1>s, <3>3, UploadCounts DEF Live
      <3>4. UNCHANGED flushVars => \A p \in Packets : Live(p) => Live(p)'
        BY <1>c DEF Live
      <3> QED
        BY <1>s, <3>1, <3>2, <3>3, <3>4, FlushChanges DEF Flushes, Resets
    <2> QED
      BY <2>1, <2>2, <2>3
  <1> QED
    BY <1>1, <1>2 DEF OnceInv

(* However many bridges hold a packet and flush it at once, before and     *)
(* after resets, one upload gets past the cache (ApiController.java,       *)
(* flushBridges; IdempotencyService.java, claim), unless a reset ran along *)
(* with a flush or a round.                                                *)
THEOREM JavaPassesOnce == JavaMeshSpec => []PassesOnce
  <1>1. JavaMeshInit => OnceInv
    BY DEF JavaMeshInit, OnceInv, Within, Rounds, Resets
  <1>2. MeshInv /\ OnceInv => PassesOnce
    <2> SUFFICES ASSUME MeshInv, OnceInv, Quiet, NEW p \in Packets, passes[p] > 1
                 PROVE  FALSE
      BY DEF PassesOnce, Quiet
    <2>1. passes[p] \in Nat /\ passes[p] <= 1
      BY DEF OnceInv, MeshInv, ShapeOK, JavaMeshTypeOK
    <2> QED
      BY <2>1
  <1> QED
    BY <1>1, <1>2, MeshInvariant, StepOnce, PTL DEF JavaMeshSpec

-----------------------------------------------------------------------------
\* A phone forgets only when it is cleared.
LEMMA HeldStays ==
  ASSUME ShapeOK, [JavaMeshNext]_meshVars, Resets = {}, NEW d \in Devices
  PROVE  heldPackets[d] \subseteq heldPackets'[d]
  <1>t. JavaMeshTypeOK /\ TodoOK
    BY DEF ShapeOK
  <1>1. ASSUME NEW p \in Packets, NEW e \in Devices, NEW ttl \in InitialTtls, inject(p, e, ttl)
        PROVE  heldPackets[d] \subseteq heldPackets'[d]
    BY <1>1, <1>t DEF inject, hold, JavaMeshTypeOK
  <1>2. ASSUME NEW t \in Threads, HandOver(t)
        PROVE  heldPackets[d] \subseteq heldPackets'[d]
    BY <1>2, <1>t DEF HandOver, hold, JavaMeshTypeOK
  <1>3. ASSUME NEW t \in Threads, ClearPhone(t)
        PROVE  FALSE
    BY <1>3 DEF ClearPhone, Resets
  <1> QED
    BY <1>1, <1>2, <1>3
    DEF JavaMeshNext, Done, meshVars, Start, TakeSnapshot, NextSource, Collect,
        Upload, EndFlush, Forget

\* What a round t has seen of a phone is held there.
SeenIsHeld(t) == \A d \in Devices : \A x \in snapshot[t][d] : holds(d, x.packetId)

\* Packet x has reached d, or is about to be offered to it.
Reaches(t, x, d) == holds(d, x.packetId) \/ <<x, d>> \in todo[t]

\* The phones up to place n have had their turn in round t.
HadTurns(t, n) ==
    \A i \in 1 .. n : \A x \in snapshot[t][DeviceOrder[i]] :
        x.ttl > 0 => \A d \in Devices : Reaches(t, x, d)

LEMMA ReachInvIs ==
  ReachInv <=> \A t \in Threads : along[t] = {} =>
      /\ step[t].op \in {"snapshot", "copy"} => SeenIsHeld(t)
      /\ step[t].op = "copy" => HadTurns(t, step[t].at)
  BY DEF ReachInv, SeenIsHeld, HadTurns, Reaches, Rounds

\* What another request does is of no concern to a round.
LEMMA OthersDoNoHarm ==
  ASSUME ShapeOK, [JavaMeshNext]_meshVars, Resets = {}, NEW t \in Threads,
         UNCHANGED <<step[t], snapshot[t], todo[t]>>
  PROVE  /\ SeenIsHeld(t) => SeenIsHeld(t)'
         /\ step[t].op = "copy" /\ HadTurns(t, step[t].at) => HadTurns(t, step[t].at)'
  <1>1. \A d \in Devices : \A p : holds(d, p) => holds(d, p)'
    BY HeldStays DEF holds
  <1>2. SeenIsHeld(t) => SeenIsHeld(t)'
    BY <1>1 DEF SeenIsHeld
  <1>3. step[t].op = "copy" /\ HadTurns(t, step[t].at) => HadTurns(t, step[t].at)'
    BY <1>1 DEF HadTurns, Reaches
  <1> QED
    BY <1>2, <1>3

\* The turn of the next phone.
LEMMA NextSourceReaches ==
  ASSUME ShapeOK, NEW t \in Threads, NextSource(t), SeenIsHeld(t), HadTurns(t, step[t].at),
         step'[t].op = "copy"
  PROVE  SeenIsHeld(t)' /\ HadTurns(t, step[t].at)'
  <1>t. JavaMeshTypeOK /\ PlacesOK
    BY DEF ShapeOK
  <1>1. /\ step[t].op = "copy" /\ todo[t] = {}
        /\ UNCHANGED <<heldPackets, snapshot>>
    BY DEF NextSource
  <1>2. step[t].at < Len(DeviceOrder)
    <2> SUFFICES ASSUME ~(step[t].at < Len(DeviceOrder)) PROVE FALSE
      OBVIOUS
    <2> QED
      BY <1>t DEF NextSource, Goto, JavaMeshTypeOK
  <1> DEFINE src == DeviceOrder[step[t].at + 1]
  <1>3. step'[t].at = step[t].at + 1 /\ todo'[t] = Offers(t, src)
    BY <1>t, <1>2 DEF NextSource, Goto, JavaMeshTypeOK
  <1>4. step[t].at \in 0 .. Len(DeviceOrder) /\ src \in Devices
    BY <1>t, <1>1, <1>2, PhonesAreDevices DEF PlacesOK
  <1>5. SeenIsHeld(t)'
    BY <1>1 DEF SeenIsHeld, holds
  <1> HIDE DEF src
  <1>6. ASSUME NEW x \in snapshot[t][src], x.ttl > 0, NEW d \in Devices
        PROVE  Reaches(t, x, d)'
    <2>1. CASE d = src
      BY <1>4, <1>5, <1>1, <2>1 DEF SeenIsHeld, Reaches
    <2>2. CASE d # src
      BY <1>3, <1>6, <2>2 DEF Offers, Reaches
    <2> QED
      BY <2>1, <2>2
  <1>7. ASSUME NEW i \in 1 .. step[t].at, NEW x \in snapshot[t][DeviceOrder[i]], x.ttl > 0,
               NEW d \in Devices
        PROVE  Reaches(t, x, d)'
    BY <1>1, <1>7 DEF HadTurns, Reaches, holds
  <1>8. \A i \in 1 .. step'[t].at : i \in 1 .. step[t].at \/ i = step[t].at + 1
    BY <1>3, <1>4
  <1>9. \A i \in 1 .. step'[t].at : \A x \in snapshot'[t][DeviceOrder[i]] :
            x.ttl > 0 => \A d \in Devices : Reaches(t, x, d)'
    BY <1>1, <1>6, <1>7, <1>8 DEF src
  <1> QED
    BY <1>5, <1>9 DEF HadTurns

\* A packet that is offered is held after it.
LEMMA HandOverReaches ==
  ASSUME ShapeOK, [JavaMeshNext]_meshVars, Resets = {}, NEW t \in Threads, HandOver(t),
         SeenIsHeld(t), HadTurns(t, step[t].at)
  PROVE  SeenIsHeld(t)' /\ HadTurns(t, step[t].at)'
  <1>t. JavaMeshTypeOK /\ TodoOK
    BY DEF ShapeOK
  <1>1. \A d \in Devices : \A p : holds(d, p) => holds(d, p)'
    BY HeldStays DEF holds
  <1>2. PICK u \in todo[t] : /\ hold(u[2], HopCopy(u[1]))
                             /\ todo' = [todo EXCEPT ![t] = @ \ {u}]
    BY DEF HandOver
  <1>3. u \in Copy \X Devices /\ u[1].ttl > 0
    BY <1>t, <1>2 DEF HandOver, JavaMeshTypeOK, TodoOK
  <1>4. holds(u[2], u[1].packetId)'
    <2>1. HopCopy(u[1]) \in Copy /\ HopCopy(u[1]).packetId = u[1].packetId
      BY <1>3, HopIsPaid
    <2>2. \E y \in heldPackets'[u[2]] : y.packetId = HopCopy(u[1]).packetId
      BY <1>t, <1>2, <1>3, <2>1, HoldIsTyped
    <2> QED
      BY <2>1, <2>2 DEF holds
  <1>5. todo'[t] = todo[t] \ {u} /\ UNCHANGED <<step, snapshot>>
    BY <1>t, <1>2 DEF HandOver, JavaMeshTypeOK
  <1>6. ASSUME NEW x, NEW d \in Devices, Reaches(t, x, d)
        PROVE  Reaches(t, x, d)'
    <2>1. <<x, d>> = u => holds(d, x.packetId)'
      BY <1>4
    <2> QED
      BY <1>1, <1>5, <1>6, <2>1 DEF Reaches
  <1>7. SeenIsHeld(t)'
    BY <1>1, <1>5 DEF SeenIsHeld
  <1>8. HadTurns(t, step[t].at)'
    BY <1>5, <1>6 DEF HadTurns
  <1> QED
    BY <1>7, <1>8

\* The snapshot of one more phone.
LEMMA TakeSnapshotReaches ==
  ASSUME ShapeOK, NEW t \in Threads, TakeSnapshot(t), SeenIsHeld(t)
  PROVE  SeenIsHeld(t)' /\ (step'[t].op = "copy" => HadTurns(t, step[t].at)')
  <1>t. JavaMeshTypeOK /\ PlacesOK
    BY DEF ShapeOK
  <1>1. step[t].op = "snapshot" /\ AtPhone(t) \in Devices /\ UNCHANGED heldPackets
    BY <1>t, PhonesAreDevices DEF TakeSnapshot, PlacesOK, AtPhone
  <1>2. \A d \in Devices : snapshot'[t][d] = IF d = AtPhone(t) THEN heldPackets[d]
                                             ELSE snapshot[t][d]
    BY <1>t, <1>1 DEF TakeSnapshot, JavaMeshTypeOK
  <1>3. SeenIsHeld(t)'
    BY <1>1, <1>2 DEF SeenIsHeld, holds
  <1>4. step'[t].op = "copy" => step'[t].at = 0
    <2>1. CASE step[t].at < Len(DeviceOrder)
      BY <1>t, <1>1, <2>1 DEF TakeSnapshot, Advance, Goto, JavaMeshTypeOK
    <2>2. CASE ~(step[t].at < Len(DeviceOrder))
      BY <1>t, <2>2 DEF TakeSnapshot, Advance, Goto, JavaMeshTypeOK
    <2> QED
      BY <2>1, <2>2
  <1>5. step'[t].op = "copy" => HadTurns(t, step[t].at)'
    BY <1>4 DEF HadTurns
  <1> QED
    BY <1>3, <1>5

\* A request changes only what is its own.
LEMMA OwnStepsOnly ==
  ASSUME ShapeOK, [JavaMeshNext]_meshVars, NEW t \in Threads
  PROVE  \/ UNCHANGED <<step[t], snapshot[t], todo[t]>>
         \/ \E k \in Kinds : Start(t, k)
         \/ TakeSnapshot(t) \/ NextSource(t) \/ HandOver(t)
         \/ Collect(t) \/ Upload(t) \/ EndFlush(t) \/ ClearPhone(t) \/ Forget(t)
  <1>t. JavaMeshTypeOK
    BY DEF ShapeOK
  <1>1. ASSUME NEW s \in Threads \ {t},
               \/ \E k \in Kinds : Start(s, k)
               \/ EndFlush(s) \/ ClearPhone(s) \/ Forget(s)
        PROVE  UNCHANGED <<step[t], snapshot[t], todo[t]>>
    BY <1>1, <1>t DEF Start, EndFlush, ClearPhone, Forget, Advance, Goto, JavaMeshTypeOK
  <1>2. ASSUME NEW s \in Threads \ {t},
               TakeSnapshot(s) \/ NextSource(s) \/ Collect(s)
        PROVE  UNCHANGED <<step[t], snapshot[t], todo[t]>>
    BY <1>2, <1>t DEF TakeSnapshot, NextSource, Collect, Advance, Goto, JavaMeshTypeOK
  <1>3. ASSUME NEW s \in Threads \ {t}, HandOver(s) \/ Upload(s)
        PROVE  UNCHANGED <<step[t], snapshot[t], todo[t]>>
    BY <1>3, <1>t DEF HandOver, Upload, JavaMeshTypeOK
  <1>4. ASSUME NEW p \in Packets, NEW e \in Devices, NEW ttl \in InitialTtls, inject(p, e, ttl)
        PROVE  UNCHANGED <<step[t], snapshot[t], todo[t]>>
    BY <1>4 DEF inject
  <1>5. CASE UNCHANGED meshVars
    BY <1>5 DEF meshVars
  <1> QED
    BY <1>1, <1>2, <1>3, <1>4, <1>5 DEF JavaMeshNext, Done

LEMMA StepReach ==
  ASSUME MeshInv, ReachInv, [JavaMeshNext]_meshVars
  PROVE  ReachInv'
  <1>s. ShapeOK /\ OverlapsOK /\ JavaMeshTypeOK /\ PlacesOK /\ TodoOK
    BY DEF MeshInv, ShapeOK
  <1> SUFFICES ASSUME NEW t \in Threads, along'[t] = {}, step'[t].op \in {"snapshot", "copy"}
               PROVE  /\ SeenIsHeld(t)'
                      /\ step'[t].op = "copy" => HadTurns(t, step[t].at)'
    BY DEF ReachInv, SeenIsHeld, HadTurns, Reaches, Rounds
  <1>1. along[t] = {}
    BY <1>s, QuietWas
  <1>2. CASE t \in Rounds
    <2>1. Resets = {}
      BY <1>1, <1>2, <1>s DEF OverlapsOK
    <2>2. SeenIsHeld(t) /\ (step[t].op = "copy" => HadTurns(t, step[t].at))
      BY <1>1, <1>2, ReachInvIs DEF Rounds
    <2>3. step[t].op \in {"snapshot", "copy"}
      BY <1>2 DEF Rounds
    <2>4. CASE UNCHANGED <<step[t], snapshot[t], todo[t]>>
      BY <1>s, <2>1, <2>2, <2>4, OthersDoNoHarm
    <2>5. CASE TakeSnapshot(t)
      BY <1>s, <2>2, <2>5, TakeSnapshotReaches
    <2>6. CASE NextSource(t)
      <3>1. step[t].op = "copy" /\ step'[t].op # "snapshot"
        BY <1>s, <2>6 DEF NextSource, Goto, JavaMeshTypeOK
      <3> QED
        BY <1>s, <2>2, <2>6, <3>1, NextSourceReaches
    <2>7. CASE HandOver(t)
      <3>1. step[t].op = "copy"
        BY <2>7 DEF HandOver
      <3> QED
        BY <1>s, <2>1, <2>2, <2>7, <3>1, HandOverReaches
    <2>8. ASSUME \/ \E k \in Kinds : Start(t, k)
                 \/ Collect(t) \/ Upload(t) \/ EndFlush(t) \/ ClearPhone(t) \/ Forget(t)
          PROVE  FALSE
      BY <2>3, <2>8 DEF Start, Collect, Upload, EndFlush, ClearPhone, Forget
    <2> QED
      BY <1>s, <2>4, <2>5, <2>6, <2>7, <2>8, OwnStepsOnly
  <1>3. CASE t \notin Rounds
    <2>1. step[t].op \notin {"snapshot", "copy"}
      BY <1>3 DEF Rounds
    <2>2. ~GoesOn
      BY <2>1 DEF GoesOn
    <2>3. PICK s \in Threads, k \in Kinds : Start(s, k)
      BY <1>s, <2>2, StartsOrGoesOn
    <2>4. s = t /\ step[t].op = "idle" /\ UNCHANGED snapshot
      <3>1. \A r \in Threads \ {s} : step'[r] = step[r]
        BY <1>s, <2>3, StartMeets
      <3>2. s = t
        BY <2>1, <3>1
      <3> QED
        BY <2>3, <3>2 DEF Start
    <2>5. step'[t].op # "copy"
      BY <1>s, <2>3, <2>4, StartMeets DEF Kinds
    <2>6. SeenIsHeld(t)'
      BY <1>s, <2>4 DEF TodoOK, SeenIsHeld
    <2> QED
      BY <2>5, <2>6
  <1> QED
    BY <1>2, <1>3

LEMMA RoundEnds ==
  ASSUME MeshInv, ReachInv, [JavaMeshNext]_meshVars, NEW t \in Threads,
         step[t].op = "copy", step'[t].op = "returned", along[t] = {}
  PROVE  \A src \in Devices : \A x \in snapshot[t][src] :
             x.ttl > 0 => \A d \in Devices : holds(d, x.packetId)
  <1>s. ShapeOK /\ JavaMeshTypeOK /\ PlacesOK
    BY DEF MeshInv, ShapeOK
  <1>1. NextSource(t)
    <2>1. HandOver(t) => UNCHANGED step
      BY DEF HandOver
    <2>2. ~\/ \E k \in Kinds : Start(t, k)
           \/ TakeSnapshot(t) \/ Collect(t) \/ Upload(t) \/ EndFlush(t)
           \/ ClearPhone(t) \/ Forget(t)
      BY DEF Start, TakeSnapshot, Collect, Upload, EndFlush, ClearPhone, Forget
    <2> QED
      BY <1>s, <2>1, <2>2, OwnStepsOnly
  <1>2. todo[t] = {} /\ ~(step[t].at < Len(DeviceOrder))
    BY <1>1, <1>s DEF NextSource, Goto, JavaMeshTypeOK
  <1>3. step[t].at = Len(DeviceOrder)
    BY <1>2, <1>s, PhonesAreDevices DEF PlacesOK
  <1>4. HadTurns(t, step[t].at)
    BY ReachInvIs
  <1> QED
    BY <1>2, <1>3, <1>4, PhonesAreDevices DEF HadTurns, Reaches

(* When a round of gossip ends, every packet it saw that has ttl left is   *)
(* on every phone (MeshSimulatorService.java, gossipOnce), whatever other  *)
(* rounds, flushes and senders do, unless a reset ran into it.             *)
THEOREM RoundsReachAll == JavaMeshSpec => RoundReachesAll
  <1>1. JavaMeshInit => ReachInv
    BY DEF JavaMeshInit, ReachInv, Rounds
  <1>2. MeshInv /\ ReachInv /\ [JavaMeshNext]_meshVars =>
          [\A t \in Threads :
             step[t].op = "copy" /\ step'[t].op = "returned" /\ along[t] = {} =>
                 \A src \in Devices : \A x \in snapshot[t][src] :
                     x.ttl > 0 => \A d \in Devices : holds(d, x.packetId)]_meshVars
    BY RoundEnds
  <1> QED
    BY <1>1, <1>2, MeshInvariant, StepReach, PTL DEF JavaMeshSpec, RoundReachesAll

=============================================================================
