------------------------------- MODULE JavaMesh -------------------------------
(***************************************************************************)
(* The Java service/MeshSimulatorService.java and VirtualDevice.java under *)
(* the threads of ApiController: gossip rounds, flushes, resets and sends  *)
(* run at the same time, and only the single calls on a phone's            *)
(* ConcurrentHashMap, or on that of the claims, are atomic.  A copy of a   *)
(* packet carries the ttl left and, as history, the hops it has made.      *)
(* What ingest() does with a packet it has claimed is in JavaIngestion.    *)
(***************************************************************************)
EXTENDS Integers, Sequences, FiniteSetsExt

CONSTANTS
    DeviceOrder,    \* the phones, in the order devices.values() lists them
    Packets,        \* the packets ever sent
    InitialTtls,    \* the ttl values a sender may choose
    HasInternet,    \* the phones that are bridges
    Threads         \* bound: the requests to gossip, flush or reset

VARIABLES
    heldPackets,    \* heldPackets[d] : the copies phone d holds
    sentTtl,        \* sentTtl[p] : the ttl p was sent with, -1 before
    step,           \* step[t] : what request t does next, and at which phone
    snapshot,       \* snapshot[t][d] : what gossip t saw phone d hold
    todo,           \* todo[t] : in a round, what the phone of this turn has yet to
                    \*           offer, to whom; in a flush, the uploads to be made
    claimed,        \* the packets whose hash is in the idempotency map
    passes,         \* passes[p] : history, how often p was claimed
    before,         \* before[t] : history, the packets sent before t began
    along           \* along[t] : history, the rounds and flushes a reset t ran along
                    \*            with, or the resets a round or flush t did

historyVars == <<before, along>>
flushVars == <<claimed, passes>>
meshVars == <<heldPackets, sentTtl, step, snapshot, todo, flushVars, historyVars>>

Devices == Range(DeviceOrder)

ASSUME JavaMeshAssumption ==
    /\ DeviceOrder \in Seq(Devices) /\ DeviceOrder # <<>>
    /\ InitialTtls \subseteq Nat
    /\ HasInternet \subseteq Devices

Places == DOMAIN DeviceOrder

Copy == [packetId : Packets, ttl : Nat, hops : Nat]

\* The steps of a request, by what was requested.
Kinds == {"gossip", "flush", "reset"}
StepsOf == [gossip |-> <<"snapshot", "copy">>,
            flush  |-> <<"collect", "upload">>,
            reset  |-> <<"clear", "forget">>]

Steps == [op : {"idle", "returned"} \cup UNION {Range(StepsOf[k]) : k \in Kinds}, at : Nat]

JavaMeshTypeOK ==
    /\ heldPackets \in [Devices -> SUBSET Copy]
    /\ sentTtl \in [Packets -> Nat \cup {-1}]
    /\ step \in [Threads -> Steps]
    /\ snapshot \in [Threads -> [Devices -> SUBSET Copy]]
    /\ todo \in [Threads -> SUBSET (Copy \X Devices)]
    /\ claimed \subseteq Packets
    /\ passes \in [Packets -> Nat]
    /\ before \in [Threads -> SUBSET Packets]
    /\ along \in [Threads -> SUBSET Kinds]
    /\ \A d \in Devices : \A x, y \in heldPackets[d] : x.packetId = y.packetId => x = y

JavaMeshInit ==
    /\ heldPackets = [d \in Devices |-> {}]
    /\ sentTtl = [p \in Packets |-> -1]
    /\ step = [t \in Threads |-> [op |-> "idle", at |-> 1]]
    /\ snapshot = [t \in Threads |-> [d \in Devices |-> {}]]
    /\ todo = [t \in Threads |-> {}]
    /\ claimed = {}
    /\ passes = [p \in Packets |-> 0]
    /\ before = [t \in Threads |-> {}]
    /\ along = [t \in Threads |-> {}]

-----------------------------------------------------------------------------
holds(d, p) == \E x \in heldPackets[d] : x.packetId = p

\* mutant: a list of packets, to which each is added
holdAnyway(d, x) == heldPackets' = [heldPackets EXCEPT ![d] = @ \cup {x}]
\* putIfAbsent
hold(d, x) ==
    heldPackets' = IF holds(d, x.packetId) THEN heldPackets
                   ELSE [heldPackets EXCEPT ![d] = @ \cup {x}]

Goto(t, op, place) == step' = [step EXCEPT ![t] = [op |-> op, at |-> place]]

AtPhone(t) == DeviceOrder[step[t].at]

\* On to the next phone in the list, or to what follows the loop.
Advance(t, next) ==
    IF step[t].at < Len(DeviceOrder) THEN Goto(t, step[t].op, step[t].at + 1)
    ELSE next

inject(p, d, ttl) ==
    /\ sentTtl[p] = -1
    /\ hold(d, [packetId |-> p, ttl |-> ttl, hops |-> 0])
    /\ sentTtl' = [sentTtl EXCEPT ![p] = ttl]
    /\ UNCHANGED <<step, snapshot, todo, flushVars, historyVars>>

\* t is a round or a flush under way and k the reset, or the other way round.
Meets(k, t) == {other \in Kinds : /\ step[t].op \in Range(StepsOf[other])
                                  /\ (k = "reset") # (other = "reset")}

\* A request to gossip, to flush or to reset gets its thread.
Start(t, k) ==
    /\ step[t].op = "idle"
    /\ Goto(t, StepsOf[k][1], 1)
    /\ before' = [before EXCEPT ![t] = {p \in Packets : sentTtl[p] # -1}]
    /\ along' = [s \in Threads |->
                    IF s = t THEN UNION {Meets(k, r) : r \in Threads}
                    ELSE IF Meets(k, s) # {} THEN along[s] \cup {k} ELSE along[s]]
    /\ UNCHANGED <<heldPackets, sentTtl, snapshot, todo, flushVars>>

\* gossipOnce, its first loop: what each phone holds, read one by one.
TakeSnapshot(t) ==
    /\ step[t].op = "snapshot"
    /\ snapshot' = [snapshot EXCEPT ![t][AtPhone(t)] = heldPackets[AtPhone(t)]]
    /\ Advance(t, Goto(t, "copy", 0))
    /\ UNCHANGED <<heldPackets, sentTtl, todo, flushVars, historyVars>>

\* What a phone offers in its turn of the second loop, and to whom.
Offers(t, src) ==
    {x \in snapshot[t][src] : x.ttl > 0} \X (Devices \ {src})

\* mutant: the turn of the last phone is left out
NextSourceButLast(t) ==
    /\ step[t].op = "copy" /\ todo[t] = {}
    /\ IF step[t].at < Len(DeviceOrder) - 1
       THEN /\ Goto(t, "copy", step[t].at + 1)
            /\ todo' = [todo EXCEPT ![t] = Offers(t, DeviceOrder[step[t].at + 1])]
       ELSE Goto(t, "returned", 1) /\ UNCHANGED todo
    /\ UNCHANGED <<heldPackets, sentTtl, snapshot, flushVars, historyVars>>

NextSource(t) ==
    /\ step[t].op = "copy" /\ todo[t] = {}
    /\ IF step[t].at < Len(DeviceOrder)
       THEN /\ Goto(t, "copy", step[t].at + 1)
            /\ todo' = [todo EXCEPT ![t] = Offers(t, DeviceOrder[step[t].at + 1])]
       ELSE Goto(t, "returned", 1) /\ UNCHANGED todo
    /\ UNCHANGED <<heldPackets, sentTtl, snapshot, flushVars, historyVars>>

HopCopy(x) == [x EXCEPT !.ttl = @ - 1, !.hops = @ + 1]

\* One phone offers one packet to one other phone.
HandOver(t) ==
    /\ step[t].op = "copy"
    /\ \E u \in todo[t] :
          /\ hold(u[2], HopCopy(u[1]))
          /\ todo' = [todo EXCEPT ![t] = @ \ {u}]
    /\ UNCHANGED <<sentTtl, step, snapshot, flushVars, historyVars>>

\* collectBridgeUploads: what each bridge holds, read one by one.
Collect(t) ==
    /\ step[t].op = "collect"
    /\ todo' = [todo EXCEPT ![t] = @ \cup
                    heldPackets[AtPhone(t)] \X (HasInternet \cap {AtPhone(t)})]
    /\ Advance(t, Goto(t, "upload", 1))
    /\ UNCHANGED <<heldPackets, sentTtl, snapshot, flushVars, historyVars>>

\* mutant: a look at the map is taken for a claim
UploadUnclaimed(t) ==
    /\ step[t].op = "upload"
    /\ \E u \in todo[t] :
          /\ todo' = [todo EXCEPT ![t] = @ \ {u}]
          /\ claimed' = claimed \cup {u[1].packetId}
          /\ passes' = [passes EXCEPT ![u[1].packetId] = @ + 1]
    /\ UNCHANGED <<heldPackets, sentTtl, step, snapshot, historyVars>>

\* One element of the parallel stream: ingest() claims the packet or drops it.
Upload(t) ==
    /\ step[t].op = "upload"
    /\ \E u \in todo[t] :
          /\ todo' = [todo EXCEPT ![t] = @ \ {u}]
          /\ claimed' = claimed \cup {u[1].packetId}
          /\ passes' = IF u[1].packetId \in claimed THEN passes
                       ELSE [passes EXCEPT ![u[1].packetId] = @ + 1]
    /\ UNCHANGED <<heldPackets, sentTtl, step, snapshot, historyVars>>

\* forEach returns when every upload has.
EndFlush(t) ==
    /\ step[t].op = "upload" /\ todo[t] = {}
    /\ Goto(t, "returned", 1)
    /\ UNCHANGED <<heldPackets, sentTtl, snapshot, todo, flushVars, historyVars>>

\* mutant: the last phone of the list is left out
ClearPhoneButLast(t) ==
    /\ step[t].op = "clear"
    /\ heldPackets' = IF step[t].at = Len(DeviceOrder) THEN heldPackets
                      ELSE [heldPackets EXCEPT ![AtPhone(t)] = {}]
    /\ Advance(t, Goto(t, "forget", 1))
    /\ UNCHANGED <<sentTtl, snapshot, todo, flushVars, historyVars>>

\* resetMesh: the phones are cleared one by one.
ClearPhone(t) ==
    /\ step[t].op = "clear"
    /\ heldPackets' = [heldPackets EXCEPT ![AtPhone(t)] = {}]
    /\ Advance(t, Goto(t, "forget", 1))
    /\ UNCHANGED <<sentTtl, snapshot, todo, flushVars, historyVars>>

\* idempotency.clear(), and the reset returns.
Forget(t) ==
    /\ step[t].op = "forget"
    /\ claimed' = {}
    /\ Goto(t, "returned", 1)
    /\ UNCHANGED <<heldPackets, sentTtl, snapshot, todo, passes, historyVars>>

Done ==
    /\ \A t \in Threads : step[t].op = "returned"
    /\ UNCHANGED meshVars

JavaMeshNext ==
    \/ \E p \in Packets, d \in Devices, ttl \in InitialTtls : inject(p, d, ttl)
    \/ \E t \in Threads : \/ \E k \in Kinds : Start(t, k)
                          \/ TakeSnapshot(t) \/ NextSource(t) \/ HandOver(t)
                          \/ Collect(t) \/ Upload(t) \/ EndFlush(t)
                          \/ ClearPhone(t) \/ Forget(t)
    \/ Done

JavaMeshSpec == JavaMeshInit /\ [][JavaMeshNext]_meshVars

-----------------------------------------------------------------------------
(* When a round ends, everything it saw that may still be passed on is     *)
(* everywhere, whatever other rounds and senders did meanwhile, unless a   *)
(* reset ran at the same time.                                             *)
RoundReachesAll ==
    [][\A t \in Threads :
          step[t].op = "copy" /\ step'[t].op = "returned" /\ along[t] = {} =>
              \A src \in Devices : \A x \in snapshot[t][src] :
                  x.ttl > 0 => \A d \in Devices : holds(d, x.packetId)]_meshVars

(* When a reset returns, no packet sent before it is left in the mesh      *)
(* (ApiController.java, line 145: "mesh and idempotency cache cleared"),   *)
(* unless a round ran at the same time; a sender or a flush does no harm.  *)
ResetClearsMesh ==
    [][\A t \in Threads :
          step[t].op = "forget" /\ step'[t].op = "returned" /\ "gossip" \notin along[t] =>
              \A d \in Devices : \A x \in heldPackets'[d] :
                  x.packetId \notin before[t]]_meshVars

(* However many bridges hold a packet and flush it at once, before and     *)
(* after resets, one upload gets past the cache; unless a reset ran along  *)
(* with a flush, which may have collected a packet whose claim the reset   *)
(* forgets, or with a round, which may bring a packet back.                *)
PassesOnce ==
    \A p \in Packets : passes[p] > 1 => \E t \in Threads : along[t] # {}

=============================================================================
