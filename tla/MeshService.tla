----------------------------- MODULE MeshService -----------------------------
(***************************************************************************)
(* backend/services/meshService.js and virtualDevice.js: the simulated     *)
(* Bluetooth mesh.  Every phone holds at most one copy of a packet, and    *)
(* what distinguishes copies is the ttl left on them.  Each operation runs *)
(* in one turn of the event loop.                                          *)
(***************************************************************************)
EXTENDS Integers, Sequences, FiniteSetsExt

CONSTANTS
    DeviceOrder,    \* the phones, in the order the devices Map lists them
    HasInternet,    \* the bridges among them
    Packets,        \* the packets ever injected
    InitialTtls     \* the ttl values a sender may choose

VARIABLES
    held,           \* held[d][p] : ttl of d's copy of p, or Absent
    sentTtl,        \* sentTtl[p] : the ttl p was injected with, or Absent
    hops            \* hops[d][p] : history, the phones d's copy came through

meshVars == <<held, sentTtl, hops>>

ASSUME MeshAssumption ==
    /\ DeviceOrder \in Seq(Range(DeviceOrder))
    /\ HasInternet \subseteq Range(DeviceOrder)
    /\ InitialTtls \subseteq Nat

Devices == Range(DeviceOrder)

Absent == -2        \* no ttl: gossip makes no copy below 0

DefaultTtl == 5

holds(d, p) == held[d][p] # Absent

NoCopies == [d \in Devices |-> [p \in Packets |-> Absent]]

MeshTypeOK ==
    /\ held \in [Devices -> [Packets -> Nat \cup {Absent}]]
    /\ sentTtl \in [Packets -> InitialTtls \cup {Absent}]
    /\ hops \in [Devices -> [Packets -> Nat]]
    /\ \A d \in Devices, p \in Packets : holds(d, p) => sentTtl[p] # Absent

MeshInit ==
    /\ held = NoCopies
    /\ sentTtl = [p \in Packets |-> Absent]
    /\ hops = [d \in Devices |-> [p \in Packets |-> 0]]

-----------------------------------------------------------------------------
\* The sender drops a new packet on phone d.
inject(p, d, ttl) ==
    /\ sentTtl[p] = Absent
    /\ held' = [held EXCEPT ![d][p] = ttl]
    /\ sentTtl' = [sentTtl EXCEPT ![p] = ttl]
    /\ hops' = [hops EXCEPT ![d][p] = 0]

\* The places, in device order, whose copy of p may still be passed on.
AnyCopy(p) == {i \in DOMAIN DeviceOrder : holds(DeviceOrder[i], p)} \* mutant: ttl 0 too
Forwarders(p) == {i \in DOMAIN DeviceOrder : held[DeviceOrder[i]][p] > 0}

Source(p) == DeviceOrder[Min(Forwarders(p))]

\* mutant: only the next phone in the list is reached
ReceivedInTurn(d, p) ==
    /\ ~holds(d, p) /\ Forwarders(p) # {}
    /\ \E i \in DOMAIN DeviceOrder : DeviceOrder[i] = d /\ i = Min(Forwarders(p)) + 1
Received(d, p) == ~holds(d, p) /\ Forwarders(p) # {}

(* The loops of gossipOnce, per packet: the first phone with a live copy    *)
(* reaches every phone without one, and leaves nothing to the others.       *)
CopyTtl(d, p) == held[Source(p)][p] - 1

gossipOnce ==
    /\ held' = [d \in Devices |-> [p \in Packets |->
                   IF Received(d, p) THEN CopyTtl(d, p) ELSE held[d][p]]]
    /\ hops' = [d \in Devices |-> [p \in Packets |->
                   IF Received(d, p) THEN hops[Source(p)][p] + 1 ELSE hops[d][p]]]
    /\ UNCHANGED sentTtl

\* resetMesh clears every phone; a packet that was sent is not sent again.
resetMesh ==
    /\ held' = NoCopies
    /\ hops' = [d \in Devices |-> [p \in Packets |-> 0]]
    /\ UNCHANGED sentTtl

\* What the bridges hand to the server when they get a connection.
collectBridgeUploads == {u \in HasInternet \X Packets : holds(u[1], u[2])}

\* The hop count meshFlush reports for d's copy of p.
hopCount(d, p) == Max({0, DefaultTtl - held[d][p]})

MeshNext ==
    \/ \E p \in Packets, d \in Devices, ttl \in InitialTtls : inject(p, d, ttl)
    \/ gossipOnce
    \/ resetMesh

MeshSpec == MeshInit /\ [][MeshNext]_meshVars

-----------------------------------------------------------------------------
(* A copy's ttl has paid for every hop it made, and for nothing else, so a *)
(* packet travels at most as far as its sender allowed.                    *)
TtlPaysForHops ==
    \A d \in Devices, p \in Packets :
        holds(d, p) => /\ held[d][p] >= 0
                       /\ held[d][p] + hops[d][p] = sentTtl[p]

(* One round is enough: a packet anybody may still pass on is afterwards   *)
(* everywhere ("fast-forward N rounds", meshService.js, line 14).          *)
OneRoundReachesAll ==
    [][gossipOnce =>
          \A p \in Packets :
              (\E d \in Devices : held[d][p] > 0) => \A d \in Devices : held'[d][p] # Absent]_meshVars

(* A packet at ttl 0 stays where it is: when no copy may be passed on, no  *)
(* phone gets one until its sender or a reset intervenes.                  *)
SpentPacketsStay ==
    [][\A p \in Packets :
          (sentTtl[p] # Absent /\ \A d \in Devices : held[d][p] <= 0) =>
              \A d \in Devices : held'[d][p] \in {held[d][p], Absent}]_meshVars

(* The hop count stored with a payment is how many phones it came through  *)
(* (Transaction.java, line 44), if it was sent with the default ttl.       *)
HopCountIsDistance ==
    \A u \in collectBridgeUploads :
        sentTtl[u[2]] = DefaultTtl => hopCount(u[1], u[2]) = hops[u[1]][u[2]]

=============================================================================
