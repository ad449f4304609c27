------------------------------ MODULE MCBridge -------------------------------
(***************************************************************************)
(* Small instances of BridgeService for TLC.                               *)
(***************************************************************************)
EXTENDS BridgeService, TLC

CONSTANTS p1, p2, alice, bob, c1, c2, c3

CallSymmetry == Permutations(Calls)

\* alice pays bob; with a second payment, twice out of the same balance.
AllSender    == [p \in Payments |-> alice]
AllReceiver  == [p \in Payments |-> bob]
AllAmount    == [p \in Payments |-> 1]
AllBalance   == [a \in Accounts |-> 3]

\* Clocks behind the server's, ahead of it within the skew, and beyond it.
BehindToFarAhead == {-1, 1, 2}
Ahead            == {1}
=============================================================================
