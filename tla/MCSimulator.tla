----------------------------- MODULE MCSimulator ------------------------------
(* Small instances of Simulator for TLC. *)
EXTENDS Simulator

CONSTANTS p1, p2, alice, bob, c1, c2, c3, c4, phone, bridge, bridge2

ThreePhones == <<phone, bridge, bridge2>>
Ttls == {1}

\* Both payments draw on alice's balance.
AllSender    == [p \in Payments |-> alice]
AllReceiver  == [p \in Payments |-> bob]
AllAmount    == [p \in Payments |-> 1]
AllBalance   == [a \in Accounts |-> 3]
=============================================================================
