----------------------------- MODULE MCDemoServer -----------------------------
(* Small instances of DemoServer for TLC. *)
EXTENDS DemoServer, TLC

CONSTANTS alice, bob, s1, s2, phone, stranger, bridge, p1, p2

ThreePhones == <<phone, stranger, bridge>>
SpentOrNot == {0, 1}

TwoAccounts == <<alice, bob>>
Seeds == alice :> 4 @@ bob :> 1

\* A paisa and a half, and more than alice may have left of hers after that.
FromAlice == [p \in Packets |-> alice]
ToBob     == [p \in Packets |-> bob]
TwoAmounts == p1 :> 15 @@ p2 :> 26
=============================================================================
