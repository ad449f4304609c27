---------------------------- MODULE MCSettlement -----------------------------
(***************************************************************************)
(* Small instances of SettlementService for TLC.  A payment is written     *)
(* <<sender, receiver, amount>>.                                           *)
(***************************************************************************)
EXTENDS SettlementService, TLC

CONSTANTS p1, p2, p3, p4, p5, alice, bob, carol, dave, ghost, c1, c2, c3

CallSymmetry == Permutations(Calls)

SenderOf(f)   == [p \in Payments |-> f[p][1]]
ReceiverOf(f) == [p \in Payments |-> f[p][2]]
AmountOf(f)   == [p \in Payments |-> f[p][3]]

(* Transfers that cross, a second one from the same sender that is only    *)
(* affordable after a credit, one to an address nobody owns, and one from  *)
(* a third account to a receiver of the others.                            *)
Cross == p1 :> <<alice, bob, 3>> @@ p2 :> <<bob, alice, 2>>
         @@ p3 :> <<alice, bob, 4>> @@ p4 :> <<alice, ghost, 1>>
         @@ p5 :> <<carol, bob, 1>>
CrossSender   == SenderOf(Cross)
CrossReceiver == ReceiverOf(Cross)
CrossAmount   == AmountOf(Cross)
CrossBalance  == alice :> 5 @@ bob :> 2 @@ carol :> 1

(* Two senders who pay the same receiver. *)
FanIn == p1 :> <<alice, carol, 1>> @@ p2 :> <<bob, carol, 2>>
FanInSender   == SenderOf(FanIn)
FanInReceiver == ReceiverOf(FanIn)
FanInAmount   == AmountOf(FanIn)
FanInBalance  == alice :> 2 @@ bob :> 2 @@ carol :> 0

(* A payment to oneself and one to somebody else. *)
Self == p1 :> <<alice, alice, 1>> @@ p2 :> <<alice, bob, 1>>
SelfSender   == SenderOf(Self)
SelfReceiver == ReceiverOf(Self)
SelfAmount   == AmountOf(Self)
SelfBalance  == alice :> 2 @@ bob :> 0
=============================================================================
