---------------------------- MODULE MCPaymentForm -----------------------------
(* Small instances of PaymentForm for TLC. *)
EXTENDS PaymentForm

CONSTANTS p1, p2, alice, bob, carol, dave, c1, c2, c3, c4, phone, bridge, bridge2

OnePhoneTwoBridges == <<phone, bridge, bridge2>>

Ttls == {1}

\* Two payments of different senders: neither meets the other's version.
PairSender   == [p \in Payments |-> IF p = p1 THEN alice ELSE carol]
PairReceiver == [p \in Payments |-> IF p = p1 THEN bob ELSE dave]
PairAmount   == [p \in Payments |-> 1]
PairBalance  == [a \in Accounts |-> 1]
InStep       == {0}
=============================================================================
