-------------------------------- MODULE MCJava -------------------------------
(* Small instances of JavaIngestion for TLC. *)
EXTENDS JavaIngestion, TLC

CONSTANTS p1, p2, p3, alice, bob, c1, c2

\* Two transfers that cross, and one that needs a credit once the first is made;
\* in tenths of a paisa, one of them half a paisa over.
CrossSender   == p1 :> alice @@ p2 :> bob @@ p3 :> alice
CrossReceiver == p1 :> bob @@ p2 :> alice @@ p3 :> bob
CrossAmount   == p1 :> 20 @@ p2 :> 15 @@ p3 :> 10
CrossBalance  == alice :> 20 @@ bob :> 20
=============================================================================
