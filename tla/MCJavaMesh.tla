------------------------------ MODULE MCJavaMesh ------------------------------
(* Small instances of JavaMesh for TLC. *)
EXTENDS JavaMesh, TLC

CONSTANTS alice, stranger, bridge, p1, p2, t1, t2, t3

ThreadSymmetry == Permutations(Threads)

ThreePhones == <<alice, stranger, bridge>>
Ttls == {0, 1, 2}
=============================================================================
