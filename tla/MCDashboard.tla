----------------------------- MODULE MCDashboard ------------------------------
(* Small instances of Dashboard for TLC. *)
EXTENDS Dashboard

CONSTANTS r1, r2
=============================================================================
