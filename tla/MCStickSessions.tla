--------------------------- MODULE MCStickSessions ---------------------------
(* A machine with a serial number and one that only has a MAC. *)
EXTENDS StickSessions

CONSTANTS m1, m2

MCMachines == {m1, m2}
MCIdentified == {m1}
=============================================================================
