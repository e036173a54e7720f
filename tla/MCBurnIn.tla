------------------------------ MODULE MCBurnIn ------------------------------
(* Constants for checking BurnIn with TLC. *)
EXTENDS BurnIn

\* The shortest plan with a stress phase and reboot cycles.
MCPlan == <<"inventory", "cpu", "powercycle">>
=============================================================================
