---------------------------- MODULE MCSelfTests ----------------------------
(* Two drives, one of which has no serial number; for TLC. *)
EXTENDS SelfTests
CONSTANTS sda, d1, d2
=============================================================================
