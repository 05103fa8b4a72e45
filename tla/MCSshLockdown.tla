---------------------------- MODULE MCSshLockdown ----------------------------
(***************************************************************************)
(* Constants for TLC: one caller that tries again and again.               *)
(***************************************************************************)
EXTENDS SshLockdown

CONSTANT c1

OneCaller == {c1}

AllFaults == {"lost", "unarmed"}

=============================================================================
