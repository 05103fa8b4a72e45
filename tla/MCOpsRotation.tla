---------------------------- MODULE MCOpsRotation ----------------------------
(***************************************************************************)
(* Constants for TLC: two hosts, and one process that rotates again and     *)
(* again.                                                                  *)
(***************************************************************************)
EXTENDS OpsRotation

CONSTANTS h1, h2, c1

TwoHosts == {h1, h2}
OneCaller == {c1}

=============================================================================
