------------------------------ MODULE MCKeyring ------------------------------
(***************************************************************************)
(* Constants for TLC: a command on the terminal and the resident local     *)
(* API, each making one call at a time.                                    *)
(***************************************************************************)
EXTENDS Keyring

CONSTANTS c1, c2, d1, d2

TwoCalls == {c1, c2}
TwoDaemons == {d1, d2}
TwoProcesses == {"cli", "api"}

InBoth == [c \in Calls |-> IF c = c1 THEN "cli" ELSE "api"]

=============================================================================
