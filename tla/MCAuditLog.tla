----------------------------- MODULE MCAuditLog ------------------------------
(***************************************************************************)
(* Constants for TLC: two sessions to filter by, pages of two rows, and    *)
(* enough events for three pages and for a new one to arrive in between.   *)
(***************************************************************************)
EXTENDS AuditLog

CONSTANTS s1, s2, a1, a2

TwoSessions == {s1, s2}
TwoAppenders == {a1, a2}

=============================================================================
