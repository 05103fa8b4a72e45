----------------------------- MODULE MCRemoteChat -----------------------------
(* Two turns of one conversation; the second asks for the provider that is
   the only fallback of the first. *)
EXTENDS RemoteChat

CONSTANTS r1, r2, codex, claude

MCTurns == {r1, r2}
MCProviders == {codex, claude}
MCCancels == {r1}
MCCandidates == [t \in MCTurns |-> IF t = r1 THEN <<codex, claude>> ELSE <<claude>>]
=============================================================================
