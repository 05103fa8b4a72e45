---------------------------- MODULE MCRemoteIntents ----------------------------
(* One intent of a device, two processes that watch it, a pause of the      *)
(* intent and a revocation of the device.                                   *)
EXTENDS RemoteIntents, TLC

CONSTANTS i1, w1, w2, pause, revoke

MCAsks == (pause :> "paused") @@ (revoke :> "revoked")
MCScope == (pause :> {i1}) @@ (revoke :> {i1})
===============================================================================
