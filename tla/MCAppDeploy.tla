---------------------------- MODULE MCAppDeploy ----------------------------
(* Two versions that share a volume; the second adds a secret.              *)
EXTENDS AppDeploy, TLC

CONSTANTS v1, v2, volume, secret

NeedsDef == v1 :> {volume} @@ v2 :> {volume, secret}
=============================================================================
