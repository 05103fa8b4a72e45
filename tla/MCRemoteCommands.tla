-------------------------- MODULE MCRemoteCommands --------------------------
(* One phone, two commands signed with the same nonce, and three envelopes: *)
(* the first command twice, the second once.                                *)
EXTENDS RemoteCommands, TLC

CONSTANTS d1, c1, c2, m1, m2, m3, h1, h2, n1

SignerDef == c1 :> d1 @@ c2 :> d1
NonceDef == c1 :> n1 @@ c2 :> n1
CarriesDef == m1 :> c1 @@ m2 :> c1 @@ m3 :> c2

(* The two handlers do the same. *)
Symmetry == Permutations({h1, h2})
=============================================================================
