--------------------------- MODULE MCAgentSessions ---------------------------
(***************************************************************************)
(* Constants for TLC.  Two capabilities: a deployment, which the session   *)
(* may do within an approved plan, and the provisioning of a server, which *)
(* needs an approval and a budget.  Clock, budgets and purchases are just  *)
(* large enough for an expiry to pass and a second purchase to be one too  *)
(* many.                                                                   *)
(***************************************************************************)
EXTENDS AgentSessions, TLC

CONSTANTS deploy, provision, h1, wildcard, none, c1, dashboard

TwoCapabilities == {deploy, provision}
OneTarget == {h1}
Staging == {"staging"}
BothKinds == BOOLEAN

MCRegistry ==
    (deploy :> [mutates |-> TRUE, enabled |-> TRUE, hostScoped |-> TRUE,
                provisions |-> FALSE, granted |-> {}])
    @@ (provision :> [mutates |-> TRUE, enabled |-> TRUE, hostScoped |-> FALSE,
                      provisions |-> TRUE, granted |-> {}])

MCPermissions ==
    [allow |-> {}, allowWithinApprovedPlan |-> {deploy},
     requireApproval |-> {provision}, deny |-> {}]

OneProc == {dashboard}
OneCall == {c1}

NarrowOps ==
    {Narrow({deploy}, <<>>, <<>>, <<>>), Narrow({}, <<{h1}>>, <<>>, <<>>),
     Narrow({}, <<>>, <<2>>, <<>>), Narrow({}, <<>>, <<>>, <<1>>)}

(* Everything a user, an agent or a sweep can ask of a session. *)
AllOps ==
    {SetStatus(st) : st \in {"active", "paused", "revoked", "expired"}}
    \cup NarrowOps
    \cup {IncrementOperation, CommitProviderSpend(1), CommitProviderSpend(2),
          ExtendForConditionalIntent(3), Grant(deploy, NoTarget),
          StopAll, RevokeAll, ClearStop}

=============================================================================
