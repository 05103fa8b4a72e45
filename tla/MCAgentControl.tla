---------------------------- MODULE MCAgentControl ---------------------------
(***************************************************************************)
(* Constants for TLC: one plan, one run in the process that is told to     *)
(* stop, one administrator.  The plan deploys, provisions or only looks.   *)
(***************************************************************************)
EXTENDS AgentControl, TLC

CONSTANTS deploy, provision, look, wildcard, none, a1, dashboard, p1, r1, c1, d1

MCRegistry ==
    (deploy :> [mutates |-> TRUE, enabled |-> TRUE, hostScoped |-> FALSE,
                provisions |-> FALSE, granted |-> {}])
    @@ (provision :> [mutates |-> TRUE, enabled |-> TRUE, hostScoped |-> FALSE,
                      provisions |-> TRUE, granted |-> {}])
    @@ (look :> [mutates |-> FALSE, enabled |-> TRUE, hostScoped |-> FALSE,
                 provisions |-> FALSE, granted |-> {}])

MCPermissions ==
    [allow |-> {deploy, look}, allowWithinApprovedPlan |-> {},
     requireApproval |-> {provision}, deny |-> {}]

InDashboard == [r \in {r1} |-> dashboard]

(* StopAll and ClearStop of AgentSessions, spelled out. *)
EmergencyOps == {[kind |-> "stop", to |-> "revoked"], [kind |-> "clear"]}

=============================================================================
