----------------------------- MODULE AgentPolicy -----------------------------
(***************************************************************************)
(* PolicyEngine.evaluate: may this session use this capability, here, now? *)
(*                                                                         *)
(* A pure function of the session row, the capability registry, the        *)
(* request and the emergency stop of the process that asks.  A session is  *)
(* a record; its fields follow AgentSession, with the reasons, names and   *)
(* timestamps nothing decides on left out.                                 *)
(***************************************************************************)
EXTENDS Naturals

CONSTANTS
    Capabilities,   \* capability ids
    Registry,       \* what the registry says of each
    Targets,        \* hosts
    Environments,   \* development, staging, production
    Wildcard,            \* the pattern that matches every capability
    NoTarget        \* a request that names no host

(* mutates: access is not `read`; provisions: it is server.provision, the one
   capability with a rule of its own; granted: the environments where the
   registry's approval default is `session_grant`. *)
CapabilityDefinition ==
    [mutates : BOOLEAN, enabled : BOOLEAN, hostScoped : BOOLEAN,
     provisions : BOOLEAN, granted : SUBSET Environments]

ASSUME RegistryAssumption == Registry \in [Capabilities -> CapabilityDefinition]

ASSUME PatternAssumption == Wildcard \notin Capabilities /\ NoTarget \notin Targets

Patterns == Capabilities \cup {Wildcard}

Request == [capability : Capabilities, target : Targets \cup {NoTarget},
            environment : Environments]

-----------------------------------------------------------------------------

Matches(patterns, capability) ==
    Wildcard \in patterns \/ capability \in patterns

(* An empty list of targets restricts nothing; otherwise the request must name
   one of them, unless it names none and acts on no host in particular. *)
ScopeDenial(session, request) ==
    \/ request.environment \notin session.environments
    \/ /\ session.targets # {}
       /\ IF request.target = NoTarget
          THEN Registry[request.capability].hostScoped
          ELSE request.target \notin session.targets

(* The first group of rules in evaluate, all of which deny. *)
Denied(session, request, stopped) ==
    LET c == Registry[request.capability] IN
    \/ stopped /\ c.mutates
    \/ ~c.enabled
    \/ session.status # "active"
    \/ ScopeDenial(session, request)
    \/ Matches(session.deny, request.capability)
    \/ c.provisions /\ session.cap = 0

(* Variant: a capability that needs an approval is allowed without one. *)
EvaluateAsksNobody(session, request, stopped, planApproved) ==
    LET id == request.capability
        byPlan == \/ Matches(session.allowWithinApprovedPlan, id)
                  \/ Matches(session.requireApproval, id)
    IN IF Denied(session, request, stopped) THEN "deny"
       ELSE IF Matches(session.allow, id) \/ byPlan THEN "allow"
       ELSE "deny"

(* planApproved: the request is a step of an approved plan of this session. *)
Evaluate(session, request, stopped, planApproved) ==
    LET id == request.capability
        byPlan == \/ Matches(session.allowWithinApprovedPlan, id)
                  \/ Matches(session.requireApproval, id)
    IN IF Denied(session, request, stopped) THEN "deny"
       ELSE IF Matches(session.allow, id) \/ (planApproved /\ byPlan) THEN "allow"
       ELSE IF byPlan \/ request.environment \notin Registry[id].granted
       THEN "approval_required"
       ELSE "deny"

-----------------------------------------------------------------------------
(* How the two scope changes rewrite the row *)

(* grantScope: what the user granted through a scope-expansion approval. *)
GrantScope(session, grant) ==
    [session EXCEPT
       !.targets = IF grant.target = NoTarget THEN @ ELSE @ \cup {grant.target},
       !.environments = @ \cup grant.environments,
       !.allow = @ \cup {grant.capability},
       !.deny = @ \ {grant.capability},
       !.requireApproval = @ \ {grant.capability}]

(* Variant of narrowScope: a revoked capability is dropped, not denied. *)
NarrowScopeDrops(session, narrow) ==
    [session EXCEPT
       !.targets = IF narrow.targets = <<>> THEN @ ELSE narrow.targets[1],
       !.allow = @ \ narrow.capabilities,
       !.allowWithinApprovedPlan = @ \ narrow.capabilities,
       !.requireApproval = @ \ narrow.capabilities,
       !.expires = IF narrow.expires = <<>> THEN @ ELSE narrow.expires[1],
       !.cap = IF narrow.cap = <<>> THEN @ ELSE narrow.cap[1]]

(* narrowScope: <<>> stands for a field the request leaves out, <<x>> for one
   it sets to x. *)
NarrowScope(session, narrow) ==
    [session EXCEPT
       !.targets = IF narrow.targets = <<>> THEN @ ELSE narrow.targets[1],
       !.allow = @ \ narrow.capabilities,
       !.allowWithinApprovedPlan = @ \ narrow.capabilities,
       !.requireApproval = @ \ narrow.capabilities,
       !.deny = @ \cup narrow.capabilities,
       !.expires = IF narrow.expires = <<>> THEN @ ELSE narrow.expires[1],
       !.cap = IF narrow.cap = <<>> THEN @ ELSE narrow.cap[1]]

=============================================================================
