---------------------------- MODULE AgentControl -----------------------------
(***************************************************************************)
(* The agent control plane whole: plans being executed (PlanExecution)     *)
(* under a session that changes meanwhile (AgentSessions).                 *)
(*                                                                         *)
(* The two components meet in ActionBroker and CoreActionExecutor: a call  *)
(* authenticates and keeps the session it was given; a plan is created,    *)
(* and every step checked, against that copy; a run counts itself in the   *)
(* session row, and a step that provisions a server books and buys.        *)
(* Every other step belongs to one of the components.                      *)
(***************************************************************************)
EXTENDS Naturals

CONSTANTS
    Plans, Runs, Cancels, Decisions, Steps,
    Capabilities, Registry, Targets, Environments, Wildcard, NoTarget,
    Procs, Admin, Ops, DefaultPermissions, Kinds, MaxOperations, MaxTime, MaxLife,
    MaxExtension, MaxSpend, MaxBought, MaxCount,
    RunProc,    \* the process that serves each executePlan call
    Price       \* EUR/month of the server a provisioning step buys

VARIABLES
    plan, approval, operation, run, cancel, decision, consent, begun, overrun,
    session, now, call, setting, stopped, bought, taken, ended, pressed,
    wants,      \* what the steps of each plan ask for
    held,       \* the session row each run was authenticated with
    afterStop   \* history: steps begun with the emergency stop on

(* A call of AgentSessions is an administrator's, or made by a run. *)
Calls == Admin \cup Runs

PX == INSTANCE PlanExecution
SS == INSTANCE AgentSessions

(* The components' own assumptions, which an instance does not make; a run's
   call is no administrator's; what a purchase costs; and no session is ever
   granted the provisioning of servers without an approval. *)
ASSUME StepsAssumption == Steps \in Nat \ {0}

ASSUME SessionsAssumption ==
    /\ Registry \in [Capabilities -> SS!CapabilityDefinition]
    /\ Wildcard \notin Capabilities /\ NoTarget \notin Targets
    /\ Ops \subseteq SS!Operation
    /\ DefaultPermissions \in SS!Permissions
    /\ {MaxTime, MaxLife, MaxSpend} \subseteq Nat
    /\ Kinds \subseteq BOOLEAN

ASSUME RunsAssumption ==
    /\ Admin \cap Runs = {}
    /\ RunProc \in [Runs -> Procs]
    /\ Price \in Nat

(* Patterns that let a server be bought at once. *)
Provisioning == {c \in Capabilities : Registry[c].provisions} \cup {Wildcard}

ASSUME GrantsAssumption ==
    /\ DefaultPermissions.allow \cap Provisioning = {}
    /\ \A op \in Ops : op.kind = "grant" => op.capability \notin Provisioning

pxVars == <<plan, approval, operation, run, cancel, decision, consent, begun,
            overrun>>
ssVars == <<session, now, call, setting, stopped, bought, taken, ended, pressed>>
vars == <<pxVars, ssVars, wants, held, afterStop>>

Request == SS!Request

TypeOK ==
    /\ PX!TypeOK
    /\ SS!TypeOK
    /\ wants \in [Plans -> Request]
    /\ held \in [Runs -> {SS!NoSession} \cup SS!Session]
    /\ afterStop \in [Runs -> Nat]

Init ==
    /\ PX!Init
    /\ SS!Init
    /\ wants \in [Plans -> Request]
    /\ held = [r \in Runs |-> SS!NoSession]
    /\ afterStop = [r \in Runs |-> 0]

-----------------------------------------------------------------------------
(* Where the components meet *)

(* What requireStepAllowed asks: the approved plan counts, and the session is
   the copy the call was given. *)
StepAllowed(r) ==
    SS!Evaluate(held[r], wants[run[r].plan], stopped[RunProc[r]], TRUE) = "allow"

(* authenticate returns the row, or the call ends there. *)
Authenticate(r) ==
    /\ run[r] = PX!Idle
    /\ held[r] = SS!NoSession
    /\ SS!Admits(session)
    /\ held' = [held EXCEPT ![r] = session]
    /\ UNCHANGED <<pxVars, ssVars, wants, afterStop>>

(* createPlan of an authenticated call: a denied step rejects the plan, one
   that needs an approval gates it. *)
CreatePlan(p) ==
    \E proc \in Procs :
        LET effect == SS!Evaluate(session, wants[p], stopped[proc], FALSE) IN
        /\ SS!Admits(session)
        /\ effect # "deny"
        /\ PX!CreatePlan(p)
        /\ plan'[p].gated = (effect = "approval_required")
        /\ UNCHANGED <<ssVars, wants, held, afterStop>>

StartRun(r, p) ==
    /\ held[r] # SS!NoSession
    /\ PX!StartRun(r, p)
    /\ UNCHANGED <<ssVars, wants, held, afterStop>>

(* incrementOperation inside executePlanForSession. *)
CountBegin(r) ==
    /\ run[r].pc = "count"
    /\ SS!Begin(r, RunProc[r], SS!IncrementOperation)
    /\ UNCHANGED <<pxVars, wants, held, afterStop>>

CountEnd(r) ==
    /\ PX!CountOperation(r)
    /\ SS!Write(r)
    /\ UNCHANGED <<wants, held, afterStop>>

(* Variant: the step is allowed because its plan was. *)
CheckStepApprovedPlan(r) ==
    /\ PX!CheckStep(r)
    /\ run'[r].pc # "toFailed"
    /\ UNCHANGED <<ssVars, wants, held, afterStop>>

CheckStep(r) ==
    /\ PX!CheckStep(r)
    /\ run'[r].pc = "stepRunning" => StepAllowed(r)
    /\ run'[r].pc = "toFailed" => ~StepAllowed(r)
    /\ UNCHANGED <<ssVars, wants, held, afterStop>>

Transition(r) ==
    /\ PX!TransitionRead(r) \/ PX!TransitionWrite(r)
    /\ afterStop' = IF begun' # begun /\ stopped[RunProc[r]]
                    THEN [afterStop EXCEPT ![r] = @ + 1] ELSE afterStop
    /\ UNCHANGED <<ssVars, wants, held>>

Provisions(r) == Registry[wants[run[r].plan].capability].provisions

(* A step that is not `server.provision` runs outside the control plane. *)
ExecuteReturns(r) ==
    /\ PX!ExecuteReturns(r)
    /\ ~Provisions(r)
    /\ UNCHANGED <<ssVars, wants, held, afterStop>>

(* provision: commitProviderSpend, then servers.create; the executor returns
   when the provider has answered, or throws where the booking is refused. *)
ProvisionBegin(r) ==
    /\ run[r].pc = "executing"
    /\ Provisions(r)
    /\ SS!Begin(r, RunProc[r], SS!CommitProviderSpend(Price))
    /\ UNCHANGED <<pxVars, wants, held, afterStop>>

(* Variant: a refused booking returns to the caller past the catch block. *)
ProvisionRefusedReturns(r) ==
    /\ run[r].pc = "executing"
    /\ SS!Read(r)
    /\ call'[r] = SS!Idle
    /\ PX!Goto(r, "done")
    /\ UNCHANGED <<plan, approval, operation, cancel, decision, consent, begun,
                   overrun, wants, held, afterStop>>

ProvisionRefused(r) ==
    /\ run[r].pc = "executing"
    /\ SS!Read(r)
    /\ call'[r] = SS!Idle
    /\ PX!ExecuteReturns(r)
    /\ run'[r].pc = "toFailed"
    /\ UNCHANGED <<wants, held, afterStop>>

ProvisionEnd(r) ==
    /\ SS!Buy(r)
    /\ PX!ExecuteReturns(r)
    /\ run'[r].pc # "toFailed" => bought' > bought
    /\ UNCHANGED <<wants, held, afterStop>>

(* The session side of a run's call that is not its last step. *)
SessionRead(r) ==
    /\ SS!Read(r)
    /\ call'[r] # SS!Idle
    /\ UNCHANGED <<pxVars, wants, held, afterStop>>

SessionWrite(r) ==
    /\ run[r].pc = "executing"
    /\ SS!Write(r)
    /\ UNCHANGED <<pxVars, wants, held, afterStop>>

(* What is left of afterStop where the stop is cleared. *)
Counted == [r \in Runs |-> IF stopped'[RunProc[r]] THEN afterStop[r] ELSE 0]

(* A process dies with its runs and their calls, then starts again. *)
Crash(r) ==
    /\ PX!Crash(r)
    /\ call' = [call EXCEPT ![r] = SS!Idle]
    /\ UNCHANGED <<session, now, setting, stopped, bought, taken, ended, pressed,
                   wants, held, afterStop>>

Restart(p) ==
    /\ \A r \in Runs : RunProc[r] = p => run[r].pc \in {"idle", "done", "crashed"}
    /\ SS!Restart(p)
    /\ UNCHANGED <<pxVars, wants, held>>
    /\ afterStop' = Counted

-----------------------------------------------------------------------------
(* Steps of one component *)

RunStep(r) ==
    \/ CountBegin(r) \/ CountEnd(r) \/ CheckStep(r) \/ Transition(r)
    \/ ExecuteReturns(r) \/ ProvisionBegin(r) \/ ProvisionRefused(r)
    \/ ProvisionEnd(r) \/ SessionRead(r) \/ SessionWrite(r)
    \/ /\ \/ PX!RequireApprovedForPlan(r) \/ PX!SetApproved(r)
          \/ PX!RequireExecutable(r) \/ PX!CreateOperation(r) \/ PX!BeginPlan(r)
          \/ PX!MarkPlan(r)
       /\ UNCHANGED <<ssVars, wants, held, afterStop>>

UserStep ==
    /\ \/ \E p \in Plans : PX!RequestForPlan(p) \/ PX!WindowElapses(p)
       \/ \E d \in Decisions :
            \/ \E p \in Plans, v \in {"approved", "denied", "expired"} :
                 PX!Decide(d, p, v)
            \/ PX!DecideRead(d) \/ PX!DecideWrite(d)
       \/ \E c \in Cancels :
            \/ \E r \in Runs : PX!RequestCancel(c, r)
            \/ PX!CancelRead(c) \/ PX!CancelWrite(c)
    /\ UNCHANGED <<ssVars, wants, held, afterStop>>

SessionStep ==
    /\ \/ SS!Create
       \/ SS!Tick
       \/ \E c \in Admin :
            \/ \E p \in Procs, op \in Ops : SS!Begin(c, p, op)
            \/ SS!Save(c) \/ SS!List(c) \/ SS!Relist(c) \/ SS!Read(c) \/ SS!Write(c)
    /\ afterStop' = Counted
    /\ UNCHANGED <<pxVars, wants, held>>

Next ==
    \/ \E p \in Plans : CreatePlan(p)
    \/ \E r \in Runs :
         \/ Authenticate(r) \/ RunStep(r) \/ Crash(r)
         \/ \E p \in Plans : StartRun(r, p)
    \/ \E p \in Procs : Restart(p)
    \/ UserStep
    \/ SessionStep

Spec == Init /\ [][Next]_vars

-----------------------------------------------------------------------------
(* What is claimed *)

(* The control plane implements the plan protocol: whatever sessions, budgets
   and emergency stops do, a run goes through PlanExecution's steps only. *)
PlanProtocol == PX!Spec

(* The emergency stop is prompt where it is known: a run in a stopped process
   hands at most one more step that changes anything to the executor, the one
   whose policy check was already behind it (requireStepAllowed at every step). *)
StopBound ==
    /\ TypeOK
    /\ \A r \in Runs :
         run[r] # PX!Idle /\ Registry[wants[run[r].plan].capability].mutates =>
             afterStop[r] <= 1

(* Money is spent only for a plan that a person approved in time, as long as
   nobody granted provisioning to the session outright. *)
PurchasesApproved ==
    bought > 0 =>
        \E p \in consent : Registry[wants[p].capability].provisions

=============================================================================
