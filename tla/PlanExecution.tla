---------------------------- MODULE PlanExecution ----------------------------
(***************************************************************************)
(* How vops runs a plan an agent proposed: ActionBroker, PlanEngine,       *)
(* ApprovalManager and OperationManager over the rows they share in        *)
(* vops.db.                                                                *)
(*                                                                         *)
(* The dashboard, every `vops mcp serve` and every CLI command is a        *)
(* process of its own on the same database file, and inside one process    *)
(* every `await` yields.  An action here is therefore what one call does   *)
(* between two database round trips; a manager method that reads a row and *)
(* saves it back is two actions with the row it read kept in between.      *)
(*                                                                         *)
(* What the session allows is left open here (a policy answer is either);  *)
(* module AgentControl closes it.                                          *)
(***************************************************************************)
EXTENDS Naturals

CONSTANTS
    Plans,      \* plan ids
    Runs,       \* executePlan calls; the operation of call r has id r
    Cancels,    \* requestCancel calls that can be in flight at once
    Decisions,  \* approve, deny or expire calls that can be in flight at once
    Steps       \* steps in every plan

ASSUME StepsAssumption == Steps \in Nat \ {0}

VARIABLES
    plan,       \* agent_plans: status, whether it needs an approval, hash intact
    approval,   \* agent_approvals: the approval of each plan, and its window
    operation,  \* agent_operations: the operation of each run
    run,        \* local state of each executePlanForSession call
    cancel,     \* local state of each requestCancel call
    decision,   \* local state of each decide call
    consent,    \* history: plans somebody approved before the window closed
    begun,      \* history: steps each run has handed to the executor
    overrun     \* history: runs handed a step with the cancel already stored

vars == <<plan, approval, operation, run, cancel, decision,
          consent, begun, overrun>>

callVars == <<cancel, decision>>
history == <<consent, begun, overrun>>

-----------------------------------------------------------------------------
(* Rows and call states *)

PlanStatus == {"none", "awaiting_approval", "approved", "running",
               "succeeded", "failed", "cancelled"}

ApprovalStatus == {"none", "pending", "approved", "denied", "expired"}

OperationState == {"none", "queued", "running", "verifying", "succeeded",
                   "failed", "cancelling", "cancelled"}

Operation == [state : OperationState, cancelRequested : BOOLEAN]

NoOperation == [state |-> "none", cancelRequested |-> FALSE]

Ended == {"succeeded", "failed", "cancelled"}

(* Variant: a cancelling operation may be set running again. *)
TRANSITIONSUncancel ==
    [s \in OperationState |->
        CASE s = "queued"     -> {"running", "cancelling", "cancelled"}
          [] s = "running"    -> {"verifying", "succeeded", "failed",
                                  "cancelling"}
          [] s = "verifying"  -> {"succeeded", "failed", "cancelling"}
          [] s = "cancelling" -> {"running", "cancelled", "failed"}
          [] OTHER            -> {}]

(* The part of the transition table that an execution can reach. *)
TRANSITIONS ==
    [s \in OperationState |->
        CASE s = "queued"     -> {"running", "cancelling", "cancelled"}
          [] s = "running"    -> {"verifying", "succeeded", "failed",
                                  "cancelling"}
          [] s = "verifying"  -> {"succeeded", "failed", "cancelling"}
          [] s = "cancelling" -> {"cancelled", "failed"}
          [] OTHER            -> {}]

(* Where a run calls OperationManager.transition, and for which state.  The
   last two columns say where the call resumes when transition returns and
   when it throws: the first transition is outside the try block, the ones
   in the loop and after it are inside, the one in the catch block is not. *)
Goal == [toRunning   |-> "running",   stepRunning |-> "running",
         toCancelled |-> "cancelled", toVerifying |-> "verifying",
         toSucceeded |-> "succeeded", toFailed    |-> "failed"]

Resume == [toRunning   |-> "check",         stepRunning |-> "executing",
           toCancelled |-> "markCancelled", toVerifying |-> "toSucceeded",
           toSucceeded |-> "markSucceeded", toFailed    |-> "markFailed"]

Throw == [toRunning   |-> "done",     stepRunning |-> "toFailed",
          toCancelled |-> "toFailed", toVerifying |-> "toFailed",
          toSucceeded |-> "toFailed", toFailed    |-> "done"]

Mark == [markCancelled |-> "cancelled", markSucceeded |-> "succeeded",
         markFailed    |-> "failed"]

RunPc == {"needApproval", "setApproved", "requireExecutable",
          "create", "count", "begin", "check", "executing", "done", "crashed"}
         \cup DOMAIN Goal \cup DOMAIN Mark

(* What a call keeps between round trips.  `seen` is the cancelRequested flag
   of the operation row a transition has read and is about to save. *)
Idle == [pc |-> "idle"]

Run == [pc : RunPc, writing : BOOLEAN, plan : Plans, step : 0..Steps,
        seen : BOOLEAN]

CancelCall == [pc : {"read", "write"}, run : Runs,
               goal : {"cancelling", "cancelled"}]

DecideCall == [pc : {"read", "write"}, plan : Plans,
               verdict : {"approved", "denied", "expired"}]

TypeOK ==
    /\ plan \in [Plans -> [status : PlanStatus, gated : BOOLEAN,
                           intact : BOOLEAN]]
    /\ approval \in [Plans -> [status : ApprovalStatus, elapsed : BOOLEAN]]
    /\ operation \in [Runs -> Operation]
    /\ run \in [Runs -> {Idle} \cup Run]
    /\ cancel \in [Cancels -> {Idle} \cup CancelCall]
    /\ decision \in [Decisions -> {Idle} \cup DecideCall]
    /\ consent \subseteq Plans
    /\ begun \in [Runs -> Nat]
    /\ overrun \subseteq Runs

Init ==
    /\ plan = [p \in Plans |->
                 [status |-> "none", gated |-> FALSE, intact |-> TRUE]]
    /\ approval = [p \in Plans |-> [status |-> "none", elapsed |-> FALSE]]
    /\ operation = [r \in Runs |-> NoOperation]
    /\ run = [r \in Runs |-> Idle]
    /\ cancel = [c \in Cancels |-> Idle]
    /\ decision = [d \in Decisions |-> Idle]
    /\ consent = {}
    /\ begun = [r \in Runs |-> 0]
    /\ overrun = {}

-----------------------------------------------------------------------------
(* Proposing a plan *)

(* PlanEngine.create with no denied step: the policy says whether some step
   needs an approval, and the row is saved through safeJson, whose redaction
   may change the text the hash was taken over. *)
CreatePlan(p) ==
    /\ plan[p].status = "none"
    /\ \E gated, intact \in BOOLEAN :
         plan' = [plan EXCEPT ![p] =
                    [status |-> IF gated THEN "awaiting_approval"
                                         ELSE "approved",
                     gated |-> gated, intact |-> intact]]
    /\ UNCHANGED <<approval, operation, run, callVars, history>>

(* createPlan and invoke ask for the approval in a second round trip. *)
RequestForPlan(p) ==
    /\ plan[p].status = "awaiting_approval"
    /\ approval[p].status = "none"
    /\ approval' = [approval EXCEPT ![p].status = "pending"]
    /\ UNCHANGED <<plan, operation, run, callVars, history>>

(* The approval's one-hour window closes. *)
WindowElapses(p) ==
    /\ approval[p].status # "none"
    /\ ~approval[p].elapsed
    /\ approval' = [approval EXCEPT ![p].elapsed = TRUE]
    /\ UNCHANGED <<plan, operation, run, callVars, history>>

-----------------------------------------------------------------------------
(* Deciding an approval *)

(* approve, deny, or list() expiring what it found pending and overdue. *)
Decide(d, p, verdict) ==
    /\ decision[d] = Idle
    /\ approval[p].status # "none"
    /\ verdict = "expired" => approval[p].status = "pending" /\ approval[p].elapsed
    /\ decision' = [decision EXCEPT ![d] = [pc |-> "read", plan |-> p,
                                            verdict |-> verdict]]
    /\ consent' = IF verdict = "approved" /\ ~approval[p].elapsed
                  THEN consent \cup {p} ELSE consent
    /\ UNCHANGED <<plan, approval, operation, run, cancel, begun, overrun>>

(* decide reads the row: already decided, it returns or throws; an approval
   that comes too late becomes a second decide call, for `expired`. *)
DecideRead(d) ==
    LET a == approval[decision[d].plan] IN
    /\ decision[d].pc = "read"
    /\ \/ /\ a.status # "pending"
          /\ decision' = [decision EXCEPT ![d] = Idle]
       \/ /\ a.status = "pending"
          /\ decision[d].verdict = "approved" /\ a.elapsed
          /\ decision' = [decision EXCEPT ![d].verdict = "expired"]
       \/ /\ a.status = "pending"
          /\ ~(decision[d].verdict = "approved" /\ a.elapsed)
          /\ decision' = [decision EXCEPT ![d].pc = "write"]
    /\ UNCHANGED <<plan, approval, operation, run, cancel, history>>

(* decide saves the verdict over whatever the row says by now. *)
DecideWrite(d) ==
    /\ decision[d].pc = "write"
    /\ approval' = [approval EXCEPT ![decision[d].plan].status =
                                       decision[d].verdict]
    /\ decision' = [decision EXCEPT ![d] = Idle]
    /\ UNCHANGED <<plan, operation, run, cancel, history>>

-----------------------------------------------------------------------------
(* Executing a plan: executePlanForSession, one action per round trip *)

Goto(r, pc) == run' = [run EXCEPT ![r].pc = pc]

(* executePlan, or the tail of invoke: the session is authenticated, the plan
   is one of its own, and plans.get says whether an approval is outstanding. *)
StartRun(r, p) ==
    /\ run[r] = Idle
    /\ plan[p].status # "none"
    /\ run' = [run EXCEPT ![r] =
                 [pc |-> IF plan[p].status = "awaiting_approval"
                         THEN "needApproval" ELSE "requireExecutable",
                  writing |-> FALSE, plan |-> p, step |-> 0, seen |-> FALSE]]
    /\ UNCHANGED <<plan, approval, operation, callVars, history>>

(* Variant: any decided approval will do. *)
RequireDecidedForPlan(r) ==
    /\ run[r].pc = "needApproval"
    /\ Goto(r, IF approval[run[r].plan].status \notin {"none", "pending"}
               THEN "setApproved" ELSE "done")
    /\ UNCHANGED <<plan, approval, operation, callVars, history>>

RequireApprovedForPlan(r) ==
    /\ run[r].pc = "needApproval"
    /\ Goto(r, IF approval[run[r].plan].status = "approved"
               THEN "setApproved" ELSE "done")
    /\ UNCHANGED <<plan, approval, operation, callVars, history>>

SetApproved(r) ==
    /\ run[r].pc = "setApproved"
    /\ plan' = [plan EXCEPT ![run[r].plan].status = "approved"]
    /\ Goto(r, "requireExecutable")
    /\ UNCHANGED <<approval, operation, callVars, history>>

RequireExecutable(r) ==
    LET p == run[r].plan IN
    /\ run[r].pc = "requireExecutable"
    /\ Goto(r, IF plan[p].intact /\ plan[p].status = "approved"
               THEN "create" ELSE "done")
    /\ UNCHANGED <<plan, approval, operation, callVars, history>>

CreateOperation(r) ==
    /\ run[r].pc = "create"
    /\ operation' = [operation EXCEPT
                       ![r] = [state |-> "queued", cancelRequested |-> FALSE]]
    /\ Goto(r, "count")
    /\ UNCHANGED <<plan, approval, callVars, history>>

(* sessions.incrementOperation: the session row belongs to AgentSessions. *)
CountOperation(r) ==
    /\ run[r].pc = "count"
    /\ Goto(r, "begin")
    /\ UNCHANGED <<plan, approval, operation, callVars, history>>

BeginPlan(r) ==
    /\ run[r].pc = "begin"
    /\ plan' = [plan EXCEPT ![run[r].plan].status = "running"]
    /\ Goto(r, "toRunning")
    /\ UNCHANGED <<approval, operation, callVars, history>>

(* Variant: a cancelled run waits for somebody else to record it. *)
CheckStepWaits(r) ==
    /\ run[r].pc = "check"
    /\ ~operation[r].cancelRequested
    /\ \E allowed \in BOOLEAN :
         Goto(r, IF allowed THEN "stepRunning" ELSE "toFailed")
    /\ UNCHANGED <<plan, approval, operation, callVars, history>>

(* shouldCancel, then requireStepAllowed on the session the run was given. *)
CheckStep(r) ==
    /\ run[r].pc = "check"
    /\ \/ /\ operation[r].cancelRequested
          /\ Goto(r, "toCancelled")
       \/ /\ ~operation[r].cancelRequested
          /\ \E allowed \in BOOLEAN :
               Goto(r, IF allowed THEN "stepRunning" ELSE "toFailed")
    /\ UNCHANGED <<plan, approval, operation, callVars, history>>

(* Entering the executor is not a round trip: it happens as soon as the
   transition before it returns. *)
Enter(r, pc) ==
    IF pc = "executing"
    THEN /\ begun' = [begun EXCEPT ![r] = @ + 1]
         /\ overrun' = IF operation[r].cancelRequested
                       THEN overrun \cup {r} ELSE overrun
    ELSE UNCHANGED <<begun, overrun>>

(* OperationManager.transition, first half: the row is read and checked; in
   the goal state already, there is nothing to save. *)
TransitionRead(r) ==
    LET pc == run[r].pc
        o == operation[r]
        throws == o.state # Goal[pc] /\ Goal[pc] \notin TRANSITIONS[o.state]
        next == IF o.state = Goal[pc] THEN Resume[pc]
                ELSE IF throws THEN Throw[pc] ELSE pc
    IN /\ pc \in DOMAIN Goal
       /\ ~run[r].writing
       /\ run' = [run EXCEPT ![r].pc = next, ![r].writing = (next = pc),
                             ![r].seen = (next = pc) /\ o.cancelRequested]
       /\ Enter(r, next)
       /\ UNCHANGED <<plan, approval, operation, callVars, consent>>

(* Second half: the row is saved as it was read, but for the state. *)
TransitionWrite(r) ==
    LET pc == run[r].pc IN
    /\ pc \in DOMAIN Goal
    /\ run[r].writing
    /\ operation' = [operation EXCEPT
                       ![r] = [state |-> Goal[pc],
                               cancelRequested |-> run[r].seen]]
    /\ run' = [run EXCEPT ![r].pc = Resume[pc], ![r].writing = FALSE,
                          ![r].seen = FALSE]
    /\ Enter(r, Resume[pc])
    /\ UNCHANGED <<plan, approval, callVars, consent>>

(* Variant: the loop ends one step early. *)
ExecuteOneTooFew(r) ==
    /\ run[r].pc = "executing"
    /\ \/ run' = [run EXCEPT ![r].step = @ + 1,
                             ![r].pc = IF run[r].step + 2 >= Steps
                                       THEN "toVerifying" ELSE "check"]
       \/ Goto(r, "toFailed")
    /\ UNCHANGED <<plan, approval, operation, callVars, history>>

(* Variant: no catch block around the loop. *)
ExecuteThrowsOut(r) ==
    /\ run[r].pc = "executing"
    /\ \/ run' = [run EXCEPT ![r].step = @ + 1,
                             ![r].pc = IF run[r].step + 1 = Steps
                                       THEN "toVerifying" ELSE "check"]
       \/ Goto(r, "done")
    /\ UNCHANGED <<plan, approval, operation, callVars, history>>

(* executor.execute returns or throws. *)
ExecuteReturns(r) ==
    /\ run[r].pc = "executing"
    /\ \/ run' = [run EXCEPT ![r].step = @ + 1,
                             ![r].pc = IF run[r].step + 1 = Steps
                                       THEN "toVerifying" ELSE "check"]
       \/ Goto(r, "toFailed")
    /\ UNCHANGED <<plan, approval, operation, callVars, history>>

(* plans.setStatus at the end of the run. *)
MarkPlan(r) ==
    /\ run[r].pc \in DOMAIN Mark
    /\ plan' = [plan EXCEPT ![run[r].plan].status = Mark[run[r].pc]]
    /\ Goto(r, "done")
    /\ UNCHANGED <<approval, operation, callVars, history>>

(* The process serving the call exits; nothing resumes the call later. *)
Crash(r) ==
    /\ run[r].pc \notin {"idle", "done", "crashed"}
    /\ Goto(r, "crashed")
    /\ UNCHANGED <<plan, approval, operation, callVars, history>>

-----------------------------------------------------------------------------
(* Cancelling an operation *)

RequestCancel(c, r) ==
    /\ cancel[c] = Idle
    /\ operation[r].state \notin Ended \cup {"none"}
    /\ cancel' = [cancel EXCEPT ![c] =
                    [pc |-> "read", run |-> r,
                     goal |-> IF operation[r].state = "queued"
                              THEN "cancelled" ELSE "cancelling"]]
    /\ UNCHANGED <<plan, approval, operation, run, decision, history>>

CancelRead(c) ==
    LET o == operation[cancel[c].run] IN
    /\ cancel[c].pc = "read"
    /\ cancel' = [cancel EXCEPT ![c] =
                    IF /\ o.state # cancel[c].goal
                       /\ cancel[c].goal \in TRANSITIONS[o.state]
                    THEN [@ EXCEPT !.pc = "write"] ELSE Idle]
    /\ UNCHANGED <<plan, approval, operation, run, decision, history>>

CancelWrite(c) ==
    /\ cancel[c].pc = "write"
    /\ operation' = [operation EXCEPT
                       ![cancel[c].run] = [state |-> cancel[c].goal,
                                           cancelRequested |-> TRUE]]
    /\ cancel' = [cancel EXCEPT ![c] = Idle]
    /\ UNCHANGED <<plan, approval, run, decision, history>>

-----------------------------------------------------------------------------
RunStep(r) ==
    \/ RequireApprovedForPlan(r) \/ SetApproved(r) \/ RequireExecutable(r)
    \/ CreateOperation(r) \/ CountOperation(r) \/ BeginPlan(r)
    \/ CheckStep(r) \/ TransitionRead(r) \/ TransitionWrite(r)
    \/ ExecuteReturns(r) \/ MarkPlan(r)

Next ==
    \/ \E p \in Plans : CreatePlan(p) \/ RequestForPlan(p) \/ WindowElapses(p)
    \/ \E d \in Decisions :
         \/ \E p \in Plans, v \in {"approved", "denied", "expired"} :
              Decide(d, p, v)
         \/ DecideRead(d) \/ DecideWrite(d)
    \/ \E r \in Runs : RunStep(r) \/ Crash(r) \/ \E p \in Plans : StartRun(r, p)
    \/ \E c \in Cancels :
         \/ \E r \in Runs : RequestCancel(c, r)
         \/ CancelRead(c) \/ CancelWrite(c)

Spec == Init /\ [][Next]_vars

(* Node's event loop resumes a call whose answer has arrived, and the
   executor's commands end or time out.  What people do is not fair. *)
Fairness == \A r \in Runs : WF_vars(RunStep(r))

FairSpec == Spec /\ Fairness

-----------------------------------------------------------------------------
(* What is claimed *)

(* No step of a plan reaches the executor unless the stored plan still has
   the hash it was created with and, when the policy asked for an approval,
   somebody approved it before its window closed: not a denied approval, not
   an expired one, whatever else happens to the rows meanwhile
   (requireApprovedForPlan, requireExecutable, decide). *)
NothingRunsUnapproved ==
    \A r \in Runs : begun[r] > 0 =>
        LET p == run[r].plan IN
        plan[p].intact /\ (plan[p].gated => p \in consent)

(* `succeeded` means every step ran (agent-model.ts says so of the field), even
   though other calls may save the same row in between. *)
SucceededRanAll ==
    \A r \in Runs : operation[r].state = "succeeded" =>
        begun[r] = Steps /\ run[r].step = Steps

(* Cancellation is cooperative but prompt: with the request stored in the row,
   the run hands nothing more to the executor, not even the step whose
   shouldCancel it had already passed; the transition before the step is what
   stops that one. *)
NoStepAfterCancel == overrun = {}

(* A call that has returned does not leave its operation looking alive: it is
   ended, or a cancel request overwrote it.  Its plan, if no other run has it,
   is left `running` only where the run was cancelled: every other way out of
   executePlanForSession records the status of the plan. *)
SettledAtReturn ==
    \A r \in Runs : run[r].pc = "done" /\ operation[r].state # "none" =>
        /\ operation[r].state \in Ended \cup {"cancelling"}
        /\ \/ operation[r].state \in {"cancelled", "cancelling"}
           \/ \E q \in Runs \ {r} : run[q] # Idle /\ run[q].plan = run[r].plan
           \/ plan[run[r].plan].status # "running"

(* Every call ends, if the process lives: no interleaving with cancels,
   decisions or other runs leaves executePlanForSession waiting. *)
RunsFinish ==
    \A r \in Runs : run[r] # Idle ~> run[r].pc \in {"done", "crashed"}

(* One approval, one execution: no two runs hand steps of the same gated plan
   to the executor. *)
OneRunPerApproval ==
    \A r, q \in Runs :
        /\ r # q
        /\ begun[r] > 0 /\ begun[q] > 0
        /\ run[r].plan = run[q].plan
        => ~plan[run[r].plan].gated

=============================================================================
