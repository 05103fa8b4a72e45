------------------------- MODULE AgentControlProofs --------------------------
(***************************************************************************)
(* Proofs about AgentControl for any plans, runs, administrators,          *)
(* processes, capabilities and operations on the session.                  *)
(*                                                                         *)
(* The composition takes steps of PlanExecution only, so that what         *)
(* PlanExecutionProofs shows of plans holds here too.  To that the         *)
(* invariant Whole adds                                                    *)
(*   SessionSide  rows and calls of sessions have their types, and none    *)
(*                carries an outright permission to buy servers;           *)
(*   Bookings     a call that spends belongs to a run that is              *)
(*                provisioning;                                            *)
(*   Gates        a plan that provisions needs an approval;                *)
(*   Stops        after a step begun in a stopped process no other can     *)
(*                be about to begin.                                       *)
(***************************************************************************)
EXTENDS AgentControl, Integers, Sequences, TLAPS

PXP == INSTANCE PlanExecutionProofs

-----------------------------------------------------------------------------
(* The composition takes the steps of PlanExecution *)

(* Two instances of one module are the same. *)
LEMMA SameInit == PX!Init <=> PXP!Init
BY DEF PX!Init, PXP!Init, PX!NoOperation, PXP!NoOperation, PX!Idle, PXP!Idle

LEMMA SameUser ==
    /\ \A p \in Plans : /\ PX!CreatePlan(p) <=> PXP!CreatePlan(p)
                        /\ PX!RequestForPlan(p) <=> PXP!RequestForPlan(p)
                        /\ PX!WindowElapses(p) <=> PXP!WindowElapses(p)
    /\ \A d \in Decisions :
         /\ \A p \in Plans, v \in {"approved", "denied", "expired"} :
              PX!Decide(d, p, v) <=> PXP!Decide(d, p, v)
         /\ PX!DecideRead(d) <=> PXP!DecideRead(d)
         /\ PX!DecideWrite(d) <=> PXP!DecideWrite(d)
    /\ \A c \in Cancels :
         /\ \A r \in Runs : PX!RequestCancel(c, r) <=> PXP!RequestCancel(c, r)
         /\ PX!CancelRead(c) <=> PXP!CancelRead(c)
         /\ PX!CancelWrite(c) <=> PXP!CancelWrite(c)
BY DEF PX!CreatePlan, PXP!CreatePlan, PX!RequestForPlan, PXP!RequestForPlan,
   PX!WindowElapses, PXP!WindowElapses, PX!Decide, PXP!Decide, PX!DecideRead,
   PXP!DecideRead, PX!DecideWrite, PXP!DecideWrite, PX!RequestCancel,
   PXP!RequestCancel, PX!CancelRead, PXP!CancelRead, PX!CancelWrite,
   PXP!CancelWrite, PX!Idle, PXP!Idle, PX!callVars, PXP!callVars, PX!history,
   PXP!history, PX!Ended, PXP!Ended, PX!TRANSITIONS, PXP!TRANSITIONS,
   PX!OperationState, PXP!OperationState

LEMMA SameRun ==
    ASSUME NEW r \in Runs
    PROVE /\ PX!RunStep(r) <=> PXP!RunStep(r)
          /\ PX!Crash(r) <=> PXP!Crash(r)
          /\ \A p \in Plans : PX!StartRun(r, p) <=> PXP!StartRun(r, p)
<1>1. \A pc : PX!Goto(r, pc) <=> PXP!Goto(r, pc)
  BY DEF PX!Goto, PXP!Goto
<1>2. \A pc : PX!Enter(r, pc) <=> PXP!Enter(r, pc)
  BY Zenon DEF PX!Enter, PXP!Enter
<1>3. PX!TransitionRead(r) <=> PXP!TransitionRead(r)
  BY <1>2 DEF PX!TransitionRead, PXP!TransitionRead, PX!Goal, PXP!Goal, PX!Resume,
     PXP!Resume, PX!Throw, PXP!Throw, PX!TRANSITIONS, PXP!TRANSITIONS,
     PX!OperationState, PXP!OperationState, PX!callVars, PXP!callVars
<1>4. PX!TransitionWrite(r) <=> PXP!TransitionWrite(r)
  BY <1>2 DEF PX!TransitionWrite, PXP!TransitionWrite, PX!Goal, PXP!Goal, PX!Resume,
     PXP!Resume, PX!callVars, PXP!callVars
<1>5. PX!MarkPlan(r) <=> PXP!MarkPlan(r)
  BY <1>1 DEF PX!MarkPlan, PXP!MarkPlan, PX!Mark, PXP!Mark, PX!callVars, PXP!callVars,
     PX!history, PXP!history
<1> QED
  BY <1>1, <1>3, <1>4, <1>5 DEF PX!RunStep, PXP!RunStep, PX!RequireApprovedForPlan,
     PXP!RequireApprovedForPlan, PX!SetApproved, PXP!SetApproved,
     PX!RequireExecutable, PXP!RequireExecutable, PX!CreateOperation,
     PXP!CreateOperation, PX!CountOperation, PXP!CountOperation, PX!BeginPlan,
     PXP!BeginPlan, PX!CheckStep, PXP!CheckStep, PX!ExecuteReturns,
     PXP!ExecuteReturns, PX!Crash, PXP!Crash, PX!StartRun, PXP!StartRun,
     PX!Idle, PXP!Idle, PX!callVars, PXP!callVars, PX!history, PXP!history

LEMMA SameNext == [PX!Next]_(PX!vars) => [PXP!Next]_(PXP!vars)
BY SameUser, SameRun DEF PX!Next, PXP!Next, PX!vars, PXP!vars

(* A step of a run is one of its plan's execution, or none of PlanExecution. *)
LEMMA RunStepMaps ==
    ASSUME NEW r \in Runs, RunStep(r)
    PROVE PX!RunStep(r) \/ UNCHANGED pxVars
BY DEF RunStep, CountBegin, CountEnd, CheckStep, Transition, ExecuteReturns,
   ProvisionBegin, ProvisionRefused, ProvisionEnd, SessionRead, SessionWrite,
   PX!RunStep

LEMMA StepMaps == [Next]_vars => [PX!Next]_(PX!vars)
<1> SUFFICES ASSUME [Next]_vars
             PROVE PX!Next \/ UNCHANGED pxVars
  BY DEF pxVars, PX!vars
<1>1. CASE UNCHANGED vars
  BY <1>1 DEF vars
<1>2. ASSUME NEW p \in Plans, CreatePlan(p)
      PROVE PX!Next
  BY <1>2 DEF CreatePlan, PX!Next
<1>3. ASSUME NEW r \in Runs, RunStep(r)
      PROVE PX!Next \/ UNCHANGED pxVars
  BY <1>3, RunStepMaps DEF PX!Next
<1>4. ASSUME NEW r \in Runs, NEW p \in Plans, StartRun(r, p)
      PROVE PX!Next
  BY <1>4 DEF StartRun, PX!Next
<1>5. ASSUME NEW r \in Runs, Crash(r)
      PROVE PX!Next
  BY <1>5 DEF Crash, PX!Next
<1>6. ASSUME NEW r \in Runs, Authenticate(r)
      PROVE UNCHANGED pxVars
  BY <1>6 DEF Authenticate
<1>7. ASSUME NEW p \in Procs, Restart(p)
      PROVE UNCHANGED pxVars
  BY <1>7 DEF Restart
<1>8. CASE UserStep
  BY <1>8 DEF UserStep, PX!Next
<1>9. CASE SessionStep
  BY <1>9 DEF SessionStep
<1> QED
  BY <1>1, <1>2, <1>3, <1>4, <1>5, <1>6, <1>7, <1>8, <1>9 DEF Next

(* Whatever sessions, budgets and emergency stops do, plans are executed as
   PlanExecution says. *)
THEOREM ImplementsPlans == Spec => PlanProtocol
<1>1. Init => PX!Init
  BY DEF Init
<1>2. [Next]_vars => [PX!Next]_(PX!vars)
  BY StepMaps
<1> QED
  BY <1>1, <1>2, PTL DEF Spec, PlanProtocol, PX!Spec

-----------------------------------------------------------------------------
(* The plan side *)

(* What PlanExecutionProofs shows of it. *)
PlanSide == PXP!Typed /\ PXP!ConsentGiven

LEMMA PlanSideInit == Init => PlanSide
BY SameInit, StepsAssumption, PXP!TypedInit, PXP!ConsentInit
   DEF Init, PlanSide, PXP!StepsAssumption

LEMMA PlanSideNext == PlanSide /\ [Next]_vars => PlanSide'
BY StepMaps, SameNext, StepsAssumption, PXP!TypedNext, PXP!ConsentNext
   DEF PlanSide, PXP!StepsAssumption

(* What PlanExecution promises of plans, the whole control plane keeps, with
   sessions, budgets and stops at work: no step unapproved, none after a stored
   cancel, success only of plans that ran to the end, and nothing that looks
   alive left behind by a call that returned (executePlanForSession). *)
THEOREM PlansStaySafe ==
    Spec => [](/\ PX!NothingRunsUnapproved
               /\ PX!NoStepAfterCancel
               /\ PX!SucceededRanAll
               /\ PX!SettledAtReturn)
<1> DEFINE Inner == PlanSide /\ PXP!CancelVisible /\ PXP!ProgressKept /\ PXP!InStep
<1>1. Init => Inner
  BY PlanSideInit, SameInit, StepsAssumption, PXP!CancelInit, PXP!ProgressInit,
     PXP!InStepInit DEF Init, PXP!StepsAssumption
<1>2. Inner /\ [Next]_vars => Inner'
  BY PlanSideNext, StepMaps, SameNext, StepsAssumption, PXP!CancelNext,
     PXP!ProgressNext, PXP!InStepNext DEF PlanSide, PXP!StepsAssumption
<1>3. PXP!ConsentGiven => PX!NothingRunsUnapproved
  BY DEF PXP!ConsentGiven, PXP!RunsConsented, PXP!Consented, PX!NothingRunsUnapproved
<1>4. PXP!CancelVisible => PX!NoStepAfterCancel
  BY DEF PXP!CancelVisible, PX!NoStepAfterCancel
<1>5. PXP!ProgressKept => PX!SucceededRanAll
  BY DEF PXP!ProgressKept, PX!SucceededRanAll
<1>6. PXP!InStep => PX!SettledAtReturn
  BY DEF PXP!InStep, PXP!Fits, PXP!Unborn, PXP!InLoop, PXP!Mark, PXP!Shared, PXP!Ended,
     PXP!Idle, PX!SettledAtReturn, PX!Ended, PX!Idle
<1>7. Inner => /\ PX!NothingRunsUnapproved
               /\ PX!NoStepAfterCancel
               /\ PX!SucceededRanAll
               /\ PX!SettledAtReturn
  BY <1>3, <1>4, <1>5, <1>6 DEF PlanSide
<1> QED
  BY <1>1, <1>2, <1>7, PTL DEF Spec

-----------------------------------------------------------------------------
(* The session side *)

(* A row through which nothing is provisioned without an approval. *)
NoneOutright(row) ==
    row # SS!NoSession => row.allow \cap Provisioning = {}

(* A call knows what it is doing where it stands, and carries no wider row. *)
CallSound(e) ==
    e # SS!Idle =>
        /\ e.pc = "save" => e.op.kind \in {"stop", "clear"}
        /\ e.pc \in {"list", "relist"} => e.op.kind \in {"stop", "revokeAll"}
        /\ e.pc \in {"read", "write"} => e.op.kind # "clear"
        /\ e.pc = "write" => e.row # SS!NoSession
        /\ e.pc = "buy" => e.op.kind = "spend"
        /\ e.op.kind = "grant" => e.op.capability \notin Provisioning
        /\ NoneOutright(e.row)

SessionSide ==
    /\ SS!TypeOK
    /\ NoneOutright(session)
    /\ \A c \in Calls : /\ CallSound(call[c])
                        /\ call[c] # SS!Idle => session # SS!NoSession

(* An operation that may be asked for. *)
Asked(op) ==
    /\ op \in SS!Operation
    /\ op.kind = "grant" => op.capability \notin Provisioning

LEMMA AskedOps ==
    /\ \A op \in Ops : Asked(op)
    /\ Asked(SS!IncrementOperation)
    /\ Asked(SS!CommitProviderSpend(Price))
<1>1. \A op \in Ops : Asked(op)
  BY SessionsAssumption, GrantsAssumption DEF Asked
<1>2. SS!IncrementOperation \in SS!Operation
  BY DEF SS!IncrementOperation, SS!Operation
<1>3. SS!CommitProviderSpend(Price) \in SS!Operation
  BY RunsAssumption DEF SS!CommitProviderSpend, SS!Operation
<1> QED
  BY <1>1, <1>2, <1>3 DEF Asked, SS!IncrementOperation, SS!CommitProviderSpend

(* A record that is not Idle is a call with all of its fields. *)
LEMMA CallRecord ==
    ASSUME SessionSide, NEW c \in Calls, call[c].pc # "idle"
    PROVE call[c] \in SS!Call /\ call[c] # SS!Idle
BY DEF SessionSide, SS!TypeOK, SS!Idle

(* What an operation is made of, by its kind. *)
LEMMA OperationKinds ==
    ASSUME NEW op \in SS!Operation
    PROVE /\ op.kind \in {"status", "increment", "clear", "spend", "extend", "grant",
                          "narrow", "stop", "revokeAll"}
          /\ op.kind = "status" => op.to \in SS!SessionStatus
          /\ op.kind \in {"stop", "revokeAll"} =>
               /\ op \in [kind : {"stop", "revokeAll"}, to : {"revoked", "expired"}]
               /\ op.to \in SS!SessionStatus
          /\ op.kind = "spend" => op.eur \in Nat
          /\ op.kind = "extend" => op.expires \in Nat
          /\ op.kind = "grant" =>
               /\ op.capability \in Capabilities
               /\ op.target \in Targets \cup {NoTarget}
               /\ op.environments \subseteq Environments
          /\ op.kind = "narrow" =>
               /\ op.capabilities \subseteq Capabilities
               /\ op.targets \in Seq(SUBSET Targets)
               /\ op.expires \in Seq(Nat)
               /\ op.cap \in Seq(Nat)
BY DEF SS!Operation, SS!SessionStatus

(* What a narrowing sets a field to, or leaves it at. *)
LEMMA FieldSet ==
    ASSUME NEW S, NEW old \in S, NEW s \in Seq(S)
    PROVE (IF s = <<>> THEN old ELSE s[1]) \in S
OBVIOUS

(* The row a call saves is a session, and no wider than the one it read. *)
LEMMA UpdatedSound ==
    ASSUME NEW op, Asked(op), op.kind # "clear", NEW row \in SS!Session,
           NoneOutright(row)
    PROVE SS!Updated(op, row) \in SS!Session /\ NoneOutright(SS!Updated(op, row))
<1> DEFINE new == SS!Updated(op, row)
<1>1. op \in SS!Operation /\ row # SS!NoSession /\ row.allow \cap Provisioning = {}
  BY DEF Asked, SS!Session, SS!NoSession, NoneOutright
<1>2. CASE op.kind \in {"status", "stop", "revokeAll"}
  <2>1. new = [row EXCEPT !.status = op.to] /\ op.to \in SS!SessionStatus
    BY <1>1, <1>2, OperationKinds DEF SS!Updated
  <2> QED
    BY <1>1, <2>1 DEF NoneOutright, SS!Session
<1>3. CASE op.kind = "increment"
  <2>1. new = [row EXCEPT !.count = @ + 1]
    BY <1>3 DEF SS!Updated
  <2> QED
    BY <1>1, <2>1 DEF NoneOutright, SS!Session
<1>4. CASE op.kind = "spend"
  <2>1. new = [row EXCEPT !.spend = @ + op.eur] /\ op.eur \in Nat
    BY <1>1, <1>4, OperationKinds DEF SS!Updated
  <2> QED
    BY <1>1, <2>1 DEF NoneOutright, SS!Session
<1>5. CASE op.kind = "extend"
  <2>1. new = [row EXCEPT !.expires = op.expires] /\ op.expires \in Nat
    BY <1>1, <1>5, OperationKinds DEF SS!Updated
  <2> QED
    BY <1>1, <2>1 DEF NoneOutright, SS!Session
<1>6. CASE op.kind = "grant"
  <2>1. new = SS!GrantScope(row, op)
    BY <1>6 DEF SS!Updated
  <2>2. /\ op.capability \in Capabilities \ Provisioning
        /\ op.target \in Targets \cup {NoTarget}
        /\ op.environments \subseteq Environments
    BY <1>1, <1>6, OperationKinds DEF Asked
  <2> DEFINE targets == IF op.target = NoTarget THEN row.targets
                        ELSE row.targets \cup {op.target}
  <2>3. targets \in SUBSET Targets
    BY <2>2 DEF SS!Session
  <2>4. new = [row EXCEPT !.targets = targets, !.environments = @ \cup op.environments,
                          !.allow = @ \cup {op.capability}, !.deny = @ \ {op.capability},
                          !.requireApproval = @ \ {op.capability}]
    BY <2>1 DEF SS!GrantScope
  <2> HIDE DEF targets, new
  <2>5. new \in SS!Session
    BY <2>2, <2>3, <2>4 DEF SS!Session, SS!Patterns
  <2>6. new.allow = row.allow \cup {op.capability}
    BY <2>4 DEF SS!Session
  <2> QED
    BY <1>1, <2>2, <2>5, <2>6 DEF NoneOutright, new
<1>7. CASE op.kind = "narrow"
  <2> DEFINE targets == IF op.targets = <<>> THEN row.targets ELSE op.targets[1]
             expires == IF op.expires = <<>> THEN row.expires ELSE op.expires[1]
             cap == IF op.cap = <<>> THEN row.cap ELSE op.cap[1]
  <2>1. /\ op.capabilities \subseteq Capabilities
        /\ op.targets \in Seq(SUBSET Targets)
        /\ op.expires \in Seq(Nat) /\ op.cap \in Seq(Nat)
    BY <1>1, <1>7, OperationKinds
  <2>2. targets \in SUBSET Targets /\ expires \in Nat /\ cap \in Nat
    <3>1. row.targets \in SUBSET Targets /\ row.expires \in Nat /\ row.cap \in Nat
      BY DEF SS!Session
    <3> QED
      BY <2>1, <3>1, FieldSet
  <2>3. new = [row EXCEPT !.targets = targets, !.allow = @ \ op.capabilities,
                 !.allowWithinApprovedPlan = @ \ op.capabilities,
                 !.requireApproval = @ \ op.capabilities,
                 !.deny = @ \cup op.capabilities, !.expires = expires, !.cap = cap]
    BY <1>7 DEF SS!Updated, SS!NarrowScope
  <2> HIDE DEF targets, expires, cap, new
  <2>4. new \in SS!Session
    BY <2>1, <2>2, <2>3 DEF SS!Session, SS!Patterns
  <2>5. new.allow = row.allow \ op.capabilities
    BY <2>3 DEF SS!Session
  <2> QED
    BY <1>1, <2>4, <2>5 DEF NoneOutright, new
<1> QED
  BY <1>1, <1>2, <1>3, <1>4, <1>5, <1>6, <1>7, OperationKinds

(* What else a step of the sessions keeps. *)
OthersTyped ==
    /\ now \in 0..MaxTime
    /\ setting \in BOOLEAN
    /\ stopped \in [Procs -> BOOLEAN]
    /\ bought \in Nat
    /\ taken \subseteq Capabilities
    /\ ended \in BOOLEAN
    /\ pressed \in {"none", "stop", "clear"}

(* A step that moves one call and leaves the row alone. *)
LEMMA CallMoved ==
    ASSUME SessionSide, OthersTyped', session' = session, NEW c \in Calls,
           NEW e \in {SS!Idle} \cup SS!Call, CallSound(e),
           e # SS!Idle => session # SS!NoSession,
           call' = [call EXCEPT ![c] = e]
    PROVE SessionSide'
BY DEF SessionSide, SS!TypeOK, OthersTyped, NoneOutright, CallSound

LEMMA BeginSound ==
    ASSUME SessionSide, NEW c \in Calls, NEW p \in Procs, NEW op, Asked(op),
           SS!Begin(c, p, op)
    PROVE SessionSide'
<1> DEFINE e == [pc |-> SS!FirstPc(p, op), proc |-> p, op |-> op, row |-> SS!NoSession]
<1>1. op \in SS!Operation /\ stopped[p] \in BOOLEAN
  BY DEF Asked, SessionSide, SS!TypeOK
<1>2. /\ SS!FirstPc(p, op) \in {"save", "list", "read"}
      /\ SS!FirstPc(p, op) = "save" => op.kind \in {"stop", "clear"}
      /\ SS!FirstPc(p, op) = "list" => op.kind \in {"stop", "revokeAll"}
      /\ SS!FirstPc(p, op) = "read" => op.kind # "clear"
  BY <1>1, OperationKinds DEF SS!FirstPc
<1>3. e \in SS!Call
  BY <1>1, <1>2 DEF SS!Call, SS!CallPc
<1>4. CallSound(e)
  BY <1>2 DEF CallSound, Asked, NoneOutright
<1>5. OthersTyped'
  BY <1>1, OperationKinds DEF SS!Begin, OthersTyped, SessionSide, SS!TypeOK
<1>6. call' = [call EXCEPT ![c] = e] /\ session' = session /\ session # SS!NoSession
  BY DEF SS!Begin
<1> HIDE DEF e
<1> QED
  BY <1>3, <1>4, <1>5, <1>6, CallMoved

LEMMA SaveSound ==
    ASSUME SessionSide, NEW c \in Calls, SS!Save(c)
    PROVE SessionSide'
<1>1. call[c] \in SS!Call /\ call[c] # SS!Idle /\ CallSound(call[c])
      /\ session # SS!NoSession
  BY CallRecord DEF SS!Save, SessionSide
<1> DEFINE stop == call[c].op.kind = "stop"
           e == IF stop THEN [call[c] EXCEPT !.pc = "list"] ELSE SS!Idle
<1>2. e \in {SS!Idle} \cup SS!Call
  BY <1>1 DEF SS!Call, SS!CallPc
<1>3. CallSound(e)
  BY <1>1 DEF CallSound, SS!Call
<1>4. OthersTyped'
  BY DEF SS!Save, OthersTyped, SessionSide, SS!TypeOK
<1>5. call' = [call EXCEPT ![c] = e] /\ session' = session
  BY DEF SS!Save
<1> HIDE DEF e
<1> QED
  BY <1>1, <1>2, <1>3, <1>4, <1>5, CallMoved

LEMMA ListSound ==
    ASSUME SessionSide, NEW c \in Calls, SS!List(c)
    PROVE SessionSide'
<1>1. call[c] \in SS!Call /\ call[c] # SS!Idle /\ CallSound(call[c])
      /\ session # SS!NoSession
  BY CallRecord DEF SS!List, SessionSide
<1> DEFINE overdue == session.status = "active" /\ session.expires <= now
           pc == IF overdue THEN "read" ELSE "relist"
           op == IF overdue THEN [call[c].op EXCEPT !.to = "expired"] ELSE call[c].op
           e == [call[c] EXCEPT !.pc = pc, !.op = op]
<1>2. /\ call[c].op.kind \in {"stop", "revokeAll"}
      /\ call[c].op \in [kind : {"stop", "revokeAll"}, to : {"revoked", "expired"}]
      /\ NoneOutright(call[c].row)
  BY <1>1, OperationKinds DEF SS!List, CallSound, SS!Call
<1>3. op \in SS!Operation /\ op.kind = call[c].op.kind
  BY <1>2 DEF SS!Operation
<1>4. pc \in {"read", "relist"}
  OBVIOUS
<1>5. call' = [call EXCEPT ![c] = e] /\ session' = session
  BY <1>1, <1>2 DEF SS!List, SessionSide, SS!TypeOK, SS!Call
<1> HIDE DEF pc, op, overdue
<1>6. e \in SS!Call
  BY <1>1, <1>3, <1>4 DEF SS!Call, SS!CallPc
<1>7. CallSound(e)
  BY <1>1, <1>2, <1>3, <1>4 DEF CallSound, SS!Call
<1>8. OthersTyped'
  BY DEF SS!List, OthersTyped, SessionSide, SS!TypeOK
<1> HIDE DEF e
<1> QED
  BY <1>1, <1>5, <1>6, <1>7, <1>8, CallMoved

LEMMA RelistSound ==
    ASSUME SessionSide, NEW c \in Calls, SS!Relist(c)
    PROVE SessionSide'
<1>1. call[c] \in SS!Call /\ call[c] # SS!Idle /\ CallSound(call[c])
      /\ session # SS!NoSession
  BY CallRecord DEF SS!Relist, SessionSide
<1> DEFINE live == session.status \in {"active", "paused"}
           op == [call[c].op EXCEPT !.to = "revoked"]
           e == IF live THEN [call[c] EXCEPT !.pc = "read", !.op = op] ELSE SS!Idle
<1>2. /\ call[c].op.kind \in {"stop", "revokeAll"}
      /\ call[c].op \in [kind : {"stop", "revokeAll"}, to : {"revoked", "expired"}]
      /\ NoneOutright(call[c].row)
  BY <1>1, OperationKinds DEF SS!Relist, CallSound, SS!Call
<1>3. op \in SS!Operation /\ op.kind = call[c].op.kind
  BY <1>2 DEF SS!Operation
<1>4. call' = [call EXCEPT ![c] = e] /\ session' = session
  BY <1>1, <1>2 DEF SS!Relist, SessionSide, SS!TypeOK, SS!Call
<1>5. OthersTyped'
  BY DEF SS!Relist, OthersTyped, SessionSide, SS!TypeOK, SS!Completed
<1> HIDE DEF op, live
<1>6. e \in {SS!Idle} \cup SS!Call
  BY <1>1, <1>3 DEF SS!Call, SS!CallPc
<1>7. CallSound(e)
  BY <1>1, <1>2, <1>3 DEF CallSound, SS!Call
<1> HIDE DEF e
<1> QED
  BY <1>1, <1>4, <1>5, <1>6, <1>7, CallMoved

LEMMA ReadSound ==
    ASSUME SessionSide, NEW c \in Calls, SS!Read(c)
    PROVE SessionSide'
<1>1. call[c] \in SS!Call /\ call[c] # SS!Idle /\ CallSound(call[c])
      /\ session # SS!NoSession /\ NoneOutright(session)
      /\ session \in SS!Session
  BY CallRecord DEF SS!Read, SessionSide, SS!TypeOK
<1> DEFINE e == IF SS!Refused(call[c].op) THEN SS!Idle
                ELSE [call[c] EXCEPT !.pc = "write", !.row = session]
<1>2. e \in {SS!Idle} \cup SS!Call
  BY <1>1 DEF SS!Call, SS!CallPc
<1>3. CallSound(e)
  BY <1>1 DEF CallSound, SS!Call, SS!Read
<1>4. OthersTyped'
  BY DEF SS!Read, OthersTyped, SessionSide, SS!TypeOK
<1>5. call' = [call EXCEPT ![c] = e] /\ session' = session
  BY DEF SS!Read
<1> HIDE DEF e
<1> QED
  BY <1>1, <1>2, <1>3, <1>4, <1>5, CallMoved

LEMMA WriteSound ==
    ASSUME SessionSide, NEW c \in Calls, SS!Write(c)
    PROVE SessionSide'
<1>1. /\ call[c] \in SS!Call /\ call[c] # SS!Idle /\ CallSound(call[c])
      /\ call[c].pc = "write" /\ call[c].op \in SS!Operation
  BY CallRecord DEF SS!Write, SessionSide, SS!Call
<1>2. /\ Asked(call[c].op) /\ call[c].op.kind # "clear"
      /\ call[c].row \in SS!Session /\ NoneOutright(call[c].row)
  BY <1>1 DEF CallSound, Asked, SS!Call
<1>3. session' \in SS!Session /\ NoneOutright(session')
  BY <1>2, UpdatedSound DEF SS!Write
<1>4. session' # SS!NoSession
  BY <1>3 DEF SS!Session, SS!NoSession
<1> DEFINE last == call[c].op.kind \in {"stop", "revokeAll"} /\ call[c].op.to = "revoked"
           next == CASE call[c].op.kind = "spend" -> "buy"
                     [] call[c].op.kind \in {"stop", "revokeAll"} /\ ~last -> "relist"
                     [] OTHER -> "idle"
           e == IF next = "idle" THEN SS!Idle
                ELSE [call[c] EXCEPT !.pc = next, !.row = SS!NoSession]
<1>5. /\ next \in {"buy", "relist", "idle"}
      /\ next = "buy" => call[c].op.kind = "spend"
      /\ next = "relist" => call[c].op.kind \in {"stop", "revokeAll"}
  OBVIOUS
<1>6. call' = [call EXCEPT ![c] = e]
  BY DEF SS!Write
<1> HIDE DEF next
<1>7. e \in {SS!Idle} \cup SS!Call
  BY <1>1, <1>5 DEF SS!Call, SS!CallPc
<1>8. CallSound(e)
  BY <1>1, <1>5 DEF CallSound, SS!Call, NoneOutright
<1>9. OthersTyped'
  <2>1. taken' \subseteq Capabilities
    BY <1>1, OperationKinds DEF SS!Write, SessionSide, SS!TypeOK
  <2> QED
    BY <2>1 DEF SS!Write, OthersTyped, SessionSide, SS!TypeOK, SS!Completed
<1> HIDE DEF e
<1> QED
  BY <1>3, <1>4, <1>6, <1>7, <1>8, <1>9
  DEF SessionSide, SS!TypeOK, OthersTyped, NoneOutright, CallSound

LEMMA BuySound ==
    ASSUME SessionSide, NEW c \in Calls, SS!Buy(c)
    PROVE SessionSide'
<1>1. call[c] \in SS!Call /\ call[c].op.kind = "spend"
  BY CallRecord DEF SS!Buy, SessionSide, CallSound
<1>2. call[c].op.eur \in Nat
  BY <1>1, OperationKinds DEF SS!Call
<1>3. OthersTyped'
  BY <1>2 DEF SS!Buy, OthersTyped, SessionSide, SS!TypeOK
<1>4. call' = [call EXCEPT ![c] = SS!Idle] /\ session' = session /\ CallSound(SS!Idle)
  BY DEF SS!Buy, CallSound
<1> QED
  BY <1>3, <1>4, CallMoved

LEMMA OtherSound ==
    ASSUME SessionSide,
           SS!Create \/ SS!Tick \/ \E p \in Procs : SS!Restart(p)
    PROVE SessionSide'
<1>1. CASE SS!Create
  <2>1. session' \in SS!Session
    BY <1>1, SessionsAssumption
    DEF SS!Create, SS!Session, SS!SessionStatus, SS!Permissions, SessionSide, SS!TypeOK
  <2>2. session'.allow = DefaultPermissions.allow
    BY <1>1 DEF SS!Create
  <2>3. session' # SS!NoSession
    BY <2>1 DEF SS!Session, SS!NoSession
  <2>4. OthersTyped' /\ call' = call
    BY <1>1 DEF SS!Create, OthersTyped, SessionSide, SS!TypeOK
  <2> QED
    BY <2>1, <2>2, <2>3, <2>4, GrantsAssumption
    DEF SessionSide, SS!TypeOK, OthersTyped, NoneOutright, CallSound
<1>2. CASE SS!Tick
  <2>1. now + 1 \in 0..MaxTime
    BY <1>2, SessionsAssumption DEF SS!Tick, SessionSide, SS!TypeOK
  <2> QED
    BY <1>2, <2>1 DEF SS!Tick, SessionSide, SS!TypeOK, NoneOutright, CallSound
<1>3. ASSUME NEW p \in Procs, SS!Restart(p)
      PROVE SessionSide'
  BY <1>3 DEF SS!Restart, SessionSide, SS!TypeOK, NoneOutright, CallSound
<1> QED
  BY <1>1, <1>2, <1>3

-----------------------------------------------------------------------------
(* Where they meet *)

(* What a step of a run does to the plans and to where the runs are. *)
RunMoved(r) ==
    /\ run[r].pc # "idle" /\ run'[r].pc # "idle"
    /\ run'[r].plan = run[r].plan /\ run[r].plan \in Plans
    /\ \A q \in Runs : q # r => run'[q] = run[q]
    /\ run'[r].pc = "stepRunning" => run[r].pc \in {"check", "stepRunning"}
    /\ begun' # begun => run[r].pc = "stepRunning" /\ run'[r].pc = "executing"
    /\ consent' = consent

PlansMoved ==
    \A p \in Plans : /\ plan'[p].gated = plan[p].gated
                     /\ plan'[p].status # "none" => plan[p].status # "none"

(* A run that goes on by Goto. *)
LEMMA GotoMoved ==
    ASSUME PlanSide, NEW r \in Runs, NEW pc, run[r].pc # "idle", PXP!Goto(r, pc),
           pc # "idle", pc = "stepRunning" => run[r].pc = "check",
           UNCHANGED <<begun, consent>>
    PROVE RunMoved(r)
<1>1. /\ run[r] \in PXP!Run
      /\ run'[r] = [run[r] EXCEPT !.pc = pc] /\ run'[r].pc = pc
      /\ \A q \in Runs : q # r => run'[q] = run[q]
  BY StepsAssumption, PXP!GotoEffect DEF PlanSide, PXP!StepsAssumption
<1> QED
  BY <1>1 DEF RunMoved, PXP!Run

(* The row of a plan a run is on exists. *)
LEMMA SetStatusMoved ==
    ASSUME PlanSide, NEW r \in Runs, run[r].pc # "idle", NEW status,
           plan' = [plan EXCEPT ![run[r].plan].status = status]
    PROVE PlansMoved
<1>1. plan[run[r].plan].status # "none"
  BY DEF PlanSide, PXP!ConsentGiven, PXP!RunsConsented
<1>2. plan \in [Plans -> [status : PXP!PlanStatus, gated : BOOLEAN, intact : BOOLEAN]]
  BY DEF PlanSide, PXP!Typed, PXP!TypeOK
<1> QED
  BY <1>1, <1>2 DEF PlansMoved

LEMMA RunStepMoves ==
    ASSUME PlanSide, NEW r \in Runs, PX!RunStep(r) \/ PX!Crash(r)
    PROVE RunMoved(r) /\ PlansMoved
<1>0. PXP!RunStep(r) \/ PXP!Crash(r)
  BY SameRun
<1> USE DEF PXP!callVars, PXP!history
<1>1. CASE PXP!RequireApprovedForPlan(r)
  BY <1>1, GotoMoved DEF PXP!RequireApprovedForPlan, PlansMoved
<1>2. CASE PXP!SetApproved(r)
  BY <1>2, GotoMoved, SetStatusMoved DEF PXP!SetApproved
<1>3. CASE PXP!RequireExecutable(r)
  BY <1>3, GotoMoved DEF PXP!RequireExecutable, PlansMoved
<1>4. CASE PXP!CreateOperation(r)
  BY <1>4, GotoMoved DEF PXP!CreateOperation, PlansMoved
<1>5. CASE PXP!CountOperation(r)
  BY <1>5, GotoMoved DEF PXP!CountOperation, PlansMoved
<1>6. CASE PXP!BeginPlan(r)
  BY <1>6, GotoMoved, SetStatusMoved DEF PXP!BeginPlan
<1>7. CASE PXP!CheckStep(r)
  BY <1>7, GotoMoved DEF PXP!CheckStep, PlansMoved
<1>8. CASE PXP!TransitionRead(r)
  <2>1. /\ run[r] \in PXP!Run /\ run[r].pc \in DOMAIN PXP!Goal
        /\ run'[r].pc = PXP!ReadNext(r) /\ run'[r].plan = run[r].plan
        /\ \A q \in Runs : q # r => run'[q] = run[q]
        /\ PXP!Enter(r, PXP!ReadNext(r))
    BY <1>8, StepsAssumption, PXP!ReadEffect DEF PlanSide, PXP!StepsAssumption
  <2>2. /\ PXP!ReadNext(r) = "stepRunning" => run[r].pc = "stepRunning"
        /\ PXP!ReadNext(r) = "executing" => run[r].pc = "stepRunning"
        /\ PXP!ReadNext(r) # "idle"
    BY <2>1 DEF PXP!ReadNext, PXP!Goal, PXP!Resume, PXP!Throw
  <2> QED
    BY <1>8, <2>1, <2>2
    DEF PXP!TransitionRead, PXP!Enter, PXP!Run, PXP!Goal, RunMoved, PlansMoved
<1>9. CASE PXP!TransitionWrite(r)
  <2>1. /\ run[r] \in PXP!Run /\ run[r].pc \in DOMAIN PXP!Goal
        /\ run'[r].pc = PXP!Resume[run[r].pc] /\ run'[r].plan = run[r].plan
        /\ \A q \in Runs : q # r => run'[q] = run[q]
        /\ PXP!Enter(r, PXP!Resume[run[r].pc])
    BY <1>9, StepsAssumption, PXP!WriteEffect DEF PlanSide, PXP!StepsAssumption
  <2>2. /\ PXP!Resume[run[r].pc] \notin {"stepRunning", "idle"}
        /\ PXP!Resume[run[r].pc] = "executing" => run[r].pc = "stepRunning"
    BY <2>1 DEF PXP!Goal, PXP!Resume
  <2> QED
    BY <1>9, <2>1, <2>2
    DEF PXP!TransitionWrite, PXP!Enter, PXP!Run, PXP!Goal, RunMoved, PlansMoved
<1>10. CASE PXP!ExecuteReturns(r)
  <2>1. run[r] \in PXP!Run
    BY <1>10, StepsAssumption, PXP!RunRecord
    DEF PlanSide, PXP!StepsAssumption, PXP!ExecuteReturns
  <2>2. ASSUME NEW pc \in {"toVerifying", "check"}, NEW n,
               run' = [run EXCEPT ![r].step = n, ![r].pc = pc]
        PROVE RunMoved(r)
    BY <1>10, <2>1, <2>2
    DEF PXP!ExecuteReturns, PXP!Run, RunMoved, PlanSide, PXP!Typed, PXP!TypeOK
  <2> QED
    BY <1>10, <2>2, GotoMoved DEF PXP!ExecuteReturns, PlansMoved
<1>11. CASE PXP!MarkPlan(r)
  BY <1>11, GotoMoved, SetStatusMoved DEF PXP!MarkPlan, PXP!Mark
<1>12. CASE PXP!Crash(r)
  BY <1>12, GotoMoved DEF PXP!Crash, PlansMoved
<1> QED
  BY <1>0, <1>1, <1>2, <1>3, <1>4, <1>5, <1>6, <1>7, <1>8, <1>9, <1>10, <1>11, <1>12
  DEF PXP!RunStep

RestTyped ==
    /\ wants \in [Plans -> Request]
    /\ held \in [Runs -> {SS!NoSession} \cup SS!Session]
    /\ afterStop \in [Runs -> Nat]

(* A purchase belongs to a run that is provisioning. *)
Bookings ==
    \A r \in Runs : call[r] # SS!Idle /\ call[r].op.kind = "spend" =>
        run[r].pc = "executing" /\ Provisions(r)

(* A plan that provisions needs an approval. *)
Gates ==
    \A p \in Plans :
        plan[p].status # "none" /\ Registry[wants[p].capability].provisions =>
            plan[p].gated

Mutates(r) == Registry[wants[run[r].plan].capability].mutates

(* Once a step was begun in a stopped process no other can be about to begin. *)
Stops ==
    \A r \in Runs :
        /\ run[r].pc = "idle" \/ ~stopped[RunProc[r]] => afterStop[r] = 0
        /\ run[r].pc # "idle" /\ Mutates(r) =>
             afterStop[r] <= 1 /\ (run[r].pc = "stepRunning" => afterStop[r] = 0)

Whole == PlanSide /\ SessionSide /\ RestTyped /\ Bookings /\ Gates /\ Stops
            /\ PurchasesApproved

LEMMA WholeInit == Init => Whole
<1> SUFFICES ASSUME Init
             PROVE Whole
  OBVIOUS
<1>1. PlanSide
  BY PlanSideInit
<1>2. SessionSide
  <2>1. 0 \in 0..MaxTime
    BY SessionsAssumption
  <2> QED
    BY <2>1 DEF Init, SS!Init, SessionSide, SS!TypeOK, NoneOutright, CallSound
<1>3. RestTyped /\ Bookings /\ PurchasesApproved
  <2>1. RestTyped
    BY DEF Init, RestTyped
  <2>2. Bookings
    BY DEF Init, SS!Init, Bookings, Calls
  <2>3. PurchasesApproved
    BY DEF Init, SS!Init, PurchasesApproved
  <2> QED
    BY <2>1, <2>2, <2>3
<1>4. Gates /\ Stops
  BY DEF Init, PX!Init, Gates, Stops, PX!Idle
<1> QED
  BY <1>1, <1>2, <1>3, <1>4 DEF Whole

LEMMA SessionSideNext ==
    ASSUME Whole, [Next]_vars
    PROVE SessionSide'
<1>0. SessionSide
  BY DEF Whole
<1>1. CASE UNCHANGED ssVars
  BY <1>0, <1>1
  DEF ssVars, SessionSide, SS!TypeOK, NoneOutright, CallSound
<1>2. ASSUME NEW r \in Runs, RunStep(r)
      PROVE SessionSide'
  <2>1. r \in Calls /\ RunProc[r] \in Procs
    BY RunsAssumption DEF Calls
  <2>2. CASE CountBegin(r) \/ ProvisionBegin(r)
    BY <1>0, <2>1, <2>2, BeginSound, AskedOps DEF CountBegin, ProvisionBegin
  <2>3. CASE CountEnd(r) \/ SessionWrite(r)
    BY <1>0, <2>1, <2>3, WriteSound DEF CountEnd, SessionWrite
  <2>4. CASE ProvisionRefused(r) \/ SessionRead(r)
    BY <1>0, <2>1, <2>4, ReadSound DEF ProvisionRefused, SessionRead
  <2>5. CASE ProvisionEnd(r)
    BY <1>0, <2>1, <2>5, BuySound DEF ProvisionEnd
  <2> QED
    BY <1>1, <1>2, <2>2, <2>3, <2>4, <2>5
    DEF RunStep, CheckStep, Transition, ExecuteReturns
<1>3. ASSUME NEW r \in Runs, Crash(r)
      PROVE SessionSide'
  <2>1. r \in Calls /\ CallSound(SS!Idle)
    BY DEF Calls, CallSound
  <2>2. OthersTyped'
    BY <1>0, <1>3 DEF Crash, OthersTyped, SessionSide, SS!TypeOK
  <2> QED
    BY <1>0, <1>3, <2>1, <2>2, CallMoved DEF Crash
<1>4. ASSUME NEW p \in Procs, Restart(p)
      PROVE SessionSide'
  BY <1>0, <1>4, OtherSound DEF Restart
<1>5. CASE SessionStep
  <2>1. ASSUME NEW c \in Admin, NEW p \in Procs, NEW op \in Ops, SS!Begin(c, p, op)
        PROVE SessionSide'
    BY <1>0, <2>1, BeginSound, AskedOps DEF Calls
  <2>2. ASSUME NEW c \in Admin,
               SS!Save(c) \/ SS!List(c) \/ SS!Relist(c) \/ SS!Read(c) \/ SS!Write(c)
        PROVE SessionSide'
    BY <1>0, <2>2, SaveSound, ListSound, RelistSound, ReadSound, WriteSound DEF Calls
  <2> QED
    BY <1>0, <1>5, <2>1, <2>2, OtherSound DEF SessionStep
<1> QED
  BY <1>1, <1>2, <1>3, <1>4, <1>5
  DEF Next, vars, CreatePlan, Authenticate, StartRun, UserStep

(* What a step of one call does to the others, and to its own operation. *)
LEMMA CallsMoved ==
    ASSUME SessionSide, NEW c \in Calls,
           SS!Save(c) \/ SS!List(c) \/ SS!Relist(c) \/ SS!Read(c) \/ SS!Write(c)
             \/ SS!Buy(c) \/ \E p \in Procs : \E op : SS!Begin(c, p, op)
    PROVE \A d \in Calls : d # c => call'[d] = call[d]
BY DEF SessionSide, SS!TypeOK, SS!Save, SS!List, SS!Relist, SS!Read, SS!Write, SS!Buy,
   SS!Begin

LEMMA SameKind ==
    ASSUME SessionSide, NEW c \in Calls, SS!Read(c) \/ SS!Write(c)
    PROVE /\ call[c] # SS!Idle
          /\ call'[c] = SS!Idle \/ call'[c].op = call[c].op
<1>1. call[c] \in SS!Call /\ call[c] # SS!Idle
  BY CallRecord DEF SS!Read, SS!Write
<1>2. CASE SS!Read(c)
  BY <1>1, <1>2 DEF SS!Read, SS!Call, SessionSide, SS!TypeOK
<1>3. CASE SS!Write(c)
  <2>1. PICK next : call' = [call EXCEPT ![c] = IF next = "idle" THEN SS!Idle
                       ELSE [@ EXCEPT !.pc = next, !.row = SS!NoSession]]
    BY <1>3 DEF SS!Write
  <2> QED
    BY <1>1, <2>1 DEF SS!Call, SessionSide, SS!TypeOK
<1> QED
  BY <1>2, <1>3

(* Only one run, and its call, have moved. *)
Elsewhere(r) ==
    \A q \in Runs : q # r => run'[q] = run[q] /\ call'[q] = call[q]

LEMMA BookingsNext ==
    ASSUME Whole, [Next]_vars
    PROVE Bookings'
<1>0. PlanSide /\ SessionSide /\ Bookings /\ Runs \subseteq Calls /\ Admin \subseteq Calls
  BY DEF Whole, Calls
<1>1. CASE UNCHANGED <<run, call, wants>>
  BY <1>0, <1>1 DEF Bookings, Provisions
<1>2. ASSUME NEW r \in Runs, RunStep(r)
      PROVE Bookings'
  <2>1. RunMoved(r) \/ UNCHANGED pxVars
    BY <1>0, <1>2, RunStepMaps, RunStepMoves
  <2>2. Elsewhere(r) /\ wants' = wants
    <3>1. \A q \in Runs : q # r => run'[q] = run[q]
      BY <2>1 DEF RunMoved, pxVars
    <3>2. \A q \in Runs : q # r => call'[q] = call[q]
      BY <1>0, <1>2, CallsMoved, RunsAssumption
      DEF RunStep, CountBegin, CountEnd, CheckStep, Transition, ExecuteReturns,
          ProvisionBegin, ProvisionRefused, ProvisionEnd, SessionRead, SessionWrite,
          ssVars
    <3> QED
      BY <1>2, <3>1, <3>2
      DEF Elsewhere, RunStep, CountBegin, CountEnd, CheckStep, Transition,
          ExecuteReturns, ProvisionBegin, ProvisionRefused, ProvisionEnd, SessionRead,
          SessionWrite
  <2>3. call'[r] # SS!Idle /\ call'[r].op.kind = "spend" =>
            run'[r].pc = "executing" /\ Provisions(r)'
    <3>1. CASE CountBegin(r)
      BY <1>0, <3>1
      DEF CountBegin, SS!Begin, SS!IncrementOperation, SessionSide, SS!TypeOK
    <3>2. CASE CountEnd(r)
      BY <1>0, <3>2, SameKind DEF CountEnd, PX!CountOperation, Bookings
    <3>3. CASE ExecuteReturns(r)
      BY <1>0, <3>3 DEF ExecuteReturns, ssVars, Bookings
    <3>4. CASE ProvisionBegin(r)
      BY <3>4 DEF ProvisionBegin, pxVars, Provisions
    <3>5. CASE ProvisionRefused(r)
      BY <3>5 DEF ProvisionRefused
    <3>6. CASE ProvisionEnd(r)
      BY <1>0, <3>6 DEF ProvisionEnd, SS!Buy, SessionSide, SS!TypeOK
    <3>7. CASE SessionRead(r) \/ SessionWrite(r)
      BY <1>0, <3>7, SameKind DEF SessionRead, SessionWrite, pxVars, Bookings, Provisions
    <3>8. CASE UNCHANGED call /\ run[r].pc # "executing"
      BY <1>0, <3>8 DEF Bookings
    <3>9. CASE CheckStep(r)
      BY <3>8, <3>9 DEF CheckStep, PX!CheckStep, ssVars
    <3>10. CASE Transition(r)
      BY <3>8, <3>10
      DEF Transition, PX!TransitionRead, PX!TransitionWrite, PX!Goal, ssVars
    <3>11. CASE PX!RequireApprovedForPlan(r) \/ PX!SetApproved(r)
                \/ PX!RequireExecutable(r) \/ PX!CreateOperation(r) \/ PX!BeginPlan(r)
                \/ PX!MarkPlan(r)
      <4>1. run[r].pc # "executing"
        BY <3>11 DEF PX!RequireApprovedForPlan, PX!SetApproved, PX!RequireExecutable,
           PX!CreateOperation, PX!BeginPlan, PX!MarkPlan, PX!Mark
      <4>2. call' = call \/ CountBegin(r) \/ CountEnd(r) \/ ProvisionBegin(r)
              \/ ProvisionRefused(r) \/ ProvisionEnd(r) \/ SessionRead(r) \/ SessionWrite(r)
        BY <1>2 DEF RunStep, CheckStep, Transition, ExecuteReturns, ssVars
      <4> QED
        BY <3>1, <3>2, <3>4, <3>5, <3>6, <3>7, <3>8, <4>1, <4>2
    <3> QED
      BY <1>2, <3>1, <3>2, <3>3, <3>4, <3>5, <3>6, <3>7, <3>9, <3>10, <3>11 DEF RunStep
  <2> QED
    BY <1>0, <2>2, <2>3 DEF Bookings, Elsewhere, Provisions
<1>3. ASSUME NEW r \in Runs, Crash(r)
      PROVE Bookings'
  <2>1. RunMoved(r)
    BY <1>0, <1>3, RunStepMoves DEF Crash
  <2> QED
    BY <1>0, <1>3, <2>1
    DEF Crash, RunMoved, Bookings, Provisions, SessionSide, SS!TypeOK
<1>4. ASSUME NEW p \in Procs, Restart(p)
      PROVE Bookings'
  BY <1>0, <1>4 DEF Restart, SS!Restart, pxVars, Bookings, Provisions
<1>5. CASE SessionStep
  <2>1. \A q \in Runs : call'[q] = call[q]
    <3>1. ASSUME NEW c \in Admin, NEW q \in Runs,
                 SS!Save(c) \/ SS!List(c) \/ SS!Relist(c) \/ SS!Read(c) \/ SS!Write(c)
                   \/ \E p \in Procs : \E op : SS!Begin(c, p, op)
          PROVE call'[q] = call[q]
      BY <1>0, <3>1, CallsMoved, RunsAssumption
    <3>2. CASE SS!Create \/ SS!Tick
      BY <3>2 DEF SS!Create, SS!Tick
    <3> QED
      BY <1>5, <3>1, <3>2 DEF SessionStep
  <2> QED
    BY <1>0, <1>5, <2>1 DEF SessionStep, pxVars, Bookings, Provisions
<1>6. ASSUME NEW r \in Runs, NEW p \in Plans, StartRun(r, p)
      PROVE Bookings'
  BY <1>0, <1>6
  DEF StartRun, PX!StartRun, PX!Idle, ssVars, Bookings, Provisions, PlanSide,
      PXP!Typed, PXP!TypeOK
<1> QED
  BY <1>1, <1>2, <1>3, <1>4, <1>5, <1>6
  DEF Next, vars, pxVars, ssVars, CreatePlan, PX!CreatePlan, Authenticate, UserStep,
      PX!RequestForPlan, PX!WindowElapses, PX!Decide, PX!DecideRead, PX!DecideWrite,
      PX!RequestCancel, PX!CancelRead, PX!CancelWrite

(* The policy asks for an approval before it lets a server be bought. *)
LEMMA GatesNext ==
    ASSUME Whole, [Next]_vars
    PROVE Gates'
<1>0. PlanSide /\ SessionSide /\ Gates /\ RestTyped
  BY DEF Whole
<1>1. ASSUME PlansMoved, wants' = wants
      PROVE Gates'
  BY <1>0, <1>1 DEF PlansMoved, Gates
<1>2. CASE UNCHANGED <<plan, wants>>
  BY <1>0, <1>2 DEF Gates
<1>3. ASSUME NEW p \in Plans, CreatePlan(p)
      PROVE Gates'
  <2>1. PICK proc \in Procs :
          LET effect == SS!Evaluate(session, wants[p], stopped[proc], FALSE) IN
          effect # "deny" /\ plan'[p].gated = (effect = "approval_required")
    BY <1>3 DEF CreatePlan
  <2>2. session # SS!NoSession /\ session.allow \cap Provisioning = {}
    BY <1>0, <1>3 DEF CreatePlan, SS!Admits, SessionSide, NoneOutright
  <2>3. wants[p].capability \in Capabilities
    BY <1>0 DEF RestTyped, Request, SS!Request
  <2>4. Registry[wants[p].capability].provisions => plan'[p].gated
    BY <2>1, <2>2, <2>3 DEF SS!Evaluate, SS!Matches, Provisioning
  <2>5. \A q \in Plans : q # p => plan'[q] = plan[q]
    BY <1>0, <1>3
    DEF CreatePlan, PX!CreatePlan, PlanSide, PXP!Typed, PXP!TypeOK
  <2>6. wants' = wants
    BY <1>3 DEF CreatePlan
  <2> QED
    BY <1>0, <2>4, <2>5, <2>6 DEF Gates
<1>4. ASSUME NEW r \in Runs, RunStep(r) \/ Crash(r)
      PROVE Gates'
  <2>1. wants' = wants
    BY <1>4 DEF Crash, RunStep, CountBegin, CountEnd, CheckStep, Transition,
       ExecuteReturns, ProvisionBegin, ProvisionRefused, ProvisionEnd, SessionRead,
       SessionWrite
  <2>2. PlansMoved \/ UNCHANGED pxVars
    BY <1>0, <1>4, RunStepMaps, RunStepMoves DEF Crash
  <2> QED
    BY <1>1, <1>2, <2>1, <2>2 DEF pxVars
<1> QED
  BY <1>2, <1>3, <1>4
  DEF Next, vars, pxVars, Authenticate, StartRun, PX!StartRun, Restart, SessionStep,
      UserStep, PX!RequestForPlan, PX!WindowElapses, PX!Decide, PX!DecideRead,
      PX!DecideWrite, PX!RequestCancel, PX!CancelRead, PX!CancelWrite

LEMMA PurchasesNext ==
    ASSUME Whole, [Next]_vars
    PROVE PurchasesApproved'
<1>0. PlanSide /\ SessionSide /\ Bookings /\ Gates /\ PurchasesApproved
  BY DEF Whole
<1>1. ASSUME bought' = bought, consent \subseteq consent', wants' = wants
      PROVE PurchasesApproved'
  BY <1>0, <1>1 DEF PurchasesApproved
<1>2. CASE UNCHANGED <<bought, consent, wants>>
  BY <1>1, <1>2
<1>3. ASSUME NEW r \in Runs, RunStep(r) \/ Crash(r)
      PROVE PurchasesApproved'
  <2>1. wants' = wants
    BY <1>3 DEF Crash, RunStep, CountBegin, CountEnd, CheckStep, Transition,
       ExecuteReturns, ProvisionBegin, ProvisionRefused, ProvisionEnd, SessionRead,
       SessionWrite
  <2>2. consent' = consent
    BY <1>0, <1>3, RunStepMaps, RunStepMoves DEF Crash, RunMoved, pxVars
  <2>3. CASE ProvisionEnd(r)
    <3>1. r \in Calls /\ call[r] # SS!Idle /\ call[r].op.kind = "spend"
      BY <1>0, <2>3, CallRecord
      DEF ProvisionEnd, SS!Buy, Calls, SessionSide, CallSound
    <3>2. run[r].pc = "executing" /\ Registry[wants[run[r].plan].capability].provisions
      BY <1>0, <3>1 DEF Bookings, Provisions
    <3>3. run[r] \in PXP!Run
      BY <1>0, <3>2, StepsAssumption, PXP!RunRecord DEF PlanSide, PXP!StepsAssumption
    <3>4. run[r].plan \in Plans
      BY <3>3 DEF PXP!Run
    <3>5. plan[run[r].plan].status # "none" /\ PXP!Consented(run[r].plan)
      BY <1>0, <3>2 DEF PlanSide, PXP!ConsentGiven, PXP!RunsConsented, PXP!Checked
    <3>6. run[r].plan \in consent
      BY <1>0, <3>2, <3>4, <3>5 DEF Gates, PXP!Consented
    <3> QED
      BY <2>1, <2>2, <3>2, <3>6 DEF PurchasesApproved
  <2>4. CASE bought' = bought
    BY <1>2, <2>1, <2>2, <2>4
  <2> QED
    BY <1>3, <2>3, <2>4
    DEF Crash, RunStep, CountBegin, CountEnd, CheckStep, Transition, ExecuteReturns,
        ProvisionBegin, ProvisionRefused, SessionRead, SessionWrite, ssVars,
        SS!Begin, SS!Read, SS!Write
<1>4. CASE UserStep
  BY <1>1, <1>4, Zenon
  DEF UserStep, ssVars, PX!history, PX!RequestForPlan, PX!WindowElapses, PX!Decide,
      PX!DecideRead, PX!DecideWrite, PX!RequestCancel, PX!CancelRead, PX!CancelWrite
<1>5. CASE SessionStep
  BY <1>2, <1>5, Zenon
  DEF SessionStep, pxVars, SS!Create, SS!Tick, SS!Begin, SS!Save, SS!List, SS!Relist,
      SS!Read, SS!Write
<1> QED
  BY <1>2, <1>3, <1>4, <1>5
  DEF Next, vars, pxVars, ssVars, CreatePlan, PX!CreatePlan, PX!history, Authenticate,
      StartRun, PX!StartRun, Restart, SS!Restart

LEMMA RestNext ==
    ASSUME Whole, [Next]_vars
    PROVE RestTyped'
<1>0. RestTyped /\ SessionSide
  BY DEF Whole
<1>1. wants' = wants
  BY DEF Next, vars, CreatePlan, StartRun, Authenticate, Crash, Restart, UserStep,
     SessionStep, RunStep, CountBegin, CountEnd, CheckStep, Transition, ExecuteReturns,
     ProvisionBegin, ProvisionRefused, ProvisionEnd, SessionRead, SessionWrite
<1>2. held' = held \/ \E r \in Runs : held' = [held EXCEPT ![r] = session]
  BY DEF Next, vars, CreatePlan, StartRun, Authenticate, Crash, Restart, UserStep,
     SessionStep, RunStep, CountBegin, CountEnd, CheckStep, Transition, ExecuteReturns,
     ProvisionBegin, ProvisionRefused, ProvisionEnd, SessionRead, SessionWrite
<1>3. held' \in [Runs -> {SS!NoSession} \cup SS!Session]
  BY <1>0, <1>2 DEF RestTyped, SessionSide, SS!TypeOK
<1>4. \/ afterStop' = afterStop
      \/ \E r \in Runs : afterStop' = [afterStop EXCEPT ![r] = @ + 1]
      \/ afterStop' = Counted
  BY DEF Next, vars, CreatePlan, StartRun, Authenticate, Crash, Restart, UserStep,
     SessionStep, RunStep, CountBegin, CountEnd, CheckStep, Transition, ExecuteReturns,
     ProvisionBegin, ProvisionRefused, ProvisionEnd, SessionRead, SessionWrite
<1>5. afterStop' \in [Runs -> Nat]
  BY <1>0, <1>4 DEF RestTyped, Counted
<1> QED
  BY <1>0, <1>1, <1>3, <1>5 DEF RestTyped

(* A run that does not move, in a process whose stop is not changed, or cleared
   with its count. *)
LEMMA StopsKept ==
    ASSUME Whole, wants' = wants, NEW q \in Runs, run'[q] = run[q],
           \/ afterStop'[q] = 0
           \/ afterStop'[q] = afterStop[q] /\ stopped'[RunProc[q]]
           \/ afterStop'[q] = afterStop[q] /\ stopped' = stopped
    PROVE /\ run'[q].pc = "idle" \/ ~stopped'[RunProc[q]] => afterStop'[q] = 0
          /\ run'[q].pc # "idle" /\ Mutates(q)' =>
               afterStop'[q] <= 1 /\ (run'[q].pc = "stepRunning" => afterStop'[q] = 0)
BY DEF Whole, Stops, Mutates

LEMMA StopsNext ==
    ASSUME Whole, [Next]_vars
    PROVE Stops'
<1>0. PlanSide /\ SessionSide /\ Stops /\ RestTyped
  BY DEF Whole
<1>1. CASE UNCHANGED <<run, wants, stopped, afterStop>>
  BY <1>1, StopsKept DEF Stops, Mutates
<1>2. ASSUME NEW r \in Runs, RunStep(r) \/ Crash(r)
      PROVE Stops'
  <2>1. wants' = wants /\ stopped' = stopped
    BY <1>2 DEF Crash, RunStep, CountBegin, CountEnd, CheckStep, Transition,
       ExecuteReturns, ProvisionBegin, ProvisionRefused, ProvisionEnd, SessionRead,
       SessionWrite, ssVars, SS!Begin, SS!Read, SS!Write, SS!Buy,
       SS!IncrementOperation, SS!CommitProviderSpend
  <2>2. RunMoved(r) \/ UNCHANGED pxVars
    BY <1>0, <1>2, RunStepMaps, RunStepMoves DEF Crash
  <2>3. \/ afterStop' = afterStop
        \/ Transition(r) /\ begun' # begun /\ stopped[RunProc[r]]
              /\ afterStop' = [afterStop EXCEPT ![r] = @ + 1]
    BY <1>2 DEF Crash, RunStep, CountBegin, CountEnd, CheckStep, Transition,
       ExecuteReturns, ProvisionBegin, ProvisionRefused, ProvisionEnd, SessionRead,
       SessionWrite
  <2>4. CASE UNCHANGED pxVars
    BY <1>1, <2>1, <2>3, <2>4 DEF pxVars
  <2>5. CASE RunMoved(r)
    <3>1. /\ run'[r].pc # "idle" /\ run[r].pc # "idle" /\ (Mutates(r)' <=> Mutates(r))
          /\ \A q \in Runs : q # r => run'[q] = run[q] /\ afterStop'[q] = afterStop[q]
          /\ afterStop[r] \in Nat
      BY <1>0, <2>1, <2>3, <2>5 DEF RunMoved, Mutates, RestTyped
    <3>2. CASE afterStop' = afterStop
      <4>1. run'[r].pc = "stepRunning" /\ Mutates(r) => afterStop[r] = 0
        <5>1. SUFFICES ASSUME run'[r].pc = "stepRunning", Mutates(r),
                              run[r].pc = "check"
                       PROVE afterStop[r] = 0
          BY <1>0, <2>5, <3>1 DEF RunMoved, Stops
        <5>2. run \in [Runs -> {PXP!Idle} \cup PXP!Run]
          BY <1>0 DEF PlanSide, PXP!Typed, PXP!TypeOK
        <5>3. CheckStep(r)
          <6>1. ~Crash(r)
            BY <5>1, <5>2 DEF Crash, PX!Crash, PX!Goto, PXP!Run, PXP!Idle
          <6>2. ~UNCHANGED pxVars
            BY <5>1 DEF pxVars
          <6>3. ~(Transition(r) \/ PX!RequireApprovedForPlan(r) \/ PX!SetApproved(r)
                   \/ PX!RequireExecutable(r) \/ PX!CreateOperation(r)
                   \/ PX!CountOperation(r) \/ PX!BeginPlan(r) \/ PX!ExecuteReturns(r)
                   \/ PX!MarkPlan(r))
            BY <5>1 DEF Transition, PX!CountOperation, PX!TransitionRead,
               PX!TransitionWrite, PX!Goal, PX!ExecuteReturns,
               PX!RequireApprovedForPlan, PX!SetApproved, PX!RequireExecutable,
               PX!CreateOperation, PX!BeginPlan, PX!MarkPlan, PX!Mark
          <6> QED
            BY <1>2, <6>1, <6>2, <6>3
            DEF RunStep, CountBegin, CountEnd, ExecuteReturns, ProvisionBegin,
                ProvisionRefused, ProvisionEnd, SessionRead, SessionWrite
        <5>4. StepAllowed(r)
          BY <5>1, <5>3 DEF CheckStep
        <5>5. ~(stopped[RunProc[r]] /\ Mutates(r))
          BY <5>4 DEF StepAllowed, SS!Evaluate, SS!Denied, Mutates
        <5> QED
          BY <1>0, <5>1, <5>5 DEF Stops
      <4> QED
        BY <1>0, <2>1, <3>1, <3>2, <4>1 DEF Stops, Mutates
    <3>3. CASE begun' # begun /\ stopped[RunProc[r]]
               /\ afterStop' = [afterStop EXCEPT ![r] = @ + 1]
      <4>1. run[r].pc = "stepRunning" /\ run'[r].pc = "executing"
        BY <2>5, <3>3 DEF RunMoved
      <4>2. afterStop'[r] = afterStop[r] + 1
        BY <1>0, <3>3 DEF RestTyped
      <4> QED
        BY <1>0, <2>1, <3>1, <3>3, <4>1, <4>2 DEF Stops, Mutates
    <3> QED
      BY <2>3, <3>2, <3>3
  <2> QED
    BY <2>2, <2>4, <2>5
<1>3. ASSUME NEW r \in Runs, NEW p \in Plans, StartRun(r, p)
      PROVE Stops'
  <2>1. /\ wants' = wants /\ stopped' = stopped /\ afterStop' = afterStop
        /\ run[r].pc = "idle" /\ run'[r].pc \in {"needApproval", "requireExecutable"}
        /\ \A q \in Runs : q # r => run'[q] = run[q]
    BY <1>0, <1>3
    DEF StartRun, PX!StartRun, PX!Idle, ssVars, PlanSide, PXP!Typed, PXP!TypeOK
  <2> QED
    BY <1>0, <2>1 DEF Stops, Mutates
<1>4. ASSUME wants' = wants, run' = run, afterStop' = Counted
      PROVE Stops'
  <2>1. \A q \in Runs : \/ afterStop'[q] = 0
                        \/ afterStop'[q] = afterStop[q] /\ stopped'[RunProc[q]]
    BY <1>4 DEF Counted
  <2> QED
    BY <1>4, <2>1, StopsKept DEF Stops, Mutates
<1> QED
  BY <1>1, <1>2, <1>3, <1>4
  DEF Next, vars, pxVars, ssVars, CreatePlan, PX!CreatePlan, Authenticate, Restart,
      SessionStep, UserStep, PX!RequestForPlan, PX!WindowElapses, PX!Decide,
      PX!DecideRead, PX!DecideWrite, PX!RequestCancel, PX!CancelRead, PX!CancelWrite

LEMMA WholeNext == Whole /\ [Next]_vars => Whole'
BY PlanSideNext, SessionSideNext, RestNext, BookingsNext, GatesNext, StopsNext,
   PurchasesNext DEF Whole

(* In a stopped process at most one more step that changes anything begins. *)
THEOREM StopIsPrompt == Spec => []StopBound
<1>1. Whole => StopBound
  <2> SUFFICES ASSUME Whole
               PROVE StopBound
    OBVIOUS
  <2>1. PX!TypeOK
    BY DEF Whole, PlanSide, PXP!Typed, PXP!TypeOK, PX!TypeOK, PXP!PlanStatus,
       PX!PlanStatus, PXP!ApprovalStatus, PX!ApprovalStatus, PXP!Operation,
       PX!Operation, PXP!OperationState, PX!OperationState, PXP!Idle, PX!Idle, PXP!Run,
       PX!Run, PXP!RunPc, PX!RunPc, PXP!Goal, PX!Goal, PXP!Mark, PX!Mark,
       PXP!CancelCall, PX!CancelCall, PXP!DecideCall, PX!DecideCall
  <2>2. TypeOK
    BY <2>1 DEF Whole, TypeOK, SessionSide, RestTyped
  <2>3. ASSUME NEW r \in Runs, run[r] # PX!Idle, Mutates(r)
        PROVE afterStop[r] <= 1
    <3>1. run[r].pc # "idle"
      BY <2>3 DEF Whole, PlanSide, PXP!Typed, PXP!TypeOK, PXP!Idle, PX!Idle, PXP!Run,
         PXP!RunPc, PXP!Goal, PXP!Mark
    <3> QED
      BY <2>3, <3>1 DEF Whole, Stops
  <2> QED
    BY <2>2, <2>3 DEF StopBound, Mutates
<1> QED
  BY <1>1, WholeInit, WholeNext, PTL DEF Spec

(* Nothing is bought but for a plan that a person approved in time. *)
THEOREM PurchasesNeedApproval == Spec => []PurchasesApproved
<1>1. Whole => PurchasesApproved
  BY DEF Whole
<1> QED
  BY <1>1, WholeInit, WholeNext, PTL DEF Spec

=============================================================================
