------------------------ MODULE PlanExecutionProofs --------------------------
(***************************************************************************)
(* Proofs about PlanExecution for any number of plans, runs, cancels and   *)
(* decisions, and plans of any length.                                     *)
(*                                                                         *)
(* One inductive invariant in five layers, each preserved with the help of *)
(* those before it:                                                        *)
(*   Typed          types, and a run that may still start a step has one   *)
(*                  left;                                                  *)
(*   ConsentGiven   where a person's consent, or the hash check, has been  *)
(*                  established, it stays so;                              *)
(*   CancelVisible  a stored cancel request shows in the operation's       *)
(*                  state, which is what stops the step after it;          *)
(*   ProgressKept   the number of steps begun is known from where the run  *)
(*                  is;                                                    *)
(*   InStep         the operation's state is one that its run expects where*)
(*                  it is, or a cancel's, and a plan whose run has recorded*)
(*                  its end is not running any more, unless another run is.*)
(* The safety theorems follow from one layer each.                         *)
(***************************************************************************)
EXTENDS PlanExecution, TLAPS

(* Where a run still has a step ahead of it, or in hand. *)
StepAhead == {"needApproval", "setApproved", "requireExecutable", "create",
              "count", "begin", "toRunning", "check", "stepRunning",
              "executing"}

Typed ==
    /\ TypeOK
    /\ \A r \in Runs : run[r].pc \in StepAhead => run[r].step < Steps

(* Where a run has passed requireExecutable. *)
Checked == (DOMAIN Goal \cup DOMAIN Mark)
           \cup {"create", "count", "begin", "check", "executing"}

Consented(p) == plan[p].gated => p \in consent

PlansConsented ==
    \A p \in Plans :
        plan[p].status \notin {"none", "awaiting_approval"} => Consented(p)

ApprovalsConsented ==
    \A p \in Plans : approval[p].status = "approved" => p \in consent

DecisionsConsented ==
    \A d \in Decisions :
        /\ decision[d].pc # "idle"
        /\ decision[d].verdict = "approved"
        /\ decision[d].pc = "write" \/ ~approval[decision[d].plan].elapsed
        => decision[d].plan \in consent

RunsConsented ==
    \A r \in Runs :
        /\ run[r].pc = "idle" => begun[r] = 0
        /\ run[r].pc # "idle" => plan[run[r].plan].status # "none"
        /\ run[r].pc = "setApproved" => Consented(run[r].plan)
        /\ run[r].pc \in Checked \/ begun[r] > 0 =>
             plan[run[r].plan].intact /\ Consented(run[r].plan)

ConsentGiven ==
    /\ PlansConsented
    /\ ApprovalsConsented
    /\ DecisionsConsented
    /\ RunsConsented

(* Where a run is inside the loop of executePlanForSession. *)
InLoop == {"check", "stepRunning", "executing"}

CancelVisible ==
    /\ overrun = {}
    /\ \A r \in Runs :
         /\ operation[r].cancelRequested =>
              operation[r].state \notin {"queued", "running"}
         /\ run[r].pc \in InLoop => operation[r].state \notin {"none", "queued"}
         /\ run[r].pc # "idle" /\ run[r].writing =>
              run[r].pc \in (DOMAIN Goal \ {"stepRunning"}) \cup {"crashed"}
         /\ run[r].pc = "toRunning" /\ run[r].writing => ~run[r].seen

(* Where a run has finished its last step. *)
AfterLoop == {"toVerifying", "toSucceeded", "markSucceeded"}

(* Where a run goes no further, or only to record its plan. *)
Past == {"markSucceeded", "done", "crashed"}

ProgressKept ==
    \A r \in Runs :
        /\ run[r].pc \in StepAhead \ {"executing"} => begun[r] = run[r].step
        /\ run[r].pc = "idle" => begun[r] = 0
        /\ run[r].pc = "executing" => begun[r] = run[r].step + 1
        /\ run[r].pc \in AfterLoop => begun[r] = Steps /\ run[r].step = Steps
        /\ operation[r].state = "succeeded" =>
             run[r].pc \in Past /\ begun[r] = Steps /\ run[r].step = Steps

(* Before there is an operation. *)
Unborn == {"idle", "needApproval", "setApproved", "requireExecutable", "create"}

(* The states a run may find its operation in, other than a cancel's. *)
Fits(pc, state) ==
    \/ state \in {"cancelling", "cancelled"} /\ pc \notin Unborn
    \/ pc \in Unborn /\ state = "none"
    \/ pc \in {"count", "begin", "toRunning"} /\ state = "queued"
    \/ pc \in InLoop \cup {"toVerifying", "toCancelled", "toSucceeded", "toFailed"}
       /\ state = "running"
    \/ pc \in {"toSucceeded", "toFailed"} /\ state = "verifying"
    \/ pc \in DOMAIN Mark \cup {"done"} /\ state \in {"succeeded", "failed"}
    \/ pc = "done" /\ state = "none"
    \/ pc = "crashed"

Shared(r) == \E q \in Runs \ {r} : run[q] # Idle /\ run[q].plan = run[r].plan

InStep ==
    /\ \A r \in Runs :
         /\ Fits(run[r].pc, operation[r].state)
         /\ run[r].pc = "done" /\ operation[r].state \in {"succeeded", "failed"} =>
              Shared(r) \/ plan[run[r].plan].status # "running"
    /\ \A c \in Cancels :
         cancel[c].pc # "idle" => run[cancel[c].run].pc \notin Unborn

-----------------------------------------------------------------------------
(* Typed *)

(* The tables of executePlanForSession stay within the program counters. *)
LEMMA TableTypes ==
    ASSUME NEW pc \in DOMAIN Goal
    PROVE /\ pc \in RunPc
          /\ Goal[pc] \in OperationState \ {"none"}
          /\ Resume[pc] \in RunPc
          /\ Throw[pc] \in RunPc
          /\ Resume[pc] \in StepAhead => pc \in StepAhead
          /\ Throw[pc] \notin StepAhead
          /\ {pc, Resume[pc], Throw[pc]} \cap {"idle", "setApproved"} = {}
BY DEF Goal, Resume, Throw, RunPc, OperationState, Mark, StepAhead

(* A call that has started has a full record. *)
LEMMA RunRecord ==
    ASSUME Typed, NEW r \in Runs, run[r].pc # "idle"
    PROVE run[r] \in Run
BY DEF Typed, TypeOK, Idle

(* Replacing what a transition changes of a call keeps the types. *)
LEMMA ReplaceTyped ==
    ASSUME Typed, NEW r \in Runs, NEW pc \in RunPc, NEW w \in BOOLEAN,
           NEW s \in BOOLEAN, run[r] \in Run,
           run' = [run EXCEPT ![r].pc = pc, ![r].writing = w, ![r].seen = s],
           pc \in StepAhead => run[r].pc \in StepAhead
    PROVE /\ run' \in [Runs -> {Idle} \cup Run]
          /\ \A q \in Runs : run'[q].pc \in StepAhead => run'[q].step < Steps
<1>1. [run[r] EXCEPT !.pc = pc, !.writing = w, !.seen = s] \in Run
  BY DEF Run
<1>2. run' = [run EXCEPT ![r] = [run[r] EXCEPT !.pc = pc, !.writing = w, !.seen = s]]
  BY DEF Typed, TypeOK, Run
<1> QED
  BY <1>1, <1>2 DEF Typed, TypeOK, Run

(* So does moving a call on. *)
LEMMA GotoTyped ==
    ASSUME Typed, NEW r \in Runs, NEW pc \in RunPc, run[r].pc # "idle",
           Goto(r, pc), pc \in StepAhead => run[r].pc \in StepAhead
    PROVE /\ run' \in [Runs -> {Idle} \cup Run]
          /\ \A q \in Runs : run'[q].pc \in StepAhead => run'[q].step < Steps
<1>1. run[r] \in Run
  BY RunRecord
<1>2. [run[r] EXCEPT !.pc = pc] \in Run
  BY <1>1 DEF Run
<1>3. run' = [run EXCEPT ![r] = [run[r] EXCEPT !.pc = pc]]
  BY DEF Goto
<1> QED
  BY <1>1, <1>2, <1>3 DEF Typed, TypeOK, Run

LEMMA TypedInit == Init => Typed
BY DEF Init, Typed, TypeOK, PlanStatus, ApprovalStatus, NoOperation, Operation,
       OperationState, Idle, StepAhead

LEMMA TypedNext ==
    ASSUME Typed, [Next]_vars
    PROVE Typed'
<1> USE StepsAssumption
<1>1. CASE UNCHANGED vars
  BY <1>1 DEF Typed, TypeOK, vars
<1>2. ASSUME NEW p \in Plans, CreatePlan(p)
      PROVE Typed'
  BY <1>2 DEF Typed, TypeOK, CreatePlan, PlanStatus, callVars, history
<1>3. ASSUME NEW p \in Plans, RequestForPlan(p)
      PROVE Typed'
  BY <1>3 DEF Typed, TypeOK, RequestForPlan, ApprovalStatus, callVars, history
<1>4. ASSUME NEW p \in Plans, WindowElapses(p)
      PROVE Typed'
  BY <1>4 DEF Typed, TypeOK, WindowElapses, ApprovalStatus, callVars, history
<1>5. ASSUME NEW d \in Decisions, NEW p \in Plans,
             NEW v \in {"approved", "denied", "expired"}, Decide(d, p, v)
      PROVE Typed'
  BY <1>5 DEF Typed, TypeOK, Decide, DecideCall
<1>6. ASSUME NEW d \in Decisions, DecideRead(d)
      PROVE Typed'
  BY <1>6 DEF Typed, TypeOK, DecideRead, DecideCall, Idle, history
<1>7. ASSUME NEW d \in Decisions, DecideWrite(d)
      PROVE Typed'
  BY <1>7 DEF Typed, TypeOK, DecideWrite, DecideCall, Idle, ApprovalStatus, history
<1>8. ASSUME NEW r \in Runs, NEW p \in Plans, StartRun(r, p)
      PROVE Typed'
  BY <1>8 DEF Typed, TypeOK, StartRun, Run, RunPc, callVars, history
<1>9. ASSUME NEW r \in Runs, RequireApprovedForPlan(r)
      PROVE Typed'
  BY <1>9, GotoTyped DEF Typed, TypeOK, RequireApprovedForPlan, RunPc, StepAhead,
                         callVars, history
<1>10. ASSUME NEW r \in Runs, SetApproved(r)
      PROVE Typed'
  BY <1>10, GotoTyped, RunRecord, SMTT(40)
  DEF Typed, TypeOK, SetApproved, Run, RunPc, StepAhead, PlanStatus, callVars, history
<1>11. ASSUME NEW r \in Runs, RequireExecutable(r)
      PROVE Typed'
  BY <1>11, GotoTyped DEF Typed, TypeOK, RequireExecutable, RunPc, StepAhead,
                          callVars, history
<1>12. ASSUME NEW r \in Runs, CreateOperation(r)
      PROVE Typed'
  BY <1>12, GotoTyped
  DEF Typed, TypeOK, CreateOperation, Operation, OperationState, RunPc, StepAhead,
      callVars, history
<1>13. ASSUME NEW r \in Runs, CountOperation(r)
      PROVE Typed'
  BY <1>13, GotoTyped DEF Typed, TypeOK, CountOperation, RunPc, StepAhead,
                          callVars, history
<1>14. ASSUME NEW r \in Runs, BeginPlan(r)
      PROVE Typed'
  <2>1. "toRunning" \in RunPc
    BY DEF RunPc, Goal
  <2>2. run[r] \in Run /\ run[r].pc = "begin"
    BY <1>14, RunRecord DEF BeginPlan
  <2>3. /\ run' \in [Runs -> {Idle} \cup Run]
        /\ \A q \in Runs : run'[q].pc \in StepAhead => run'[q].step < Steps
    BY <1>14, <2>1, <2>2, GotoTyped DEF BeginPlan, StepAhead
  <2>4. plan' \in [Plans -> [status : PlanStatus, gated : BOOLEAN, intact : BOOLEAN]]
    BY <1>14, <2>2 DEF Typed, TypeOK, BeginPlan, Run, PlanStatus
  <2> QED
    BY <1>14, <2>3, <2>4 DEF Typed, TypeOK, BeginPlan, callVars, history
<1>15. ASSUME NEW r \in Runs, CheckStep(r)
      PROVE Typed'
  BY <1>15, GotoTyped DEF Typed, TypeOK, CheckStep, RunPc, StepAhead, Goal,
                          callVars, history
<1>16. ASSUME NEW r \in Runs, TransitionRead(r)
      PROVE Typed'
  <2>1. run[r] \in Run /\ run[r].pc \in DOMAIN Goal
    BY <1>16, RunRecord DEF TransitionRead, Goal
  <2>2. PICK pc \in RunPc, w \in BOOLEAN, s \in BOOLEAN :
          /\ run' = [run EXCEPT ![r].pc = pc, ![r].writing = w, ![r].seen = s]
          /\ pc \in StepAhead => run[r].pc \in StepAhead
    BY <1>16, <2>1, TableTypes DEF Typed, TypeOK, TransitionRead, Operation
  <2>3. /\ run' \in [Runs -> {Idle} \cup Run]
        /\ \A q \in Runs : run'[q].pc \in StepAhead => run'[q].step < Steps
    BY <2>1, <2>2, ReplaceTyped
  <2>4. begun' \in [Runs -> Nat] /\ overrun' \subseteq Runs
    BY <1>16 DEF Typed, TypeOK, TransitionRead, Enter
  <2> QED
    BY <1>16, <2>3, <2>4, ZenonT(40) DEF Typed, TypeOK, TransitionRead, callVars
<1>17. ASSUME NEW r \in Runs, TransitionWrite(r)
      PROVE Typed'
  <2>1. run[r] \in Run /\ run[r].pc \in DOMAIN Goal
    BY <1>17, RunRecord DEF TransitionWrite, Goal
  <2>2. PICK pc \in RunPc :
          /\ run' = [run EXCEPT ![r].pc = pc, ![r].writing = FALSE, ![r].seen = FALSE]
          /\ pc \in StepAhead => run[r].pc \in StepAhead
    BY <1>17, <2>1, TableTypes DEF TransitionWrite
  <2>3. /\ run' \in [Runs -> {Idle} \cup Run]
        /\ \A q \in Runs : run'[q].pc \in StepAhead => run'[q].step < Steps
    BY <2>1, <2>2, ReplaceTyped
  <2>4. begun' \in [Runs -> Nat] /\ overrun' \subseteq Runs
    BY <1>17 DEF Typed, TypeOK, TransitionWrite, Enter
  <2>5. operation' \in [Runs -> Operation]
    BY <1>17, <2>1, TableTypes DEF Typed, TypeOK, TransitionWrite, Operation, Run
  <2> QED
    BY <1>17, <2>3, <2>4, <2>5 DEF Typed, TypeOK, TransitionWrite, callVars
<1>18. ASSUME NEW r \in Runs, ExecuteReturns(r)
      PROVE Typed'
  BY <1>18, GotoTyped, RunRecord
  DEF Typed, TypeOK, ExecuteReturns, Run, RunPc, Goal, StepAhead, callVars, history
<1>19. ASSUME NEW r \in Runs, MarkPlan(r)
      PROVE Typed'
  <2>1. run' \in [Runs -> {Idle} \cup Run]
        /\ \A q \in Runs : run'[q].pc \in StepAhead => run'[q].step < Steps
    BY <1>19, GotoTyped, RunRecord DEF MarkPlan, Mark, RunPc, StepAhead
  <2>2. run[r].plan \in Plans /\ Mark[run[r].pc] \in PlanStatus
    BY <1>19, RunRecord DEF MarkPlan, Mark, Run, PlanStatus
  <2>3. plan' \in [Plans -> [status : PlanStatus, gated : BOOLEAN, intact : BOOLEAN]]
    <3> DEFINE new == [plan[run[r].plan] EXCEPT !.status = Mark[run[r].pc]]
    <3>1. new \in [status : PlanStatus, gated : BOOLEAN, intact : BOOLEAN]
      BY <2>2 DEF Typed, TypeOK
    <3>2. plan' = [plan EXCEPT ![run[r].plan] = new]
      BY <1>19 DEF MarkPlan
    <3> QED
      BY <2>2, <3>1, <3>2 DEF Typed, TypeOK
  <2> QED
    BY <1>19, <2>1, <2>3 DEF Typed, TypeOK, MarkPlan, callVars, history
<1>20. ASSUME NEW r \in Runs, Crash(r)
      PROVE Typed'
  BY <1>20, GotoTyped DEF Typed, TypeOK, Crash, RunPc, StepAhead, callVars, history
<1>21. ASSUME NEW c \in Cancels, NEW r \in Runs, RequestCancel(c, r)
      PROVE Typed'
  BY <1>21 DEF Typed, TypeOK, RequestCancel, CancelCall, history
<1>22. ASSUME NEW c \in Cancels, CancelRead(c)
      PROVE Typed'
  BY <1>22 DEF Typed, TypeOK, CancelRead, CancelCall, Idle, history
<1>23. ASSUME NEW c \in Cancels, CancelWrite(c)
      PROVE Typed'
  BY <1>23 DEF Typed, TypeOK, CancelWrite, CancelCall, Idle, Operation,
               OperationState, history
<1> QED
  BY <1>1, <1>2, <1>3, <1>4, <1>5, <1>6, <1>7, <1>8, <1>9, <1>10, <1>11, <1>12,
     <1>13, <1>14, <1>15, <1>16, <1>17, <1>18, <1>19, <1>20, <1>21, <1>22, <1>23
  DEF Next, RunStep

(* Every reachable state has the declared types. *)
THEOREM TypeCorrect == Spec => []TypeOK
<1>1. Init => Typed
  BY TypedInit
<1>2. Typed /\ [Next]_vars => Typed'
  BY TypedNext
<1>3. Typed => TypeOK
  BY DEF Typed
<1> QED
  BY <1>1, <1>2, <1>3, PTL DEF Spec

-----------------------------------------------------------------------------
(* What a transition does to its call, and to no other *)

ReadNext(r) ==
    IF operation[r].state = Goal[run[r].pc] THEN Resume[run[r].pc]
    ELSE IF Goal[run[r].pc] \notin TRANSITIONS[operation[r].state]
    THEN Throw[run[r].pc] ELSE run[r].pc

LEMMA ReplaceEffect ==
    ASSUME Typed, NEW r \in Runs, run[r] \in Run, NEW pc, NEW w, NEW s,
           run' = [run EXCEPT ![r].pc = pc, ![r].writing = w, ![r].seen = s]
    PROVE /\ run'[r] = [run[r] EXCEPT !.pc = pc, !.writing = w, !.seen = s]
          /\ run'[r].pc = pc /\ run'[r].writing = w /\ run'[r].seen = s
          /\ run'[r].plan = run[r].plan /\ run'[r].step = run[r].step
          /\ \A q \in Runs : q # r => run'[q] = run[q]
<1>1. run'[r] = [run[r] EXCEPT !.pc = pc, !.writing = w, !.seen = s]
  BY DEF Typed, TypeOK, Run
<1> QED
  BY <1>1 DEF Typed, TypeOK, Run

LEMMA ReadEffect ==
    ASSUME Typed, NEW r \in Runs, TransitionRead(r)
    PROVE /\ run[r] \in Run /\ run[r].pc \in DOMAIN Goal /\ ~run[r].writing
          /\ run'[r].pc = ReadNext(r)
          /\ run'[r].writing = (ReadNext(r) = run[r].pc)
          /\ run'[r].seen = (ReadNext(r) = run[r].pc /\ operation[r].cancelRequested)
          /\ run'[r].plan = run[r].plan /\ run'[r].step = run[r].step
          /\ \A q \in Runs : q # r => run'[q] = run[q]
          /\ Enter(r, ReadNext(r))
<1>1. run[r] \in Run /\ run[r].pc \in DOMAIN Goal /\ ~run[r].writing
  BY RunRecord DEF TransitionRead, Goal
<1> DEFINE next == ReadNext(r)
           writing == (next = run[r].pc)
           seen == (next = run[r].pc /\ operation[r].cancelRequested)
<1>2. /\ run' = [run EXCEPT ![r].pc = next, ![r].writing = writing, ![r].seen = seen]
      /\ Enter(r, next)
  <2>1. next = IF operation[r].state = Goal[run[r].pc] THEN Resume[run[r].pc]
               ELSE IF operation[r].state # Goal[run[r].pc]
                       /\ Goal[run[r].pc] \notin TRANSITIONS[operation[r].state]
               THEN Throw[run[r].pc] ELSE run[r].pc
    BY DEF ReadNext
  <2> QED
    BY <2>1 DEF TransitionRead
<1> HIDE DEF next, writing, seen
<1>3. /\ run'[r].pc = next /\ run'[r].writing = writing /\ run'[r].seen = seen
      /\ run'[r].plan = run[r].plan /\ run'[r].step = run[r].step
      /\ \A q \in Runs : q # r => run'[q] = run[q]
  BY <1>1, <1>2 DEF Typed, TypeOK, Run
<1> QED
  BY <1>1, <1>2, <1>3 DEF next, writing, seen

LEMMA WriteEffect ==
    ASSUME Typed, NEW r \in Runs, TransitionWrite(r)
    PROVE /\ run[r] \in Run /\ run[r].pc \in DOMAIN Goal /\ run[r].writing
          /\ run'[r].pc = Resume[run[r].pc] /\ ~run'[r].writing
          /\ run'[r].plan = run[r].plan /\ run'[r].step = run[r].step
          /\ \A q \in Runs : q # r => run'[q] = run[q]
          /\ Enter(r, Resume[run[r].pc])
<1>1. run[r] \in Run /\ run[r].pc \in DOMAIN Goal /\ run[r].writing
  BY RunRecord DEF TransitionWrite, Goal
<1> QED
  BY <1>1, ReplaceEffect DEF TransitionWrite

(* A plain move touches nothing but the place of the call. *)
LEMMA GotoEffect ==
    ASSUME Typed, NEW r \in Runs, NEW pc, run[r].pc # "idle", Goto(r, pc)
    PROVE /\ run[r] \in Run
          /\ run'[r] = [run[r] EXCEPT !.pc = pc]
          /\ run'[r].pc = pc
          /\ run'[r].writing = run[r].writing /\ run'[r].seen = run[r].seen
          /\ run'[r].step = run[r].step
          /\ \A q \in Runs : q # r => run'[q] = run[q]
<1>1. run[r] \in Run
  BY RunRecord
<1> QED
  BY <1>1 DEF Goto, Typed, TypeOK, Run

-----------------------------------------------------------------------------
(* ConsentGiven *)

LEMMA ConsentInit == Init => ConsentGiven
BY DEF Init, ConsentGiven, PlansConsented, ApprovalsConsented, DecisionsConsented,
       RunsConsented, Checked, Goal, Mark, Idle

(* What a run relies on survives any step that leaves the run where it was, or
   puts it where no more is needed, and keeps plans that were consented to. *)
LEMMA RunKept ==
    ASSUME Typed, RunsConsented, NEW r \in Runs,
           NEW pc, Goto(r, pc), run[r].pc # "idle", pc # "idle",
           UNCHANGED <<plan, consent, begun>>,
           pc = "setApproved" => Consented(run[r].plan),
           pc \in Checked => plan[run[r].plan].intact /\ Consented(run[r].plan)
    PROVE RunsConsented'
<1>1. run[r] \in Run
  BY RunRecord
<1>2. /\ run'[r].pc = pc /\ run'[r].plan = run[r].plan
      /\ \A q \in Runs : q # r => run'[q] = run[q]
  BY <1>1 DEF Goto, Typed, TypeOK, Run
<1> QED
  BY <1>1, <1>2 DEF RunsConsented, Consented

LEMMA ConsentNext ==
    ASSUME Typed, ConsentGiven, [Next]_vars
    PROVE ConsentGiven'
<1> USE DEF ConsentGiven
<1>0. Typed'
  BY TypedNext
<1>1. CASE UNCHANGED vars
  BY <1>1 DEF PlansConsented, ApprovalsConsented, DecisionsConsented, RunsConsented,
              Consented, Checked, vars
<1>2. ASSUME NEW p \in Plans, CreatePlan(p)
      PROVE ConsentGiven'
  BY <1>2, RunRecord
  DEF Typed, TypeOK, CreatePlan, PlansConsented, ApprovalsConsented,
      DecisionsConsented, RunsConsented, Consented, Run, callVars, history, Checked, Goal, Mark
<1>3. ASSUME NEW p \in Plans, RequestForPlan(p)
      PROVE ConsentGiven'
  BY <1>3 DEF Typed, TypeOK, RequestForPlan, PlansConsented, ApprovalsConsented,
      DecisionsConsented, RunsConsented, Consented, callVars, history
<1>4. ASSUME NEW p \in Plans, WindowElapses(p)
      PROVE ConsentGiven'
  BY <1>4 DEF Typed, TypeOK, WindowElapses, PlansConsented, ApprovalsConsented,
      DecisionsConsented, RunsConsented, Consented, callVars, history, DecideCall, Idle
<1>5. ASSUME NEW d \in Decisions, NEW p \in Plans,
             NEW v \in {"approved", "denied", "expired"}, Decide(d, p, v)
      PROVE ConsentGiven'
  BY <1>5 DEF Typed, TypeOK, Decide, PlansConsented, ApprovalsConsented,
      DecisionsConsented, RunsConsented, Consented
<1>6. ASSUME NEW d \in Decisions, DecideRead(d)
      PROVE ConsentGiven'
  <2>1. decision[d] \in DecideCall
    BY <1>6 DEF Typed, TypeOK, DecideRead, Idle
  <2>2. DecisionsConsented'
    <3> SUFFICES ASSUME NEW e \in Decisions,
                        decision'[e].pc # "idle", decision'[e].verdict = "approved",
                        decision'[e].pc = "write" \/ ~approval[decision'[e].plan].elapsed
                 PROVE decision'[e].plan \in consent
      BY <1>6 DEF DecideRead, DecisionsConsented, history
    <3>1. CASE e # d
      BY <1>6, <3>1 DEF DecideRead, DecisionsConsented, Typed, TypeOK
    <3>2. CASE e = d /\ decision'[d] = [decision[d] EXCEPT !.pc = "write"]
      <4>1. /\ decision'[d].verdict = decision[d].verdict
            /\ decision'[d].plan = decision[d].plan
        BY <2>1, <3>2 DEF DecideCall
      <4>2. decision[d].pc = "read" /\ ~approval[decision[d].plan].elapsed
        BY <1>6, <2>1, <3>2, <4>1 DEF DecideRead, DecideCall, Idle, Typed, TypeOK
      <4> QED
        BY <3>2, <4>1, <4>2 DEF DecisionsConsented
    <3>3. CASE e = d /\ decision'[d] = [decision[d] EXCEPT !.verdict = "expired"]
      BY <2>1, <3>3 DEF DecideCall
    <3>4. CASE e = d /\ decision'[d] = Idle
      BY <3>4 DEF Idle
    <3> QED
      BY <1>6, <2>1, <3>1, <3>2, <3>3, <3>4 DEF DecideRead, DecideCall, Typed, TypeOK
  <2> QED
    BY <1>6, <2>2 DEF DecideRead, PlansConsented, ApprovalsConsented, RunsConsented,
                      Consented, history
<1>7. ASSUME NEW d \in Decisions, DecideWrite(d)
      PROVE ConsentGiven'
  BY <1>7 DEF Typed, TypeOK, DecideWrite, DecideCall, Idle, PlansConsented,
      ApprovalsConsented, DecisionsConsented, RunsConsented, Consented, history
<1>8. ASSUME NEW r \in Runs, NEW p \in Plans, StartRun(r, p)
      PROVE ConsentGiven'
  BY <1>8 DEF Typed, TypeOK, StartRun, Idle, PlansConsented, ApprovalsConsented,
      DecisionsConsented, RunsConsented, Consented, Checked, Goal, Mark, callVars, history
<1>9. ASSUME NEW r \in Runs, RequireApprovedForPlan(r)
      PROVE ConsentGiven'
  BY <1>9, RunKept, RunRecord
  DEF RequireApprovedForPlan, PlansConsented, ApprovalsConsented,
      DecisionsConsented, Consented, Checked, Goal, Mark, Run, callVars, history
<1>10. ASSUME NEW r \in Runs, SetApproved(r)
      PROVE ConsentGiven'
  BY <1>10, RunRecord
  DEF SetApproved, PlansConsented, ApprovalsConsented, DecisionsConsented,
      RunsConsented, Consented, Checked, Goal, Mark, Run, Goto, Typed, TypeOK, callVars, history
<1>11. ASSUME NEW r \in Runs, RequireExecutable(r)
      PROVE ConsentGiven'
  BY <1>11, RunKept, RunRecord
  DEF RequireExecutable, PlansConsented, ApprovalsConsented,
      DecisionsConsented, Consented, Checked, Goal, Mark, Run, callVars, history
<1>12. ASSUME NEW r \in Runs, CreateOperation(r)
      PROVE ConsentGiven'
  BY <1>12, RunKept
  DEF CreateOperation, PlansConsented, ApprovalsConsented,
      DecisionsConsented, RunsConsented, Consented, Checked, callVars, history
<1>13. ASSUME NEW r \in Runs, CountOperation(r)
      PROVE ConsentGiven'
  BY <1>13, RunKept
  DEF CountOperation, PlansConsented, ApprovalsConsented,
      DecisionsConsented, RunsConsented, Consented, Checked, callVars, history
<1>14. ASSUME NEW r \in Runs, BeginPlan(r)
      PROVE ConsentGiven'
  BY <1>14, RunRecord
  DEF BeginPlan, PlansConsented, ApprovalsConsented, DecisionsConsented,
      RunsConsented, Consented, Checked, Goal, Mark, Run, Goto, Typed, TypeOK, callVars, history
<1>15. ASSUME NEW r \in Runs, CheckStep(r)
      PROVE ConsentGiven'
  BY <1>15, RunKept
  DEF CheckStep, PlansConsented, ApprovalsConsented,
      DecisionsConsented, RunsConsented, Consented, Checked, callVars, history
<1>16. ASSUME NEW r \in Runs, TransitionRead(r)
      PROVE ConsentGiven'
  <2>0. UNCHANGED <<plan, approval, decision, consent>>
    BY <1>16 DEF TransitionRead, callVars
  <2>1. /\ run[r].pc \in DOMAIN Goal /\ run'[r].pc = ReadNext(r)
        /\ run'[r].plan = run[r].plan
        /\ \A q \in Runs : q # r => run'[q] = run[q]
        /\ Enter(r, ReadNext(r))
    BY <1>16, ReadEffect
  <2>2. /\ {run[r].pc, run'[r].pc} \cap {"idle", "setApproved"} = {}
        /\ \A q \in Runs : q # r => run'[q] = run[q] /\ begun'[q] = begun[q]
    BY <2>1, TableTypes DEF Enter, ReadNext, Typed, TypeOK
  <2>3. PlansConsented' /\ ApprovalsConsented' /\ DecisionsConsented'
    BY <2>0 DEF PlansConsented, ApprovalsConsented, DecisionsConsented, Consented
  <2>4. run[r].pc \in Checked
    BY <2>1 DEF Checked
  <2>5. RunsConsented'
    BY <2>0, <2>1, <2>2, <2>4 DEF RunsConsented, Consented
  <2> QED
    BY <2>3, <2>5
<1>17. ASSUME NEW r \in Runs, TransitionWrite(r)
      PROVE ConsentGiven'
  <2>0. UNCHANGED <<plan, approval, decision, consent>>
    BY <1>17 DEF TransitionWrite, callVars
  <2>1. /\ run[r].pc \in DOMAIN Goal /\ run'[r].pc = Resume[run[r].pc]
        /\ run'[r].plan = run[r].plan
        /\ \A q \in Runs : q # r => run'[q] = run[q]
        /\ Enter(r, Resume[run[r].pc])
    BY <1>17, WriteEffect
  <2>2. /\ {run[r].pc, run'[r].pc} \cap {"idle", "setApproved"} = {}
        /\ \A q \in Runs : q # r => run'[q] = run[q] /\ begun'[q] = begun[q]
    BY <2>1, TableTypes DEF Enter, ReadNext, Typed, TypeOK
  <2>3. PlansConsented' /\ ApprovalsConsented' /\ DecisionsConsented'
    BY <2>0 DEF PlansConsented, ApprovalsConsented, DecisionsConsented, Consented
  <2>4. run[r].pc \in Checked
    BY <2>1 DEF Checked
  <2>5. RunsConsented'
    BY <2>0, <2>1, <2>2, <2>4 DEF RunsConsented, Consented
  <2> QED
    BY <2>3, <2>5
<1>18. ASSUME NEW r \in Runs, ExecuteReturns(r)
      PROVE ConsentGiven'
  BY <1>18, RunRecord
  DEF ExecuteReturns, PlansConsented, ApprovalsConsented, DecisionsConsented,
      RunsConsented, Consented, Checked, Goal, Mark, Run, Goto, Typed, TypeOK, callVars, history
<1>19. ASSUME NEW r \in Runs, MarkPlan(r)
      PROVE ConsentGiven'
  BY <1>19, RunRecord
  DEF MarkPlan, PlansConsented, ApprovalsConsented, DecisionsConsented,
      RunsConsented, Consented, Checked, Goal, Mark, Run, Goto, Typed, TypeOK, callVars, history
<1>20. ASSUME NEW r \in Runs, Crash(r)
      PROVE ConsentGiven'
  BY <1>20, RunKept
  DEF Crash, PlansConsented, ApprovalsConsented, DecisionsConsented,
      RunsConsented, Consented, Checked, Goal, Mark, callVars, history
<1>21. ASSUME NEW c \in Cancels, NEW r \in Runs, RequestCancel(c, r)
      PROVE ConsentGiven'
  BY <1>21 DEF RequestCancel, PlansConsented, ApprovalsConsented, DecisionsConsented,
      RunsConsented, Consented, history
<1>22. ASSUME NEW c \in Cancels, CancelRead(c)
      PROVE ConsentGiven'
  BY <1>22 DEF CancelRead, PlansConsented, ApprovalsConsented, DecisionsConsented,
      RunsConsented, Consented, history
<1>23. ASSUME NEW c \in Cancels, CancelWrite(c)
      PROVE ConsentGiven'
  BY <1>23 DEF CancelWrite, PlansConsented, ApprovalsConsented, DecisionsConsented,
      RunsConsented, Consented, history
<1> QED
  BY <1>1, <1>2, <1>3, <1>4, <1>5, <1>6, <1>7, <1>8, <1>9, <1>10, <1>11, <1>12,
     <1>13, <1>14, <1>15, <1>16, <1>17, <1>18, <1>19, <1>20, <1>21, <1>22, <1>23
  DEF Next, RunStep

(* No step of a plan runs whose hash changed, or that needed an approval and
   never got one in time. *)
THEOREM ApprovalGuard == Spec => []NothingRunsUnapproved
<1>1. Init => Typed /\ ConsentGiven
  BY TypedInit, ConsentInit
<1>2. Typed /\ ConsentGiven /\ [Next]_vars => (Typed /\ ConsentGiven)'
  BY TypedNext, ConsentNext
<1>3. Typed /\ ConsentGiven => NothingRunsUnapproved
  BY DEF ConsentGiven, RunsConsented, NothingRunsUnapproved, Consented
<1> QED
  BY <1>1, <1>2, <1>3, PTL DEF Spec

-----------------------------------------------------------------------------
(* CancelVisible *)

(* The transition table, where a run enters or stays at the loop's own
   transitions: only a queued operation is saved as running. *)
LEMMA ReadLoop ==
    ASSUME NEW r \in Runs, operation[r] \in Operation, run[r].pc \in DOMAIN Goal
    PROVE /\ ReadNext(r) \in {"check", "executing"} => operation[r].state = "running"
          /\ ReadNext(r) \in {"toRunning", "stepRunning"} =>
               operation[r].state = "queued" /\ ReadNext(r) = run[r].pc
          /\ ReadNext(r) = "executing" => run[r].pc = "stepRunning"
          /\ ReadNext(r) # "idle"
<1>1. operation[r].state \in OperationState
  BY DEF Operation
<1>2. ReadNext(r) \in {Resume[run[r].pc], Throw[run[r].pc]} =>
        /\ ReadNext(r) \notin {"idle", "toRunning", "stepRunning"}
        /\ ReadNext(r) \in {"check", "executing"} =>
             /\ Goal[run[r].pc] = "running"
             /\ ReadNext(r) = Resume[run[r].pc] /\ ReadNext(r) # Throw[run[r].pc]
        /\ ReadNext(r) = "executing" => run[r].pc = "stepRunning"
  BY DEF Resume, Throw, Goal
<1>3. run[r].pc \in {"toRunning", "stepRunning"} => Goal[run[r].pc] = "running"
  BY DEF Goal
<1>4. "running" \in TRANSITIONS[operation[r].state] => operation[r].state = "queued"
  BY <1>1 DEF TRANSITIONS
<1>5. run[r].pc \notin {"idle", "check", "executing"}
  BY DEF Goal
<1> QED
  BY <1>2, <1>3, <1>4, <1>5 DEF ReadNext

(* A plain move keeps CancelVisible when it starts outside the transitions, or
   is a crash, and does not enter the loop. *)
LEMMA CancelKept ==
    ASSUME Typed, CancelVisible, NEW r \in Runs, NEW pc, run[r].pc # "idle",
           Goto(r, pc), UNCHANGED <<operation, overrun>>,
           pc = "crashed" \/ run[r].pc \notin DOMAIN Goal \cup {"crashed"},
           pc \in InLoop => run[r].pc \in InLoop
    PROVE CancelVisible'
<1>1. /\ run'[r].pc = pc
      /\ run'[r].writing = run[r].writing /\ run'[r].seen = run[r].seen
      /\ \A q \in Runs : q # r => run'[q] = run[q]
  BY GotoEffect
<1>2. run[r].writing => pc = "crashed"
  BY DEF CancelVisible
<1>3. pc = "crashed" => pc # "toRunning"
  OBVIOUS
<1> QED
  BY <1>1, <1>2, <1>3 DEF CancelVisible

LEMMA CancelInit == Init => CancelVisible
BY DEF Init, CancelVisible, NoOperation, Idle, InLoop

LEMMA CancelNext ==
    ASSUME Typed, CancelVisible, [Next]_vars
    PROVE CancelVisible'
<1>1. CASE UNCHANGED vars
  BY <1>1 DEF CancelVisible, vars
<1>2. ASSUME NEW p \in Plans, CreatePlan(p)
      PROVE CancelVisible'
  BY <1>2 DEF CreatePlan, CancelVisible, callVars, history
<1>3. ASSUME NEW p \in Plans, RequestForPlan(p)
      PROVE CancelVisible'
  BY <1>3 DEF RequestForPlan, CancelVisible, callVars, history
<1>4. ASSUME NEW p \in Plans, WindowElapses(p)
      PROVE CancelVisible'
  BY <1>4 DEF WindowElapses, CancelVisible, callVars, history
<1>5. ASSUME NEW d \in Decisions, NEW p \in Plans,
             NEW v \in {"approved", "denied", "expired"}, Decide(d, p, v)
      PROVE CancelVisible'
  BY <1>5 DEF Decide, CancelVisible, callVars, history
<1>6. ASSUME NEW d \in Decisions, DecideRead(d)
      PROVE CancelVisible'
  BY <1>6 DEF DecideRead, CancelVisible, callVars, history
<1>7. ASSUME NEW d \in Decisions, DecideWrite(d)
      PROVE CancelVisible'
  BY <1>7 DEF DecideWrite, CancelVisible, callVars, history
<1>8. ASSUME NEW r \in Runs, NEW p \in Plans, StartRun(r, p)
      PROVE CancelVisible'
  BY <1>8 DEF StartRun, CancelVisible, InLoop, Idle, Typed, TypeOK, callVars, history
<1>9. ASSUME NEW r \in Runs, RequireApprovedForPlan(r)
      PROVE CancelVisible'
  BY <1>9, CancelKept DEF RequireApprovedForPlan, InLoop, Goal, Mark, callVars, history
<1>10. ASSUME NEW r \in Runs, SetApproved(r)
      PROVE CancelVisible'
  BY <1>10, CancelKept DEF SetApproved, InLoop, Goal, Mark, callVars, history
<1>11. ASSUME NEW r \in Runs, RequireExecutable(r)
      PROVE CancelVisible'
  BY <1>11, CancelKept DEF RequireExecutable, InLoop, Goal, Mark, callVars, history
<1>12. ASSUME NEW r \in Runs, CreateOperation(r)
      PROVE CancelVisible'
  <2>1. /\ run[r].pc = "create" /\ run'[r].pc = "count"
        /\ run'[r].writing = run[r].writing
        /\ \A q \in Runs : q # r => run'[q] = run[q]
    BY <1>12, GotoEffect DEF CreateOperation
  <2>2. /\ operation'[r] = [state |-> "queued", cancelRequested |-> FALSE]
        /\ \A q \in Runs : q # r => operation'[q] = operation[q]
    BY <1>12 DEF CreateOperation, Typed, TypeOK
  <2>3. ~run[r].writing
    BY <2>1 DEF CancelVisible, Goal
  <2> QED
    BY <1>12, <2>1, <2>2, <2>3 DEF CreateOperation, CancelVisible, InLoop, history
<1>13. ASSUME NEW r \in Runs, CountOperation(r)
      PROVE CancelVisible'
  BY <1>13, CancelKept DEF CountOperation, InLoop, Goal, Mark, callVars, history
<1>14. ASSUME NEW r \in Runs, BeginPlan(r)
      PROVE CancelVisible'
  BY <1>14, CancelKept DEF BeginPlan, InLoop, Goal, Mark, callVars, history
<1>15. ASSUME NEW r \in Runs, CheckStep(r)
      PROVE CancelVisible'
  BY <1>15, CancelKept DEF CheckStep, InLoop, Goal, Mark, callVars, history
<1>16. ASSUME NEW r \in Runs, TransitionRead(r)
      PROVE CancelVisible'
  <2>1. /\ run[r].pc \in DOMAIN Goal /\ run'[r].pc = ReadNext(r)
        /\ run'[r].writing = (ReadNext(r) = run[r].pc)
        /\ run'[r].seen = (ReadNext(r) = run[r].pc /\ operation[r].cancelRequested)
        /\ \A q \in Runs : q # r => run'[q] = run[q]
        /\ Enter(r, ReadNext(r))
        /\ UNCHANGED operation
    BY <1>16, ReadEffect, ZenonT(40) DEF TransitionRead
  <2>2. operation[r] \in Operation
    BY DEF Typed, TypeOK
  <2>3. ReadNext(r) \in InLoop => operation[r].state = "running"
    BY <2>1, <2>2, ReadLoop DEF CancelVisible, InLoop
  <2>4. ReadNext(r) = run[r].pc => run[r].pc # "stepRunning"
    BY <2>3, <2>1, <2>2, ReadLoop DEF InLoop
  <2>5. ReadNext(r) = "toRunning" => ~operation[r].cancelRequested
    BY <2>1, <2>2, ReadLoop DEF CancelVisible
  <2>6. overrun' = {}
    BY <2>1, <2>3 DEF Enter, CancelVisible, InLoop
  <2> QED
    BY <2>1, <2>3, <2>4, <2>5, <2>6, ZenonT(40) DEF CancelVisible
<1>17. ASSUME NEW r \in Runs, TransitionWrite(r)
      PROVE CancelVisible'
  <2>1. /\ run[r].pc \in DOMAIN Goal /\ run'[r].pc = Resume[run[r].pc]
        /\ run[r].writing /\ ~run'[r].writing
        /\ \A q \in Runs : q # r => run'[q] = run[q]
        /\ Enter(r, Resume[run[r].pc])
    BY <1>17, WriteEffect
  <2>2. operation' = [operation EXCEPT ![r] = [state |-> Goal[run[r].pc],
                                               cancelRequested |-> run[r].seen]]
    BY <1>17 DEF TransitionWrite
  <2>3. run[r].pc # "stepRunning" /\ run[r].pc # "idle"
    BY <2>1 DEF CancelVisible, Goal
  <2>4. /\ Resume[run[r].pc] \in InLoop => run[r].pc = "toRunning"
        /\ Goal[run[r].pc] \in {"queued", "running"} => run[r].pc = "toRunning"
        /\ run[r].pc = "toRunning" => Goal[run[r].pc] = "running"
        /\ Resume[run[r].pc] # "executing" /\ Resume[run[r].pc] # "toRunning"
    BY <2>1, <2>3 DEF Goal, Resume, InLoop
  <2>5. overrun' = {}
    BY <2>1, <2>4 DEF Enter, CancelVisible
  <2>6. /\ operation'[r].state = Goal[run[r].pc]
        /\ operation'[r].cancelRequested = run[r].seen
        /\ \A q \in Runs : q # r => operation'[q] = operation[q]
    BY <2>2 DEF Typed, TypeOK
  <2> QED
    BY <2>1, <2>4, <2>5, <2>6 DEF CancelVisible
<1>18. ASSUME NEW r \in Runs, ExecuteReturns(r)
      PROVE CancelVisible'
  <2>1. run[r] \in Run /\ ~run[r].writing
    BY <1>18, RunRecord DEF ExecuteReturns, CancelVisible, Goal
  <2>2. /\ run'[r].pc \in {"check", "toVerifying", "toFailed"}
        /\ run'[r].writing = run[r].writing
        /\ \A q \in Runs : q # r => run'[q] = run[q]
    BY <1>18, <2>1 DEF ExecuteReturns, Goto, Run, Typed, TypeOK
  <2> QED
    BY <1>18, <2>1, <2>2 DEF ExecuteReturns, CancelVisible, InLoop, callVars, history
<1>19. ASSUME NEW r \in Runs, MarkPlan(r)
      PROVE CancelVisible'
  BY <1>19, CancelKept DEF MarkPlan, InLoop, Goal, Mark, callVars, history
<1>20. ASSUME NEW r \in Runs, Crash(r)
      PROVE CancelVisible'
  BY <1>20, CancelKept DEF Crash, InLoop, Goal, Mark, callVars, history
<1>21. ASSUME NEW c \in Cancels, NEW r \in Runs, RequestCancel(c, r)
      PROVE CancelVisible'
  BY <1>21 DEF RequestCancel, CancelVisible, callVars, history
<1>22. ASSUME NEW c \in Cancels, CancelRead(c)
      PROVE CancelVisible'
  BY <1>22 DEF CancelRead, CancelVisible, callVars, history
<1>23. ASSUME NEW c \in Cancels, CancelWrite(c)
      PROVE CancelVisible'
  BY <1>23 DEF CancelWrite, CancelVisible, CancelCall, Idle, Typed, TypeOK, Operation, history
<1> QED
  BY <1>1, <1>2, <1>3, <1>4, <1>5, <1>6, <1>7, <1>8, <1>9, <1>10, <1>11, <1>12,
     <1>13, <1>14, <1>15, <1>16, <1>17, <1>18, <1>19, <1>20, <1>21, <1>22, <1>23
  DEF Next, RunStep

(* No step starts once the request to cancel its operation is stored. *)
THEOREM CancelGuard == Spec => []NoStepAfterCancel
<1>1. Init => Typed /\ CancelVisible
  BY TypedInit, CancelInit
<1>2. Typed /\ CancelVisible /\ [Next]_vars => (Typed /\ CancelVisible)'
  BY TypedNext, CancelNext
<1>3. CancelVisible => NoStepAfterCancel
  BY DEF CancelVisible, NoStepAfterCancel
<1> QED
  BY <1>1, <1>2, <1>3, PTL DEF Spec

-----------------------------------------------------------------------------
(* ProgressKept *)

LEMMA ReadProgress ==
    ASSUME NEW r \in Runs, operation[r] \in Operation, run[r].pc \in DOMAIN Goal,
           operation[r].state = "succeeded" => run[r].pc \in Past
    PROVE /\ operation[r].state # "succeeded"
          /\ ReadNext(r) # "idle"
          /\ ReadNext(r) = "executing" => run[r].pc = "stepRunning"
          /\ ReadNext(r) \in StepAhead => run[r].pc \in StepAhead \ {"executing"}
          /\ ReadNext(r) \in AfterLoop => run[r].pc \in AfterLoop
<1>1. run[r].pc \notin Past \cup {"executing", "idle"}
  BY DEF Goal, Past
<1>2. operation[r].state # "succeeded"
  BY <1>1
<1>3. /\ {Resume[run[r].pc], Throw[run[r].pc]} \cap {"idle"} = {}
      /\ Resume[run[r].pc] = "executing" => run[r].pc = "stepRunning"
      /\ Resume[run[r].pc] \in StepAhead => run[r].pc \in StepAhead
      /\ Resume[run[r].pc] = "markSucceeded" => run[r].pc = "toSucceeded"
      /\ Resume[run[r].pc] = "toSucceeded" => run[r].pc = "toVerifying"
      /\ Resume[run[r].pc] # "toVerifying"
      /\ Throw[run[r].pc] \notin StepAhead \cup AfterLoop
      /\ Throw[run[r].pc] # "executing"
  BY DEF Goal, Resume, Throw, StepAhead, AfterLoop
<1> QED
  BY <1>1, <1>2, <1>3 DEF ReadNext, AfterLoop

(* A plain move keeps ProgressKept when it does not leave the loop behind, or
   goes where nothing is claimed of it. *)
LEMMA ProgressMoved ==
    ASSUME Typed, ProgressKept, NEW r \in Runs, NEW pc, run[r].pc # "idle",
           Goto(r, pc), UNCHANGED <<operation, begun>>,
           pc \notin AfterLoop \cup {"idle", "executing"},
           pc \in StepAhead => run[r].pc \in StepAhead \ {"executing"},
           run[r].pc \in Past => pc \in Past
    PROVE ProgressKept'
<1>1. /\ run'[r].pc = pc /\ run'[r].step = run[r].step
      /\ \A q \in Runs : q # r => run'[q] = run[q]
  BY GotoEffect
<1> QED
  BY <1>1 DEF ProgressKept

LEMMA ProgressInit == Init => ProgressKept
BY DEF Init, ProgressKept, NoOperation, Idle, StepAhead, AfterLoop

LEMMA ProgressNext ==
    ASSUME Typed, ProgressKept, [Next]_vars
    PROVE ProgressKept'
<1>1. CASE UNCHANGED vars
  BY <1>1 DEF ProgressKept, vars
<1>2. ASSUME NEW p \in Plans, CreatePlan(p)
      PROVE ProgressKept'
  BY <1>2 DEF CreatePlan, ProgressKept, callVars, history
<1>3. ASSUME NEW p \in Plans, RequestForPlan(p)
      PROVE ProgressKept'
  BY <1>3 DEF RequestForPlan, ProgressKept, callVars, history
<1>4. ASSUME NEW p \in Plans, WindowElapses(p)
      PROVE ProgressKept'
  BY <1>4 DEF WindowElapses, ProgressKept, callVars, history
<1>5. ASSUME NEW d \in Decisions, NEW p \in Plans,
             NEW v \in {"approved", "denied", "expired"}, Decide(d, p, v)
      PROVE ProgressKept'
  BY <1>5 DEF Decide, ProgressKept, callVars, history
<1>6. ASSUME NEW d \in Decisions, DecideRead(d)
      PROVE ProgressKept'
  BY <1>6 DEF DecideRead, ProgressKept, callVars, history
<1>7. ASSUME NEW d \in Decisions, DecideWrite(d)
      PROVE ProgressKept'
  BY <1>7 DEF DecideWrite, ProgressKept, callVars, history
<1>8. ASSUME NEW r \in Runs, NEW p \in Plans, StartRun(r, p)
      PROVE ProgressKept'
  BY <1>8 DEF StartRun, ProgressKept, StepAhead, AfterLoop, Past, Idle, Typed, TypeOK, callVars, history
<1>9. ASSUME NEW r \in Runs, RequireApprovedForPlan(r)
      PROVE ProgressKept'
  BY <1>9, ProgressMoved DEF RequireApprovedForPlan, StepAhead, AfterLoop, Past, Mark, callVars, history
<1>10. ASSUME NEW r \in Runs, SetApproved(r)
      PROVE ProgressKept'
  BY <1>10, ProgressMoved DEF SetApproved, StepAhead, AfterLoop, Past, Mark, callVars, history
<1>11. ASSUME NEW r \in Runs, RequireExecutable(r)
      PROVE ProgressKept'
  BY <1>11, ProgressMoved DEF RequireExecutable, StepAhead, AfterLoop, Past, Mark, callVars, history
<1>12. ASSUME NEW r \in Runs, CreateOperation(r)
      PROVE ProgressKept'
  <2>1. /\ operation'[r].state = "queued"
        /\ \A q \in Runs : q # r => operation'[q] = operation[q]
    BY <1>12 DEF CreateOperation, Typed, TypeOK
  <2>2. /\ run'[r].pc = "count" /\ run[r].pc = "create"
        /\ run'[r].step = run[r].step
        /\ \A q \in Runs : q # r => run'[q] = run[q]
    BY <1>12, GotoEffect, ZenonT(40) DEF CreateOperation
  <2> QED
    BY <1>12, <2>1, <2>2
    DEF CreateOperation, ProgressKept, StepAhead, AfterLoop, Past, callVars, history
<1>13. ASSUME NEW r \in Runs, CountOperation(r)
      PROVE ProgressKept'
  BY <1>13, ProgressMoved DEF CountOperation, StepAhead, AfterLoop, Past, Mark, callVars, history
<1>14. ASSUME NEW r \in Runs, BeginPlan(r)
      PROVE ProgressKept'
  BY <1>14, ProgressMoved DEF BeginPlan, StepAhead, AfterLoop, Past, Mark, callVars, history
<1>15. ASSUME NEW r \in Runs, CheckStep(r)
      PROVE ProgressKept'
  BY <1>15, ProgressMoved DEF CheckStep, StepAhead, AfterLoop, Past, Mark, callVars, history
<1>16. ASSUME NEW r \in Runs, TransitionRead(r)
      PROVE ProgressKept'
  <2>1. /\ run[r].pc \in DOMAIN Goal /\ run'[r].pc = ReadNext(r)
        /\ run'[r].step = run[r].step
        /\ \A q \in Runs : q # r => run'[q] = run[q]
        /\ Enter(r, ReadNext(r))
        /\ UNCHANGED operation
    BY <1>16, ReadEffect, ZenonT(40) DEF TransitionRead
  <2>2. /\ operation[r].state # "succeeded"
        /\ ReadNext(r) # "idle"
        /\ ReadNext(r) = "executing" => run[r].pc = "stepRunning"
        /\ ReadNext(r) \in StepAhead => run[r].pc \in StepAhead \ {"executing"}
        /\ ReadNext(r) \in AfterLoop => run[r].pc \in AfterLoop
    BY <2>1, ReadProgress DEF ProgressKept, Typed, TypeOK
  <2> QED
    BY <2>1, <2>2 DEF Enter, ProgressKept, StepAhead, Typed, TypeOK
<1>17. ASSUME NEW r \in Runs, TransitionWrite(r)
      PROVE ProgressKept'
  <2>1. /\ run[r].pc \in DOMAIN Goal /\ run'[r].pc = Resume[run[r].pc]
        /\ run'[r].step = run[r].step
        /\ \A q \in Runs : q # r => run'[q] = run[q]
        /\ Enter(r, Resume[run[r].pc])
    BY <1>17, WriteEffect
  <2>2. /\ operation'[r].state = Goal[run[r].pc]
        /\ \A q \in Runs : q # r => operation'[q] = operation[q]
    BY <1>17 DEF TransitionWrite, Typed, TypeOK
  <2>3. /\ Resume[run[r].pc] # "idle"
        /\ Resume[run[r].pc] = "executing" => run[r].pc = "stepRunning"
        /\ Resume[run[r].pc] \in StepAhead => run[r].pc \in StepAhead \ {"executing"}
        /\ Resume[run[r].pc] \in AfterLoop => run[r].pc \in AfterLoop
        /\ Goal[run[r].pc] = "succeeded" => Resume[run[r].pc] = "markSucceeded"
    BY <2>1 DEF Goal, Resume, StepAhead, AfterLoop
  <2> QED
    BY <2>1, <2>2, <2>3 DEF Enter, ProgressKept, StepAhead, AfterLoop, Past, Typed, TypeOK
<1>18. ASSUME NEW r \in Runs, ExecuteReturns(r)
      PROVE ProgressKept'
  <2>1. run[r] \in Run /\ run[r].pc = "executing"
    BY <1>18, RunRecord DEF ExecuteReturns
  <2>2. begun[r] = run[r].step + 1 /\ operation[r].state # "succeeded"
    BY <2>1 DEF ProgressKept, Past
  <2>3. /\ \/ run'[r].pc = "toVerifying" /\ run'[r].step = Steps /\ run[r].step + 1 = Steps
           \/ run'[r].pc = "check" /\ run'[r].step = run[r].step + 1
           \/ run'[r].pc = "toFailed" /\ run'[r].step = run[r].step
        /\ \A q \in Runs : q # r => run'[q] = run[q]
    BY <1>18, <2>1 DEF ExecuteReturns, Goto, Run, Typed, TypeOK
  <2> QED
    BY <1>18, <2>1, <2>2, <2>3
    DEF ExecuteReturns, ProgressKept, StepAhead, AfterLoop, Past, callVars, history
<1>19. ASSUME NEW r \in Runs, MarkPlan(r)
      PROVE ProgressKept'
  BY <1>19, ProgressMoved DEF MarkPlan, StepAhead, AfterLoop, Past, Mark, callVars, history
<1>20. ASSUME NEW r \in Runs, Crash(r)
      PROVE ProgressKept'
  BY <1>20, ProgressMoved DEF Crash, StepAhead, AfterLoop, Past, Mark, callVars, history
<1>21. ASSUME NEW c \in Cancels, NEW r \in Runs, RequestCancel(c, r)
      PROVE ProgressKept'
  BY <1>21 DEF RequestCancel, ProgressKept, callVars, history
<1>22. ASSUME NEW c \in Cancels, CancelRead(c)
      PROVE ProgressKept'
  BY <1>22 DEF CancelRead, ProgressKept, callVars, history
<1>23. ASSUME NEW c \in Cancels, CancelWrite(c)
      PROVE ProgressKept'
  <2>1. \A r \in Runs : operation'[r].state = "succeeded" =>
                        operation[r].state = "succeeded"
    BY <1>23 DEF CancelWrite, CancelCall, Idle, Typed, TypeOK
  <2> QED
    BY <1>23, <2>1 DEF CancelWrite, ProgressKept, history
<1> QED
  BY <1>1, <1>2, <1>3, <1>4, <1>5, <1>6, <1>7, <1>8, <1>9, <1>10, <1>11, <1>12,
     <1>13, <1>14, <1>15, <1>16, <1>17, <1>18, <1>19, <1>20, <1>21, <1>22, <1>23
  DEF Next, RunStep

(* An operation recorded as succeeded ran every step of its plan, once each. *)
THEOREM SuccessMeansAll == Spec => []SucceededRanAll
<1>1. Init => Typed /\ ProgressKept
  BY TypedInit, ProgressInit
<1>2. Typed /\ ProgressKept /\ [Next]_vars => (Typed /\ ProgressKept)'
  BY TypedNext, ProgressNext
<1>3. ProgressKept => SucceededRanAll
  BY DEF ProgressKept, SucceededRanAll
<1> QED
  BY <1>1, <1>2, <1>3, PTL DEF Spec

-----------------------------------------------------------------------------
(* InStep *)

(* A transition leaves its call where the state it found, or saved, fits. *)
LEMMA ReadFits ==
    ASSUME NEW r \in Runs, operation[r] \in Operation, run[r].pc \in DOMAIN Goal,
           Fits(run[r].pc, operation[r].state)
    PROVE /\ Fits(ReadNext(r), operation[r].state)
          /\ ReadNext(r) \notin Unborn
          /\ ReadNext(r) = "done" => operation[r].state \notin {"succeeded", "failed"}
<1>1. operation[r].state \in {"running", "verifying", "queued", "cancelling", "cancelled"}
  BY DEF Fits, Goal, Unborn, Mark
<1> DEFINE pc == run[r].pc
           state == operation[r].state
<1>2. CASE state = Goal[pc]
  <2>1. ReadNext(r) = Resume[pc]
    BY <1>2 DEF ReadNext
  <2> QED
    BY <1>2, <2>1 DEF Fits, Goal, Resume, Unborn, InLoop, Mark
<1>3. CASE state # Goal[pc] /\ Goal[pc] \notin TRANSITIONS[state]
  <2>1. ReadNext(r) = Throw[pc]
    BY <1>3 DEF ReadNext
  <2>2. /\ pc = "toRunning" => state # "queued"
        /\ pc = "toFailed" => state \notin {"running", "verifying"}
    BY <1>3 DEF Goal, TRANSITIONS, OperationState
  <2> QED
    BY <1>1, <2>1, <2>2 DEF Fits, Goal, Throw, Unborn, InLoop, Mark
<1>4. CASE state # Goal[pc] /\ Goal[pc] \in TRANSITIONS[state]
  <2>1. ReadNext(r) = pc
    BY <1>4 DEF ReadNext
  <2> QED
    BY <2>1 DEF Goal, Unborn
<1> QED
  BY <1>2, <1>3, <1>4

LEMMA WriteFits ==
    ASSUME NEW pc \in DOMAIN Goal
    PROVE /\ Fits(Resume[pc], Goal[pc])
          /\ Resume[pc] \notin Unborn
          /\ Resume[pc] = "done" => Goal[pc] \notin {"succeeded", "failed"}
BY DEF Fits, Goal, Resume, Unborn, InLoop, Mark

(* Another run of the same plan stays one. *)
LEMMA SharedKept ==
    ASSUME Typed, NEW r \in Runs, Shared(r), run'[r].plan = run[r].plan,
           \A q \in Runs : run[q].pc # "idle" =>
               run'[q].pc # "idle" /\ run'[q].plan = run[q].plan
    PROVE Shared(r)'
<1>1. PICK q \in Runs \ {r} : run[q] # Idle /\ run[q].plan = run[r].plan
  BY DEF Shared
<1>2. run[q].pc # "idle"
  BY <1>1 DEF Typed, TypeOK, Run, RunPc, Goal, Mark
<1> QED
  BY <1>1, <1>2 DEF Shared, Idle

(* A call moves on, and may save its operation; the plan stays. *)
LEMMA StepMoved ==
    ASSUME Typed, InStep, NEW r \in Runs, run[r].pc # "idle",
           run'[r].pc # "idle", run'[r].plan = run[r].plan,
           \A q \in Runs : q # r => run'[q] = run[q] /\ operation'[q] = operation[q],
           Fits(run'[r].pc, operation'[r].state),
           run'[r].pc \in Unborn => run[r].pc \in Unborn,
           run'[r].pc = "done" => operation'[r].state \notin {"succeeded", "failed"},
           UNCHANGED <<plan, cancel>>
    PROVE InStep'
<1>1. ASSUME NEW q \in Runs, Shared(q), q # r
      PROVE Shared(q)'
  BY <1>1, SharedKept
<1>2. ASSUME NEW q \in Runs
      PROVE /\ Fits(run'[q].pc, operation'[q].state)
            /\ run'[q].pc = "done" /\ operation'[q].state \in {"succeeded", "failed"} =>
                 Shared(q)' \/ plan'[run'[q].plan].status # "running"
  BY <1>1 DEF InStep
<1>3. ASSUME NEW c \in Cancels, cancel'[c].pc # "idle"
      PROVE run'[cancel'[c].run].pc \notin Unborn
  <2>1. cancel[c].run \in Runs /\ run[cancel[c].run].pc \notin Unborn
    BY <1>3 DEF InStep, Typed, TypeOK, CancelCall, Idle
  <2> QED
    BY <1>3, <2>1
<1> QED
  BY <1>2, <1>3 DEF InStep

(* The usual move, which saves nothing. *)
LEMMA StepGoes ==
    ASSUME Typed, InStep, NEW r \in Runs, NEW pc, run[r].pc # "idle", Goto(r, pc),
           UNCHANGED <<plan, operation, cancel>>, pc # "idle",
           Fits(pc, operation[r].state),
           pc \in Unborn => run[r].pc \in Unborn,
           pc = "done" => operation[r].state \notin {"succeeded", "failed"}
    PROVE InStep'
<1>1. /\ run'[r].pc = pc /\ run'[r].plan = run[r].plan
      /\ \A q \in Runs : q # r => run'[q] = run[q]
  BY GotoEffect DEF Run
<1> QED
  BY <1>1, StepMoved

(* A call records the status of its plan.  That takes nothing from the others:
   while it is there they share the plan. *)
LEMMA StepMarks ==
    ASSUME Typed, InStep, NEW r \in Runs, NEW pc, NEW s, run[r].pc # "idle", Goto(r, pc),
           plan' = [plan EXCEPT ![run[r].plan].status = s],
           UNCHANGED <<operation, cancel>>, pc # "idle",
           Fits(pc, operation[r].state),
           pc \in Unborn => run[r].pc \in Unborn,
           pc = "done" => s # "running"
    PROVE InStep'
<1>1. /\ run'[r].pc = pc /\ run'[r].plan = run[r].plan /\ run[r].plan \in Plans
      /\ run[r] \in Run
      /\ \A q \in Runs : q # r => run'[q] = run[q]
  BY GotoEffect DEF Run
<1>2. /\ plan'[run[r].plan].status = s
      /\ \A p \in Plans : p # run[r].plan => plan'[p] = plan[p]
  BY <1>1 DEF Typed, TypeOK
<1>3. ASSUME NEW q \in Runs, q # r, run'[q].pc = "done",
             operation'[q].state \in {"succeeded", "failed"}
      PROVE Shared(q)' \/ plan'[run'[q].plan].status # "running"
  <2>1. run[q] \in Run
    BY <1>1, <1>3, RunRecord
  <2>2. CASE run[q].plan = run[r].plan
    BY <1>1, <1>3, <2>2 DEF Shared, Idle
  <2>3. CASE run[q].plan # run[r].plan
    <3>1. Shared(q) \/ plan[run[q].plan].status # "running"
      BY <1>1, <1>3 DEF InStep
    <3>2. Shared(q) => Shared(q)'
      BY <1>1, <1>3, SharedKept
    <3> QED
      BY <1>1, <1>2, <1>3, <2>1, <2>3, <3>1, <3>2 DEF Run
  <2> QED
    BY <2>2, <2>3
<1>4. ASSUME NEW q \in Runs
      PROVE /\ Fits(run'[q].pc, operation'[q].state)
            /\ run'[q].pc = "done" /\ operation'[q].state \in {"succeeded", "failed"} =>
                 Shared(q)' \/ plan'[run'[q].plan].status # "running"
  BY <1>1, <1>2, <1>3 DEF InStep
<1>5. ASSUME NEW c \in Cancels, cancel'[c].pc # "idle"
      PROVE run'[cancel'[c].run].pc \notin Unborn
  <2>1. cancel[c].run \in Runs /\ run[cancel[c].run].pc \notin Unborn
    BY <1>5 DEF InStep, Typed, TypeOK, CancelCall, Idle
  <2> QED
    BY <1>1, <1>5, <2>1
<1> QED
  BY <1>4, <1>5 DEF InStep

LEMMA InStepInit == Init => InStep
BY DEF Init, InStep, Fits, Unborn, NoOperation, Idle

LEMMA InStepNext ==
    ASSUME Typed, InStep, [Next]_vars
    PROVE InStep'
<1>0. \A q \in Runs : Fits(run[q].pc, operation[q].state)
  BY DEF InStep
<1>1. CASE UNCHANGED vars
  BY <1>1 DEF InStep, Shared, vars
<1>2. ASSUME NEW p \in Plans, CreatePlan(p)
      PROVE InStep'
  <2>1. \A q \in Plans : plan'[q].status = "running" => plan[q].status = "running"
    BY <1>2 DEF CreatePlan, Typed, TypeOK
  <2>2. \A r \in Runs : run[r].pc = "done" => run[r].plan \in Plans
    BY RunRecord DEF Run
  <2> QED
    BY <1>2, <2>1, <2>2 DEF CreatePlan, InStep, Shared, callVars
<1>3. ASSUME NEW p \in Plans, RequestForPlan(p)
      PROVE InStep'
  BY <1>3 DEF RequestForPlan, InStep, Shared, callVars
<1>4. ASSUME NEW p \in Plans, WindowElapses(p)
      PROVE InStep'
  BY <1>4 DEF WindowElapses, InStep, Shared, callVars
<1>5. ASSUME NEW d \in Decisions, NEW p \in Plans,
             NEW v \in {"approved", "denied", "expired"}, Decide(d, p, v)
      PROVE InStep'
  BY <1>5 DEF Decide, InStep, Shared
<1>6. ASSUME NEW d \in Decisions, DecideRead(d)
      PROVE InStep'
  BY <1>6 DEF DecideRead, InStep, Shared
<1>7. ASSUME NEW d \in Decisions, DecideWrite(d)
      PROVE InStep'
  BY <1>7 DEF DecideWrite, InStep, Shared
<1>8. ASSUME NEW r \in Runs, NEW p \in Plans, StartRun(r, p)
      PROVE InStep'
  <2>1. /\ run[r] = Idle
        /\ run'[r].pc \in {"needApproval", "requireExecutable"}
        /\ \A q \in Runs : q # r => run'[q] = run[q]
        /\ UNCHANGED <<plan, operation, cancel>>
    BY <1>8 DEF StartRun, Typed, TypeOK, callVars
  <2>2. Fits(run'[r].pc, operation[r].state)
    BY <1>0, <2>1 DEF Fits, Unborn, Idle, InLoop, Mark
  <2>3. ASSUME NEW q \in Runs, Shared(q), q # r
        PROVE Shared(q)'
    <3>1. PICK o \in Runs \ {q} : run[o] # Idle /\ run[o].plan = run[q].plan
      BY <2>3 DEF Shared
    <3> QED
      BY <2>1, <2>3, <3>1 DEF Shared
  <2>4. \A q \in Runs :
          /\ Fits(run'[q].pc, operation'[q].state)
          /\ run'[q].pc = "done" /\ operation'[q].state \in {"succeeded", "failed"} =>
               Shared(q)' \/ plan'[run'[q].plan].status # "running"
    BY <2>1, <2>2, <2>3 DEF InStep
  <2>5. ASSUME NEW c \in Cancels, cancel'[c].pc # "idle"
        PROVE run'[cancel'[c].run].pc \notin Unborn
    <3>1. cancel[c].run \in Runs /\ run[cancel[c].run].pc \notin Unborn
      BY <2>1, <2>5 DEF InStep, Typed, TypeOK, CancelCall, Idle
    <3>2. cancel[c].run # r
      BY <2>1, <3>1 DEF Idle, Unborn
    <3> QED
      BY <2>1, <3>1, <3>2
  <2> QED
    BY <2>4, <2>5 DEF InStep
<1>9. ASSUME NEW r \in Runs, RequireApprovedForPlan(r)
      PROVE InStep'
  BY <1>0, <1>9, StepGoes DEF RequireApprovedForPlan, Fits, Unborn, InLoop, Mark, callVars
<1>10. ASSUME NEW r \in Runs, SetApproved(r)
      PROVE InStep'
  BY <1>0, <1>10, StepMarks DEF SetApproved, Fits, Unborn, InLoop, Mark, callVars
<1>11. ASSUME NEW r \in Runs, RequireExecutable(r)
      PROVE InStep'
  BY <1>0, <1>11, StepGoes DEF RequireExecutable, Fits, Unborn, InLoop, Mark, callVars
<1>12. ASSUME NEW r \in Runs, CreateOperation(r)
      PROVE InStep'
  <2>1. /\ operation'[r].state = "queued"
        /\ \A q \in Runs : q # r => operation'[q] = operation[q]
    BY <1>12 DEF CreateOperation, Typed, TypeOK
  <2>2. /\ run[r].pc = "create" /\ run'[r].pc = "count" /\ run'[r].plan = run[r].plan
        /\ \A q \in Runs : q # r => run'[q] = run[q]
    BY <1>12, GotoEffect DEF CreateOperation, Run
  <2>3. Fits("count", "queued") /\ "count" \notin Unborn
    BY DEF Fits, Unborn
  <2> QED
    BY <1>12, <2>1, <2>2, <2>3, StepMoved DEF CreateOperation, callVars
<1>13. ASSUME NEW r \in Runs, CountOperation(r)
      PROVE InStep'
  BY <1>0, <1>13, StepGoes DEF CountOperation, Fits, Unborn, InLoop, Mark, callVars
<1>14. ASSUME NEW r \in Runs, BeginPlan(r)
      PROVE InStep'
  BY <1>0, <1>14, StepMarks DEF BeginPlan, Fits, Unborn, InLoop, Mark, callVars
<1>15. ASSUME NEW r \in Runs, CheckStep(r)
      PROVE InStep'
  BY <1>0, <1>15, StepGoes DEF CheckStep, Fits, Unborn, InLoop, Mark, callVars
<1>16. ASSUME NEW r \in Runs, TransitionRead(r)
      PROVE InStep'
  <2>1. /\ run[r].pc \in DOMAIN Goal /\ run'[r].pc = ReadNext(r)
        /\ run'[r].plan = run[r].plan
        /\ \A q \in Runs : q # r => run'[q] = run[q]
        /\ UNCHANGED <<plan, operation, cancel>>
    BY <1>16, ReadEffect, ZenonT(40) DEF TransitionRead, callVars
  <2>2. operation[r] \in Operation
    BY DEF Typed, TypeOK
  <2>3. /\ Fits(ReadNext(r), operation[r].state)
        /\ ReadNext(r) \notin Unborn
        /\ ReadNext(r) = "done" => operation[r].state \notin {"succeeded", "failed"}
    BY <1>0, <2>1, <2>2, ReadFits
  <2>4. run[r].pc # "idle" /\ ReadNext(r) # "idle"
    BY <2>1, <2>3 DEF Goal, Unborn
  <2>5. \A q \in Runs : q # r => run'[q] = run[q] /\ operation'[q] = operation[q]
    BY <2>1
  <2>6. /\ Fits(run'[r].pc, operation'[r].state)
        /\ run'[r].pc = "done" => operation'[r].state \notin {"succeeded", "failed"}
        /\ run'[r].pc \notin Unborn \cup {"idle"}
    BY <2>1, <2>3, <2>4
  <2> QED
    BY <2>1, <2>4, <2>5, <2>6, StepMoved
<1>17. ASSUME NEW r \in Runs, TransitionWrite(r)
      PROVE InStep'
  <2>1. /\ run[r].pc \in DOMAIN Goal /\ run'[r].pc = Resume[run[r].pc]
        /\ run'[r].plan = run[r].plan
        /\ \A q \in Runs : q # r => run'[q] = run[q]
        /\ UNCHANGED <<plan, cancel>>
    BY <1>17, WriteEffect DEF TransitionWrite, callVars
  <2>2. /\ operation'[r].state = Goal[run[r].pc]
        /\ \A q \in Runs : q # r => operation'[q] = operation[q]
    BY <1>17 DEF TransitionWrite, Typed, TypeOK
  <2>3. /\ Fits(Resume[run[r].pc], Goal[run[r].pc])
        /\ Resume[run[r].pc] \notin Unborn
        /\ Resume[run[r].pc] = "done" => Goal[run[r].pc] \notin {"succeeded", "failed"}
    BY <2>1, WriteFits
  <2>4. run[r].pc # "idle" /\ Resume[run[r].pc] # "idle"
    BY <2>1, <2>3 DEF Goal, Unborn
  <2> QED
    BY <2>1, <2>2, <2>3, <2>4, StepMoved
<1>18. ASSUME NEW r \in Runs, ExecuteReturns(r)
      PROVE InStep'
  <2>1. run[r] \in Run /\ run[r].pc = "executing"
    BY <1>18, RunRecord DEF ExecuteReturns
  <2>2. /\ run'[r].pc \in {"toVerifying", "check", "toFailed"}
        /\ run'[r].plan = run[r].plan
        /\ \A q \in Runs : q # r => run'[q] = run[q]
        /\ UNCHANGED <<plan, operation, cancel>>
    BY <1>18, <2>1 DEF ExecuteReturns, Goto, Run, Typed, TypeOK, callVars
  <2>3. Fits(run'[r].pc, operation[r].state)
    BY <1>0, <2>1, <2>2 DEF Fits, Unborn, InLoop, Mark
  <2> QED
    BY <2>1, <2>2, <2>3, StepMoved DEF Unborn
<1>19. ASSUME NEW r \in Runs, MarkPlan(r)
      PROVE InStep'
  <2>1. Mark[run[r].pc] # "running" /\ run[r].pc # "idle"
    BY <1>19 DEF MarkPlan, Mark
  <2>2. Fits("done", operation[r].state)
    BY <1>0, <1>19 DEF MarkPlan, Fits, Unborn, InLoop, Mark
  <2> QED
    BY <1>19, <2>1, <2>2, StepMarks DEF MarkPlan, Unborn, callVars
<1>20. ASSUME NEW r \in Runs, Crash(r)
      PROVE InStep'
  BY <1>20, StepGoes DEF Crash, Fits, Unborn, callVars
<1>21. ASSUME NEW c \in Cancels, NEW r \in Runs, RequestCancel(c, r)
      PROVE InStep'
  <2>1. run[r].pc \notin Unborn
    BY <1>0, <1>21 DEF RequestCancel, Fits, Unborn, InLoop, Mark, Ended
  <2> QED
    BY <1>21, <2>1 DEF RequestCancel, InStep, Shared, Typed, TypeOK
<1>22. ASSUME NEW c \in Cancels, CancelRead(c)
      PROVE InStep'
  BY <1>22 DEF CancelRead, InStep, Shared, Typed, TypeOK, CancelCall, Idle
<1>23. ASSUME NEW c \in Cancels, CancelWrite(c)
      PROVE InStep'
  <2>1. /\ cancel[c] \in CancelCall
        /\ run[cancel[c].run].pc \notin Unborn
    BY <1>23 DEF CancelWrite, InStep, Typed, TypeOK, CancelCall, Idle
  <2>2. \A r \in Runs :
          \/ operation'[r] = operation[r]
          \/ /\ operation'[r].state \in {"cancelling", "cancelled"}
             /\ run[r].pc \notin Unborn
    BY <1>23, <2>1 DEF CancelWrite, CancelCall, Typed, TypeOK
  <2>3. \A r \in Runs : Fits(run[r].pc, operation'[r].state)
    BY <1>0, <2>2 DEF Fits
  <2>4. cancel' = [cancel EXCEPT ![c] = Idle] /\ UNCHANGED <<run, plan>>
    BY <1>23 DEF CancelWrite
  <2> QED
    BY <2>2, <2>3, <2>4 DEF InStep, Shared, Idle, Typed, TypeOK
<1> QED
  BY <1>1, <1>2, <1>3, <1>4, <1>5, <1>6, <1>7, <1>8, <1>9, <1>10, <1>11, <1>12,
     <1>13, <1>14, <1>15, <1>16, <1>17, <1>18, <1>19, <1>20, <1>21, <1>22, <1>23
  DEF Next, RunStep

(* A call that has returned leaves an operation that has ended, or one that is
   being cancelled; and a plan that is not running, unless its run was cancelled
   or another one goes on with it. *)
THEOREM ReturnSettles == Spec => []SettledAtReturn
<1>1. Init => Typed /\ InStep
  BY TypedInit, InStepInit
<1>2. Typed /\ InStep /\ [Next]_vars => (Typed /\ InStep)'
  BY TypedNext, InStepNext
<1>3. InStep => SettledAtReturn
  BY DEF InStep, Fits, Unborn, InLoop, Mark, SettledAtReturn, Shared, Ended
<1> QED
  BY <1>1, <1>2, <1>3, PTL DEF Spec

=============================================================================
