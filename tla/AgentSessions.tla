---------------------------- MODULE AgentSessions ----------------------------
(***************************************************************************)
(* One agent session: its row in agent_sessions, the calls that change it  *)
(* (AgentSessionManager), and the emergency stop (AgentSafetyState).       *)
(*                                                                         *)
(* Every method of AgentSessionManager reads the whole record, changes     *)
(* some fields and saves the whole record, in two database round trips     *)
(* with no transaction and no version check.  A call is therefore a Read   *)
(* that keeps the row and a Write that saves it changed; calls of one      *)
(* process interleave at every await, calls of two processes at any point. *)
(*                                                                         *)
(* The emergency stop lives twice: in agent_settings, and in the memory of *)
(* each process, which loads it once when it starts.                       *)
(***************************************************************************)
EXTENDS AgentPolicy, Integers, Sequences

CONSTANTS
    Procs,        \* vops processes: dashboard, `vops mcp serve`, CLI
    Calls,        \* calls that can be in flight at once
    Ops,          \* the operations the environment asks for
    DefaultPermissions,
    Kinds,        \* is the session a conditional intent's?  {FALSE}, {TRUE}, both
    MaxOperations,   \* limits.maxOperations of the session
    MaxTime,      \* bound on the clock
    MaxLife,      \* the longest expiry a session is created with (12 hours)
    MaxExtension, \* the longest expiry of a conditional intent (30 days)
    MaxSpend,     \* bound on the budgets a session is created with
    MaxBought,    \* bound on purchases, for TLC
    MaxCount      \* bound on counted operations, for TLC

VARIABLES
    session,   \* the row, or NoSession
    now,       \* the clock
    call,      \* the calls in flight
    setting,   \* agent_settings: is the emergency stop active?
    stopped,   \* the same, as each process remembers it
    bought,    \* history: what the provider has charged for, EUR/month
    taken,     \* history: capabilities taken away and not granted since
    ended,     \* history: a stop-all completed, nobody has resumed since
    pressed    \* history: the last emergency request to complete

vars == <<session, now, call, setting, stopped, bought, taken, ended, pressed>>

NoSession == [status |-> "none"]
Idle == [pc |-> "idle"]

SessionStatus == {"active", "paused", "revoked", "expired"}

Session ==
    [status : SessionStatus, conditional : BOOLEAN,
     targets : SUBSET Targets, environments : SUBSET Environments,
     allow : SUBSET Patterns, allowWithinApprovedPlan : SUBSET Patterns,
     requireApproval : SUBSET Patterns, deny : SUBSET Patterns,
     expires : Nat, count : Nat, cap : Nat, spend : Nat]

(* What a call is asked to do.  A narrowing leaves a field alone with <<>>; the
   `to` of a stop is the status it is about to set. *)
Operation ==
    [kind : {"status"}, to : SessionStatus]
    \cup [kind : {"increment", "clear"}]
    \cup [kind : {"spend"}, eur : Nat]
    \cup [kind : {"extend"}, expires : Nat]
    \cup [kind : {"grant"}, capability : Capabilities,
          target : Targets \cup {NoTarget}, environments : SUBSET Environments]
    \cup [kind : {"narrow"}, capabilities : SUBSET Capabilities,
          targets : Seq(SUBSET Targets), expires : Seq(Nat), cap : Seq(Nat)]
    \cup [kind : {"stop", "revokeAll"}, to : {"revoked", "expired"}]

ASSUME OpsAssumption == Ops \subseteq Operation

Permissions ==
    [allow : SUBSET Patterns, allowWithinApprovedPlan : SUBSET Patterns,
     requireApproval : SUBSET Patterns, deny : SUBSET Patterns]

ASSUME PermissionsAssumption == DefaultPermissions \in Permissions

ASSUME BoundsAssumption ==
    /\ {MaxTime, MaxLife, MaxSpend} \subseteq Nat
    /\ Kinds \subseteq BOOLEAN

CallPc == {"save", "list", "relist", "read", "write", "buy"}

Call == [pc : CallPc, proc : Procs, op : Operation, row : {NoSession} \cup Session]

TypeOK ==
    /\ session \in {NoSession} \cup Session
    /\ now \in 0..MaxTime
    /\ call \in [Calls -> {Idle} \cup Call]
    /\ setting \in BOOLEAN
    /\ stopped \in [Procs -> BOOLEAN]
    /\ bought \in Nat
    /\ taken \subseteq Capabilities
    /\ ended \in BOOLEAN
    /\ pressed \in {"none", "stop", "clear"}

Init ==
    /\ session = NoSession
    /\ now = 0
    /\ call = [c \in Calls |-> Idle]
    /\ setting = FALSE
    /\ stopped = [p \in Procs |-> FALSE]
    /\ bought = 0
    /\ taken = {}
    /\ ended = FALSE
    /\ pressed = "none"

-----------------------------------------------------------------------------
(* The operations, as the records the environment passes in Ops *)

SetStatus(status) == [kind |-> "status", to |-> status]
IncrementOperation == [kind |-> "increment"]
CommitProviderSpend(eur) == [kind |-> "spend", eur |-> eur]
ExtendForConditionalIntent(t) == [kind |-> "extend", expires |-> t]
Grant(capability, target) ==
    [kind |-> "grant", capability |-> capability, target |-> target,
     environments |-> {}]
Narrow(capabilities, targets, expires, cap) ==
    [kind |-> "narrow", capabilities |-> capabilities, targets |-> targets,
     expires |-> expires, cap |-> cap]
StopAll == [kind |-> "stop", to |-> "revoked"]
RevokeAll == [kind |-> "revokeAll", to |-> "revoked"]
ClearStop == [kind |-> "clear"]

(* authenticate: the conditions under which a token is accepted. *)
Admits(s) ==
    /\ s # NoSession
    /\ now < s.expires
    /\ s.status = "active"
    /\ s.count < MaxOperations

(* create: the defaults and clamps of the row a new session starts with. *)
Create ==
    /\ session = NoSession
    /\ \E targets \in SUBSET Targets, cap \in 0..MaxSpend, life \in 1..MaxLife,
          conditional \in Kinds :
         session' = [status |-> "active", conditional |-> conditional,
                     targets |-> targets, environments |-> Environments,
                     allow |-> DefaultPermissions.allow,
                     allowWithinApprovedPlan |->
                        DefaultPermissions.allowWithinApprovedPlan,
                     requireApproval |-> DefaultPermissions.requireApproval,
                     deny |-> DefaultPermissions.deny,
                     expires |-> now + life, count |-> 0, cap |-> cap,
                     spend |-> 0]
    /\ UNCHANGED <<now, call, setting, stopped, bought, taken, ended, pressed>>

(* What a caller knows when it makes the call.  resume has looked at the expiry
   in a read of its own; list and authenticate expire only what is overdue.  An
   operation is counted, and a purchase made, some time after authenticate let
   the call through, whatever the row says by then. *)
MayBegin(op) ==
    CASE op = SetStatus("active")  -> now < session.expires
      [] op = SetStatus("expired") -> /\ session.expires <= now
                                      /\ session.status # "expired"
      [] op.kind = "increment"     -> session.count < MaxCount
      [] op.kind = "spend"         -> bought + op.eur <= MaxBought
      [] OTHER                     -> TRUE

(* Variant: the stop is kept in memory only. *)
FirstPcInMemory(p, op) ==
    CASE op.kind \in {"stop", "revokeAll"} -> "list"
      [] op.kind = "clear"                 -> "save"
      [] OTHER                             -> "read"

FirstPc(p, op) ==
    CASE op.kind = "stop"      -> IF stopped[p] THEN "list" ELSE "save"
      [] op.kind = "clear"     -> "save"
      [] op.kind = "revokeAll" -> "list"
      [] OTHER                 -> "read"

(* A call arrives.  Stop and clear change this process's memory before their
   first await; activate does nothing more when the process is stopped. *)
Begin(c, p, op) ==
    /\ session # NoSession
    /\ call[c] = Idle
    /\ MayBegin(op)
    /\ call' = [call EXCEPT ![c] = [pc |-> FirstPc(p, op), proc |-> p, op |-> op,
                                    row |-> NoSession]]
    /\ stopped' = CASE op.kind = "stop"  -> [stopped EXCEPT ![p] = TRUE]
                    [] op.kind = "clear" -> [stopped EXCEPT ![p] = FALSE]
                    [] OTHER             -> stopped
    /\ ended' = (ended /\ op \notin {SetStatus("active"), SetStatus("paused")})
    /\ UNCHANGED <<session, now, setting, bought, taken, pressed>>

(* setSetting; a stop goes on to sessions.stopAll. *)
Save(c) ==
    LET stop == call[c].op.kind = "stop" IN
    /\ call[c].pc = "save"
    /\ setting' = stop
    /\ call' = [call EXCEPT ![c] = IF stop THEN [@ EXCEPT !.pc = "list"] ELSE Idle]
    /\ pressed' = IF stop THEN pressed ELSE "clear"
    /\ UNCHANGED <<session, now, stopped, bought, taken, ended>>

Completed(c) == IF call[c].op.kind = "stop" THEN "stop" ELSE pressed

(* stopAll calls list, which expires an active session that is overdue ... *)
List(c) ==
    LET overdue == session.status = "active" /\ session.expires <= now IN
    /\ call[c].pc = "list"
    /\ call' = [call EXCEPT ![c].pc = IF overdue THEN "read" ELSE "relist",
                            ![c].op.to = IF overdue THEN "expired" ELSE @]
    /\ UNCHANGED <<session, now, setting, stopped, bought, taken, ended, pressed>>

(* Variant: only active sessions are revoked. *)
RelistActive(c) ==
    LET live == session.status = "active" IN
    /\ call[c].pc = "relist"
    /\ call' = [call EXCEPT ![c] =
                  IF live THEN [@ EXCEPT !.pc = "read", !.op.to = "revoked"]
                          ELSE Idle]
    /\ ended' = (ended \/ ~live)
    /\ pressed' = IF live THEN pressed ELSE Completed(c)
    /\ UNCHANGED <<session, now, setting, stopped, bought, taken>>

(* ... and reads again; what is active or paused then is revoked, by a
   setStatus that reads the row once more. *)
Relist(c) ==
    LET live == session.status \in {"active", "paused"} IN
    /\ call[c].pc = "relist"
    /\ call' = [call EXCEPT ![c] =
                  IF live THEN [@ EXCEPT !.pc = "read", !.op.to = "revoked"]
                          ELSE Idle]
    /\ ended' = (ended \/ ~live)
    /\ pressed' = IF live THEN pressed ELSE Completed(c)
    /\ UNCHANGED <<session, now, setting, stopped, bought, taken>>

(* Variant: each purchase is compared with the cap on its own. *)
RefusedOneByOne(op) ==
    \/ op.kind = "spend" /\ op.eur > session.cap
    \/ /\ op.kind = "extend"
       /\ ~session.conditional

(* show, and the checks a method makes on the row before it saves. *)
Refused(op) ==
    \/ op.kind = "spend" /\ session.spend + op.eur > session.cap
    \/ /\ op.kind = "extend"
       /\ \/ ~session.conditional
          \/ op.expires <= now
          \/ op.expires - now > MaxExtension

Read(c) ==
    /\ call[c].pc = "read"
    /\ call' = [call EXCEPT ![c] = IF Refused(call[c].op) THEN Idle
                                   ELSE [@ EXCEPT !.pc = "write", !.row = session]]
    /\ UNCHANGED <<session, now, setting, stopped, bought, taken, ended, pressed>>

(* Variant: the purchase is not booked. *)
UpdatedUnbooked(op, row) ==
    CASE op.kind \in {"status", "stop", "revokeAll"}
                               -> [row EXCEPT !.status = op.to]
      [] op.kind = "increment" -> [row EXCEPT !.count = @ + 1]
      [] op.kind = "spend"     -> row
      [] op.kind = "extend"    -> [row EXCEPT !.expires = op.expires]
      [] op.kind = "grant"     -> GrantScope(row, op)
      [] op.kind = "narrow"    -> NarrowScope(row, op)

(* The record a method saves, from the one it read. *)
Updated(op, row) ==
    CASE op.kind \in {"status", "stop", "revokeAll"}
                               -> [row EXCEPT !.status = op.to]
      [] op.kind = "increment" -> [row EXCEPT !.count = @ + 1]
      [] op.kind = "spend"     -> [row EXCEPT !.spend = @ + op.eur]
      [] op.kind = "extend"    -> [row EXCEPT !.expires = op.expires]
      [] op.kind = "grant"     -> GrantScope(row, op)
      [] op.kind = "narrow"    -> NarrowScope(row, op)

Write(c) ==
    LET op == call[c].op
        last == op.kind \in {"stop", "revokeAll"} /\ op.to = "revoked"
        next == CASE op.kind = "spend" -> "buy"
                  [] op.kind \in {"stop", "revokeAll"} /\ ~last -> "relist"
                  [] OTHER -> "idle"
    IN /\ call[c].pc = "write"
       /\ session' = Updated(op, call[c].row)
       /\ call' = [call EXCEPT ![c] =
                     IF next = "idle" THEN Idle
                     ELSE [@ EXCEPT !.pc = next, !.row = NoSession]]
       /\ taken' = CASE op.kind = "narrow" -> taken \cup op.capabilities
                     [] op.kind = "grant"  -> taken \ {op.capability}
                     [] OTHER              -> taken
       /\ ended' = (ended \/ last)
       /\ pressed' = IF last THEN Completed(c) ELSE pressed
       /\ UNCHANGED <<now, setting, stopped, bought>>

(* provision: the debit is in the row, now the provider is asked. *)
Buy(c) ==
    /\ call[c].pc = "buy"
    /\ bought' \in {bought, bought + call[c].op.eur}
    /\ call' = [call EXCEPT ![c] = Idle]
    /\ UNCHANGED <<session, now, setting, stopped, taken, ended, pressed>>

(* The process exits, with its calls, and starts again: onModuleInit. *)
Restart(p) ==
    /\ call' = [c \in Calls |-> IF call[c] # Idle /\ call[c].proc = p
                              THEN Idle ELSE call[c]]
    /\ stopped' = [stopped EXCEPT ![p] = setting]
    /\ UNCHANGED <<session, now, setting, bought, taken, ended, pressed>>

Tick ==
    /\ now < MaxTime
    /\ now' = now + 1
    /\ UNCHANGED <<session, call, setting, stopped, bought, taken, ended, pressed>>

Next ==
    \/ Create
    \/ \E c \in Calls :
         \/ \E p \in Procs, op \in Ops : Begin(c, p, op)
         \/ Save(c) \/ List(c) \/ Relist(c) \/ Read(c) \/ Write(c) \/ Buy(c)
    \/ \E p \in Procs : Restart(p)
    \/ Tick

Spec == Init /\ [][Next]_vars

-----------------------------------------------------------------------------
(* What is claimed *)

(* A capability taken from the session stays out of reach until it is granted
   again: whatever the request, and even as a step of an approved plan, the
   policy denies it (narrowScope moves it to `deny` rather than dropping it). *)
TakenStaysOut ==
    \A request \in Request, stop, planApproved \in BOOLEAN :
        request.capability \in taken =>
            Evaluate(session, request, stop, planApproved) = "deny"

(* Money is in the row before it is spent: a purchase whose answer is lost, or
   whose process dies, is still booked (provision, commitProviderSpend). *)
DebitBeforePurchase == TypeOK /\ (bought > 0 => bought <= session.spend)

(* A booking never takes the session past the budget it has at that moment,
   however the budget was narrowed before (commitProviderSpend). *)
BookedWithinCap ==
    [][session # NoSession /\ session'.spend > session.spend =>
          session'.spend <= session'.cap]_vars

(* stop-all and revoke-all leave no live session behind, and none comes back
   unless somebody pauses or resumes it by name (stopAll). *)
StopAllEndsSession == ended => session.status \in {"revoked", "expired"}

(* The emergency stop outlives the process: once the last request to complete
   is a stop, the setting is on, so that every later start is stopped, and the
   process that was asked is stopped now (activate, onModuleInit). *)
StopPersists ==
    (pressed = "stop" /\ \A c \in Calls : call[c] = Idle) =>
        setting /\ \E p \in Procs : stopped[p]

=============================================================================
