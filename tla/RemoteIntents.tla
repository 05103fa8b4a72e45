----------------------------- MODULE RemoteIntents -----------------------------
(***************************************************************************)
(* Conditional intents: IntentService.  A device signs an action in        *)
(* advance, with a trigger and a deadline; a watcher looks at the catalog  *)
(* every minute and runs the action, once, when the trigger matches.       *)
(*                                                                         *)
(* What may run is decided by three records: the row of the intent, the    *)
(* session made for it (one operation, revoked when the intent ends) and   *)
(* the session's token among the local credentials.  Each update writes    *)
(* the whole row from a copy read earlier, so the status alone protects    *)
(* nothing: a watcher waiting for the catalog writes "active" over a pause *)
(* or a revocation.                                                        *)
(*                                                                         *)
(* Every process that hosts the module runs its own watcher                *)
(* (onApplicationBootstrap), all of them over the same store.              *)
(***************************************************************************)
EXTENDS Naturals, FiniteSets

CONSTANTS
    Intents,
    Watchers,  \* processes, each with its timer
    Calls,     \* pauses and revocations, of an intent or of the device
    Asks,      \* the status each call gives: "paused" or "revoked"
    Scope,     \* the intents each call is about: one, or all of the device
    Null,      \* nothing
    MaxFaults  \* processes that died and store accesses that failed

ASSUME IntentsAssumption ==
    /\ Asks \in [Calls -> {"paused", "revoked"}]
    /\ Scope \in [Calls -> SUBSET Intents]
    /\ Null \notin Intents
    /\ MaxFaults \in Nat

VARIABLES
    row,      \* status of the stored intent
    session,  \* its session: [open, used]
    creating, \* intents whose creation has still to store the token
    secret,   \* intents whose token is stored
    overdue,  \* intents past constraints.expiresAt, the end of the session too
    watcher,  \* the watchers
    call,     \* the calls
    closed,   \* history: intents that were deactivated, session and token
    lost,     \* history: intents a watcher was busy with when its process died
    faults

records == <<row, session, creating, secret>>
history == <<closed, lost>>
vars == <<records, overdue, watcher, call, history, faults>>

Open == {"active", "paused"}
Resting == {"none", "paused", "succeeded", "failed", "revoked", "expired"}
Status == Open \cup Resting \cup {"triggered", "executing"}

Session == [open : BOOLEAN, used : Nat]

(* The awaits of tick, evaluate and execute.                               *)
Pc == {"idle", "next", "catalog", "matched", "triggered", "token", "broker",
       "count", "increment", "run",
       "close", "closing", "failExecution", "fail"}

(* "way" is how the intent being closed came to its end.                   *)
Way == {"expiry", "execution", "executionFailed", "failed"}

Watcher == [pc   : Pc,
            todo : SUBSET Intents,         \* intents the tick listed as active
            now  : SUBSET Intents,         \* those overdue when the tick began
            at   : Intents \cup {Null},
            way  : Way \cup {Null},
            copy : Session \cup {Null}]    \* the session as it was read

Call == [pc   : {"idle", "write", "close", "closing", "done"},
         todo : SUBSET Intents,
         at   : Intents \cup {Null},
         copy : Session \cup {Null}]

Fresh == [pc |-> "idle", todo |-> {}, now |-> {}, at |-> Null, way |-> Null, copy |-> Null]

Init ==
    /\ row = [i \in Intents |-> "none"]
    /\ session = [i \in Intents |-> [open |-> FALSE, used |-> 0]]
    /\ creating = {} /\ secret = {} /\ overdue = {}
    /\ watcher = [w \in Watchers |-> Fresh]
    /\ call = [c \in Calls |-> [pc |-> "idle", todo |-> {}, at |-> Null, copy |-> Null]]
    /\ closed = {} /\ lost = {} /\ faults = 0

At(w, pc) == watcher[w].pc = pc
Its(w) == watcher[w].at
Goto(w, pc) == watcher' = [watcher EXCEPT ![w].pc = pc]
Write(i, status) == row' = [row EXCEPT ![i] = status]

(* Variant: the operations a session has used are not looked at.           *)
UsableUncounted(i) == session[i].open /\ i \notin overdue

(* authenticate lets a token in while the session is open, not expired and *)
(* below its maxOperations of one.                                         *)
Usable(i) == session[i].open /\ session[i].used = 0 /\ i \notin overdue

-------------------------------------------------------------------------------
(* create: nothing of the session, its plan and the approval is reachable  *)
(* before the row is saved.  The token is stored after the row.            *)
Create(i) ==
    /\ row[i] = "none" /\ i \notin overdue
    /\ Write(i, "active")
    /\ session' = [session EXCEPT ![i] = [open |-> TRUE, used |-> 0]]
    /\ creating' = creating \cup {i}
    /\ UNCHANGED <<secret, overdue, watcher, call, history, faults>>

(* setCredentials; the process may die before, and then it never happens.  *)
StoreToken(i) ==
    /\ i \in creating
    /\ creating' = creating \ {i}
    /\ secret' = secret \cup {i}
    /\ UNCHANGED <<row, session, overdue, watcher, call, history, faults>>

-------------------------------------------------------------------------------
(* tick: the single-flight flag is the pc, "idle" when it is down.         *)
Tick(w) ==
    /\ At(w, "idle")
    /\ watcher' = [watcher EXCEPT ![w] = [Fresh EXCEPT
           !.pc = "next", !.now = overdue, !.todo = {i \in Intents : row[i] = "active"}]]
    /\ UNCHANGED <<records, overdue, call, history, faults>>

TickEnds(w) ==
    /\ At(w, "next") /\ watcher[w].todo = {}
    /\ watcher' = [watcher EXCEPT ![w] = Fresh]
    /\ UNCHANGED <<records, overdue, call, history, faults>>

Takes(w, i, pc, way) ==
    watcher' = [watcher EXCEPT ![w].pc = pc, ![w].at = i, ![w].way = way, ![w].todo = @ \ {i}]

(* Expired by the clock as it was when the tick began.                     *)
Expire(w) ==
    /\ At(w, "next")
    /\ \E i \in watcher[w].todo \cap watcher[w].now :
           /\ Write(i, "expired")
           /\ Takes(w, i, "close", "expiry")
    /\ UNCHANGED <<session, creating, secret, overdue, call, history, faults>>

Evaluate(w) ==
    /\ At(w, "next")
    /\ \E i \in watcher[w].todo \ watcher[w].now : Takes(w, i, "catalog", Null)
    /\ UNCHANGED <<records, overdue, call, history, faults>>

(* The catalog has answered: lastCheckedAt is saved with the rest of the   *)
(* row as the tick read it, whatever has become of it since.               *)
Checked(w, matched) ==
    /\ At(w, "catalog")
    /\ Write(Its(w), "active")
    /\ watcher' = [watcher EXCEPT ![w].pc = IF matched THEN "matched" ELSE "next",
                                  ![w].at = IF matched THEN @ ELSE Null]
    /\ UNCHANGED <<session, creating, secret, overdue, call, history, faults>>

(* The catalog could not be read: that fails the intent.                   *)
CatalogFails(w) ==
    /\ At(w, "catalog")
    /\ Goto(w, "fail")
    /\ UNCHANGED <<records, overdue, call, history, faults>>

Triggered(w) ==
    /\ At(w, "matched")
    /\ Write(Its(w), "triggered")
    /\ Goto(w, "triggered")
    /\ UNCHANGED <<session, creating, secret, overdue, call, history, faults>>

(* execute reads the token once, after the event of the match.             *)
ReadToken(w) ==
    /\ At(w, "triggered")
    /\ Goto(w, IF Its(w) \in secret THEN "token" ELSE "fail")
    /\ UNCHANGED <<records, overdue, call, history, faults>>

Executing(w) ==
    /\ At(w, "token")
    /\ Write(Its(w), "executing")
    /\ Goto(w, "broker")
    /\ UNCHANGED <<session, creating, secret, overdue, call, history, faults>>

(* The plan is looked up next, and refused unless it is approved and not   *)
(* yet running.                                                            *)
Authenticate(w, approved) ==
    /\ At(w, "broker")
    /\ Goto(w, IF Usable(Its(w)) /\ approved THEN "count" ELSE "failExecution")
    /\ UNCHANGED <<records, overdue, call, history, faults>>

(* incrementOperation reads the session and writes all of it back.         *)
ReadCount(w) ==
    /\ At(w, "count")
    /\ watcher' = [watcher EXCEPT ![w].pc = "increment", ![w].copy = session[Its(w)]]
    /\ UNCHANGED <<records, overdue, call, history, faults>>

WriteCount(w) ==
    /\ At(w, "increment")
    /\ session' = [session EXCEPT ![Its(w)] =
           [watcher[w].copy EXCEPT !.used = @ + 1]]
    /\ watcher' = [watcher EXCEPT ![w].pc = "run", ![w].copy = Null]
    /\ UNCHANGED <<row, creating, secret, overdue, call, history, faults>>

(* A step failed or was refused by the policy.                             *)
StepFails(w) ==
    /\ At(w, "run")
    /\ Goto(w, "failExecution")
    /\ UNCHANGED <<records, overdue, call, history, faults>>

-------------------------------------------------------------------------------
(* The catch clause that surrounds each await: in evaluate, or in execute. *)
(* Nothing surrounds the expiry branch and the clause of evaluate.         *)
InEvaluate(w) ==
    \/ watcher[w].pc \in {"matched", "triggered", "token", "failExecution"}
    \/ watcher[w].pc \in {"close", "closing"} /\ watcher[w].way = "executionFailed"

InExecute(w) ==
    \/ watcher[w].pc \in {"broker", "count", "increment", "run"}
    \/ watcher[w].pc \in {"close", "closing"} /\ watcher[w].way = "execution"

Caught(w) ==
    watcher' = [watcher EXCEPT ![w].copy = Null,
                               ![w].pc = IF InExecute(w) THEN "failExecution" ELSE "fail"]

Fault == faults < MaxFaults /\ faults' = faults + 1

-------------------------------------------------------------------------------
(* The end of an intent: its row, the event (see Throw), then deactivate.  *)
Ends(w, from, status, way) ==
    /\ At(w, from)
    /\ Write(Its(w), status)
    /\ watcher' = [watcher EXCEPT ![w].pc = "close", ![w].way = way]
    /\ UNCHANGED <<session, creating, secret, overdue, call, history, faults>>

Succeeded(w) == Ends(w, "run", "succeeded", "execution")
ExecutionFailed(w) == Ends(w, "failExecution", "failed", "executionFailed")

(* Variant: an evaluation that failed closes the intent and leaves its row.*)
FailedUnwritten(w) ==
    /\ At(w, "fail")
    /\ watcher' = [watcher EXCEPT ![w].pc = "close", ![w].way = "failed"]
    /\ UNCHANGED <<records, overdue, call, history, faults>>

Failed(w) == Ends(w, "fail", "failed", "failed")

(* deactivate reads the session to revoke it,                              *)
ReadSession(w) ==
    /\ At(w, "close")
    /\ watcher' = [watcher EXCEPT ![w].pc = "closing", ![w].copy = session[Its(w)]]
    /\ UNCHANGED <<records, overdue, call, history, faults>>

Done(w) ==
    watcher' = [watcher EXCEPT ![w].pc = "next", ![w].at = Null, ![w].way = Null, ![w].copy = Null]

Revoked(copy) == [copy EXCEPT !.open = FALSE]

(* ... writes it back revoked and removes the token.  The device is then   *)
(* notified; looking it up may fail.                                       *)
Deactivate(w) ==
    /\ At(w, "closing")
    /\ session' = [session EXCEPT ![Its(w)] = Revoked(watcher[w].copy)]
    /\ secret' = secret \ {Its(w)}
    /\ closed' = closed \cup {Its(w)}
    /\ \/ Done(w) /\ UNCHANGED faults
       \/ Fault /\ (InEvaluate(w) \/ InExecute(w)) /\ Caught(w)
    /\ UNCHANGED <<row, creating, overdue, call, lost>>

-------------------------------------------------------------------------------
(* A store access or an audit write failed and the surrounding clause      *)
(* catches it.  Where there is none, tick rejects, nobody awaits it, and   *)
(* the process ends: see Crash.                                            *)
Throw(w) ==
    /\ Fault
    /\ InEvaluate(w) \/ InExecute(w)
    /\ ~At(w, "closing")
    /\ Caught(w)
    /\ UNCHANGED <<records, overdue, call, history>>

(* A session that cannot be revoked is passed over.                        *)
RevokeFails(w) ==
    /\ Fault
    /\ At(w, "closing")
    /\ secret' = secret \ {Its(w)}
    /\ Done(w)
    /\ UNCHANGED <<row, session, creating, overdue, call, history>>

(* The process ends, by such a rejection or otherwise, and is started      *)
(* again; the intent it was busy with keeps the status it had.             *)
Crash(w) ==
    /\ Fault
    /\ ~At(w, "idle")
    /\ lost' = IF Its(w) = Null THEN lost ELSE lost \cup {Its(w)}
    /\ watcher' = [watcher EXCEPT ![w] = Fresh]
    /\ UNCHANGED <<records, overdue, call, closed>>

Elapse(i) ==
    /\ row[i] # "none" /\ i \notin overdue
    /\ overdue' = overdue \cup {i}
    /\ UNCHANGED <<records, watcher, call, history, faults>>

-------------------------------------------------------------------------------
(* pause and revoke read one intent and refuse one that is not open;       *)
(* disableForDevice lists those of the device that are.                    *)
Ask(c) ==
    /\ call[c].pc = "idle"
    /\ \E i \in Scope[c] : row[i] # "none"
    /\ call' = [call EXCEPT ![c].pc = "write", ![c].todo = {i \in Scope[c] : row[i] \in Open}]
    /\ UNCHANGED <<records, overdue, watcher, history, faults>>

(* The row is written as it was read, with the status alone changed.       *)
Disable(c) ==
    /\ call[c].pc = "write"
    /\ \E i \in call[c].todo :
           /\ Write(i, Asks[c])
           /\ call' = [call EXCEPT ![c].at = i, ![c].todo = @ \ {i}, ![c].pc =
                  IF Asks[c] = "revoked" THEN "close" ELSE "write"]
    /\ UNCHANGED <<session, creating, secret, overdue, watcher, history, faults>>

CallReads(c) ==
    /\ call[c].pc = "close"
    /\ call' = [call EXCEPT ![c].pc = "closing", ![c].copy = session[call[c].at]]
    /\ UNCHANGED <<records, overdue, watcher, history, faults>>

CallDeactivates(c) ==
    /\ call[c].pc = "closing"
    /\ session' = [session EXCEPT ![call[c].at] = Revoked(call[c].copy)]
    /\ secret' = secret \ {call[c].at}
    /\ closed' = closed \cup {call[c].at}
    /\ call' = [call EXCEPT ![c].pc = "write", ![c].copy = Null]
    /\ UNCHANGED <<row, creating, overdue, watcher, lost, faults>>

(* The loop is over, or an access failed and left the rest as it was.      *)
Returns(c) ==
    /\ call[c].pc = "write" /\ call[c].todo = {}
    /\ call' = [call EXCEPT ![c].pc = "done", ![c].at = Null]
    /\ UNCHANGED <<records, overdue, watcher, history, faults>>

CallThrows(c) ==
    /\ Fault
    /\ call[c].pc \in {"write", "close"}
    /\ call' = [call EXCEPT ![c].pc = "done", ![c].todo = {}, ![c].at = Null]
    /\ UNCHANGED <<records, overdue, watcher, history>>

-------------------------------------------------------------------------------
WatcherStep(w) ==
    \/ Tick(w) \/ TickEnds(w) \/ Expire(w) \/ Evaluate(w)
    \/ Checked(w, TRUE) \/ Checked(w, FALSE) \/ CatalogFails(w)
    \/ Triggered(w) \/ ReadToken(w) \/ Executing(w)
    \/ Authenticate(w, TRUE) \/ Authenticate(w, FALSE)
    \/ ReadCount(w) \/ WriteCount(w)
    \/ StepFails(w)
    \/ Succeeded(w) \/ ExecutionFailed(w) \/ Failed(w)
    \/ ReadSession(w) \/ Deactivate(w)

CallStep(c) ==
    Ask(c) \/ Disable(c) \/ CallReads(c) \/ CallDeactivates(c) \/ Returns(c) \/ CallThrows(c)

Next ==
    \/ \E i \in Intents : Create(i) \/ StoreToken(i) \/ Elapse(i)
    \/ \E w \in Watchers : WatcherStep(w) \/ Throw(w) \/ RevokeFails(w) \/ Crash(w)
    \/ \E c \in Calls : CallStep(c)

Spec == Init /\ [][Next]_vars

(* The timer of a running process fires, whatever a watcher awaits comes,  *)
(* and time passes.                                                        *)
FairSpec ==
    /\ Spec
    /\ \A w \in Watchers : WF_vars(WatcherStep(w))
    /\ \A i \in Intents : WF_vars(Elapse(i))

-------------------------------------------------------------------------------
TypeOK ==
    /\ row \in [Intents -> Status]
    /\ session \in [Intents -> Session]
    /\ creating \subseteq Intents /\ secret \subseteq Intents /\ overdue \subseteq Intents
    /\ watcher \in [Watchers -> Watcher]
    /\ call \in [Calls -> Call]
    /\ closed \subseteq Intents /\ lost \subseteq Intents
    /\ faults \in 0 .. MaxFaults

(* Once an intent has been deactivated, by whoever ended it, nothing gets  *)
(* past the broker with its token again: not a watcher that read the token *)
(* before, not one whose copy has since made the row active again, and not *)
(* by way of a session written back from before the revocation.            *)
ClosedStaysClosed ==
    [][\A w \in Watchers : ~At(w, "count") /\ At(w, "count")' => Its(w) \notin closed]_vars

(* Every intent comes to rest: it has run, failed, been revoked or expired *)
(* for good, or it is paused; except one a watcher died with.              *)
IntentsRest ==
    \A i \in Intents : <>[](row[i] \in Resting \/ i \in lost)
===============================================================================
