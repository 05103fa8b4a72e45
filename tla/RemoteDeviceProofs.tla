--------------------------- MODULE RemoteDeviceProofs --------------------------
(***************************************************************************)
(* Proofs about what a remote device is served by: its intents, for any    *)
(* number of intents, watchers, calls and faults, and its chat turns, for  *)
(* any number of turns, providers, pieces of text and mishaps.             *)
(*                                                                         *)
(*   Busy         who is at an await that needs them has an intent and, if *)
(*                it is to write a session back, a copy of one; what it    *)
(*                has listed or works on has a row;                        *)
(*   Known        so has an intent that was closed: it is not created a    *)
(*                second time;                                             *)
(*   Shut         the session of a closed intent is revoked or has used    *)
(*                its one operation: of those who write it back from an    *)
(*                older copy, one counts and the others revoke.            *)
(*                                                                         *)
(*   InOrder      the batches of a turn that are sent and those that wait  *)
(*                are numbered in a row, each begins where the one before  *)
(*                it ends, and the buffer is the rest of the text;         *)
(*   OfAuthors    the text of a turn is of providers that are not tried    *)
(*                again, the end of it of the one that is writing;         *)
(*   IsStored     what is stored is that end, and is stored before it is   *)
(*                told;                                                    *)
(*   IsTold       the end is told once, and after the last batch.          *)
(***************************************************************************)
EXTENDS RemoteIntents, RemoteChat, SequenceTheorems, TLAPS

(* What a watcher, and a call, is allowed to be.                           *)
Sound(r) ==
    /\ r \in Watcher
    /\ r.pc \notin {"idle", "next"} => r.at \in Intents
    /\ r.pc \in {"increment", "closing"} => r.copy \in Session
    /\ \A i \in Intents : i \in r.todo \/ i = r.at => row[i] # "none"

SoundCall(r) ==
    /\ r \in Call
    /\ r.pc \in {"close", "closing"} => r.at \in Intents
    /\ r.pc = "closing" => r.copy \in Session
    /\ \A i \in Intents : i \in r.todo \/ i = r.at => row[i] # "none"

Busy ==
    /\ watcher \in [Watchers -> Watcher] /\ \A w \in Watchers : Sound(watcher[w])
    /\ call \in [Calls -> Call] /\ \A c \in Calls : SoundCall(call[c])

Known == \A i \in closed : row[i] # "none"

Shut == \A i \in closed : ~session[i].open \/ session[i].used > 0

Inv == TypeOK /\ Busy /\ Known /\ Shut

(* No row is taken away.                                                   *)
RowsStay == \A i \in Intents : row[i] # "none" => row'[i] # "none"

-------------------------------------------------------------------------------
(* Nobody is busy at first.                                                *)
LEMMA InvInit == Init => Inv
<1> SUFFICES ASSUME Init PROVE Inv
    OBVIOUS
<1>1. Fresh \in Watcher
    BY DEF Fresh, Watcher, Pc
<1>2. [pc |-> "idle", todo |-> {}, at |-> Null, copy |-> Null] \in Call
    BY DEF Call
<1>3. TypeOK
    BY <1>1, <1>2, IntentsAssumption DEF Init, TypeOK, Status, Resting, Session
<1>4. Busy
    BY <1>1, <1>2, IntentsAssumption DEF Init, Busy, Sound, SoundCall, Fresh
<1> QED
    BY <1>3, <1>4 DEF Init, Inv, Known, Shut

(* A watcher that becomes something sound leaves the others sound.         *)
LEMMA WatcherMoves ==
    ASSUME Busy, RowsStay, UNCHANGED call,
           NEW w \in Watchers, NEW r, Sound(r),
           watcher' = [watcher EXCEPT ![w] = r]
    PROVE Busy'
<1>1. \A q : Sound(q) => Sound(q)'
    BY DEF Sound, RowsStay
<1>2. \A q : SoundCall(q) => SoundCall(q)'
    BY DEF SoundCall, RowsStay
<1>3. r \in Watcher
    BY DEF Sound
<1>4. watcher' \in [Watchers -> Watcher]
    BY <1>3 DEF Busy
<1>5. ASSUME NEW v \in Watchers PROVE Sound(watcher[v])'
    <2>1. watcher'[v] = r \/ watcher'[v] = watcher[v]
        BY DEF Busy
    <2>2. Sound(watcher'[v])
        BY <2>1 DEF Busy
    <2> QED
        BY <2>2 DEF Sound, RowsStay
<1>6. ASSUME NEW c \in Calls PROVE SoundCall(call[c])'
    BY DEF Busy, SoundCall, RowsStay
<1> QED
    BY <1>4, <1>5, <1>6 DEF Busy

(* The same of a call.                                                     *)
LEMMA CallMoves ==
    ASSUME Busy, RowsStay, UNCHANGED watcher,
           NEW c \in Calls, NEW r, SoundCall(r),
           call' = [call EXCEPT ![c] = r]
    PROVE Busy'
<1>1. r \in Call
    BY DEF SoundCall
<1>2. call' \in [Calls -> Call]
    BY <1>1 DEF Busy
<1>3. ASSUME NEW d \in Calls PROVE SoundCall(call[d])'
    <2>1. call'[d] = r \/ call'[d] = call[d]
        BY DEF Busy
    <2>2. SoundCall(call'[d])
        BY <2>1 DEF Busy
    <2> QED
        BY <2>2 DEF SoundCall, RowsStay
<1>4. ASSUME NEW w \in Watchers PROVE Sound(watcher[w])'
    BY DEF Busy, Sound, RowsStay
<1> QED
    BY <1>2, <1>3, <1>4 DEF Busy

(* Others may store a row, and no more.                                    *)
LEMMA NobodyMoves ==
    ASSUME Busy, RowsStay, UNCHANGED <<watcher, call>>
    PROVE Busy'
BY DEF Busy, Sound, SoundCall, RowsStay

-------------------------------------------------------------------------------
(* Every step keeps the rows.                                              *)
LEMMA RowsAreKept == TypeOK /\ [Next]_vars => RowsStay /\ row' \in [Intents -> Status]
<1> SUFFICES ASSUME TypeOK, [Next]_vars PROVE RowsStay /\ row' \in [Intents -> Status]
    OBVIOUS
<1>1. ASSUME NEW i, NEW status \in Status \ {"none"}, Write(i, status)
      PROVE RowsStay /\ row' \in [Intents -> Status]
    BY <1>1 DEF Write, TypeOK, RowsStay
<1>2. UNCHANGED row => RowsStay /\ row' \in [Intents -> Status]
    BY DEF TypeOK, RowsStay
<1>3. {"active", "paused", "triggered", "executing", "succeeded", "failed", "revoked",
       "expired"} = Status \ {"none"}
    BY DEF Status, Open, Resting
<1>4. \/ UNCHANGED row
      \/ \E i : \E status \in Status \ {"none"} : Write(i, status)
    <2>1. CASE UNCHANGED vars
        BY <2>1 DEF vars, records
    <2>2. ASSUME NEW i \in Intents, Create(i) \/ StoreToken(i) \/ Elapse(i) PROVE <1>4!1 \/ <1>4!2
        BY <2>2, <1>3 DEF Create, StoreToken, Elapse, records
    <2>3. ASSUME NEW w \in Watchers, WatcherStep(w) PROVE <1>4!1 \/ <1>4!2
        BY <2>3, <1>3 DEF WatcherStep, Tick, TickEnds, Expire, Evaluate, Checked, CatalogFails,
           Triggered, ReadToken, Executing, Authenticate, ReadCount, WriteCount, StepFails,
           Succeeded, ExecutionFailed, Failed, Ends, ReadSession, Deactivate, records
    <2>4. ASSUME NEW w \in Watchers, Throw(w) \/ RevokeFails(w) \/ Crash(w)
          PROVE <1>4!1 \/ <1>4!2
        BY <2>4 DEF Throw, RevokeFails, Crash, records
    <2>5. ASSUME NEW c \in Calls, CallStep(c) PROVE <1>4!1 \/ <1>4!2
        <3>1. Asks[c] \in {"paused", "revoked"}
            BY IntentsAssumption
        <3> QED
            BY <2>5, <3>1, <1>3 DEF CallStep, Ask, Disable, CallReads, CallDeactivates, Returns,
               CallThrows, records
    <2> QED
        BY <2>1, <2>2, <2>3, <2>4, <2>5 DEF Next
<1> QED
    BY <1>1, <1>2, <1>4

-------------------------------------------------------------------------------
(* What the helpers of the watcher's actions make of it is sound.          *)

(* Goto keeps the intent.                                                  *)
LEMMA GotoMoves ==
    ASSUME Busy, RowsStay, UNCHANGED call, NEW w \in Watchers,
           watcher[w].pc \notin {"idle", "next"},
           NEW pc \in Pc \ {"increment", "closing"}, Goto(w, pc)
    PROVE Busy'
<1> DEFINE r == [watcher[w] EXCEPT !.pc = pc]
<1>1. Sound(watcher[w])
    BY DEF Busy
<1>2. Sound(r)
    BY <1>1 DEF Sound, Watcher
<1>3. watcher' = [watcher EXCEPT ![w] = r]
    BY DEF Goto
<1> QED
    BY <1>2, <1>3, WatcherMoves

(* Takes picks one of those that were listed.                              *)
LEMMA TakesMoves ==
    ASSUME Busy, RowsStay, UNCHANGED call, NEW w \in Watchers, watcher[w].pc = "next",
           NEW i \in watcher[w].todo, NEW pc \in {"close", "catalog"},
           NEW way \in Way \cup {Null}, Takes(w, i, pc, way)
    PROVE Busy'
<1> DEFINE r == [watcher[w] EXCEPT !.pc = pc, !.at = i, !.way = way, !.todo = @ \ {i}]
<1>1. Sound(watcher[w])
    BY DEF Busy
<1>2. Sound(r)
    BY <1>1 DEF Sound, Watcher, Pc
<1>3. watcher' = [watcher EXCEPT ![w] = r]
    BY <1>1 DEF Takes, Sound, Watcher
<1> QED
    BY <1>2, <1>3, WatcherMoves

(* Done lets go of it.                                                     *)
LEMMA DoneMoves ==
    ASSUME Busy, RowsStay, UNCHANGED call, NEW w \in Watchers, Done(w)
    PROVE Busy'
<1> DEFINE r == [watcher[w] EXCEPT !.pc = "next", !.at = Null, !.way = Null, !.copy = Null]
<1>1. Sound(watcher[w])
    BY DEF Busy
<1>2. Sound(r)
    BY <1>1, IntentsAssumption DEF Sound, Watcher, Pc
<1>3. watcher' = [watcher EXCEPT ![w] = r]
    BY <1>1 DEF Done, Sound, Watcher
<1> QED
    BY <1>2, <1>3, WatcherMoves

(* The catch clauses keep it and drop the copy.                            *)
LEMMA CaughtMoves ==
    ASSUME Busy, RowsStay, UNCHANGED call, NEW w \in Watchers,
           watcher[w].pc \notin {"idle", "next"}, Caught(w)
    PROVE Busy'
<1> DEFINE pc == IF InExecute(w) THEN "failExecution" ELSE "fail"
           r == [watcher[w] EXCEPT !.copy = Null, !.pc = pc]
<1>1. Sound(watcher[w])
    BY DEF Busy
<1>2. pc \in {"failExecution", "fail"}
    OBVIOUS
<1>3. watcher' = [watcher EXCEPT ![w] = r]
    BY <1>1 DEF Caught, Sound, Watcher
<1> HIDE DEF pc
<1>4. Sound(r)
    BY <1>1, <1>2 DEF Sound, Watcher, Pc
<1> QED
    BY <1>3, <1>4, WatcherMoves

(* A watcher that ends an intent still has it when it closes it.           *)
LEMMA EndsMoves ==
    ASSUME Busy, RowsStay, NEW w \in Watchers,
           NEW from \in {"run", "failExecution", "fail"}, NEW way \in Way, NEW status,
           Ends(w, from, status, way)
    PROVE Busy'
<1> DEFINE r == [watcher[w] EXCEPT !.pc = "close", !.way = way]
<1>1. Sound(watcher[w]) /\ watcher[w].pc = from
    BY DEF Busy, Ends, At
<1>2. Sound(r)
    BY <1>1 DEF Sound, Watcher, Pc
<1>3. watcher' = [watcher EXCEPT ![w] = r]
    BY <1>1 DEF Ends, Sound, Watcher
<1> QED
    BY <1>2, <1>3, WatcherMoves DEF Ends

(* Reading the session, to count an operation or to revoke it.             *)
LEMMA CopyMoves ==
    ASSUME TypeOK, Busy, RowsStay, UNCHANGED call, NEW w \in Watchers,
           watcher[w].pc \notin {"idle", "next"}, NEW pc \in {"increment", "closing"},
           watcher' = [watcher EXCEPT ![w].pc = pc, ![w].copy = session[Its(w)]]
    PROVE Busy'
<1> DEFINE r == [watcher[w] EXCEPT !.pc = pc, !.copy = session[watcher[w].at]]
<1>1. Sound(watcher[w])
    BY DEF Busy
<1>2. session[watcher[w].at] \in Session
    BY <1>1 DEF Sound, TypeOK
<1>3. Sound(r)
    BY <1>1, <1>2 DEF Sound, Watcher, Pc
<1>4. watcher' = [watcher EXCEPT ![w] = r]
    BY <1>1 DEF Sound, Watcher, Its
<1> QED
    BY <1>3, <1>4, WatcherMoves

(* Every step of a watcher leaves everybody sound.                         *)
LEMMA BusyWatcher ==
    ASSUME Inv, RowsStay, NEW w \in Watchers,
           WatcherStep(w) \/ Throw(w) \/ RevokeFails(w) \/ Crash(w)
    PROVE Busy'
<1> USE DEF Inv, At
<1>1. Sound(watcher[w])
    BY DEF Busy
<1>2. ASSUME Tick(w) PROVE Busy'
    <2> DEFINE r == [Fresh EXCEPT !.pc = "next", !.now = overdue,
                                  !.todo = {i \in Intents : row[i] = "active"}]
    <2>1. Sound(r)
        BY IntentsAssumption DEF Sound, Fresh, Watcher, Pc, TypeOK
    <2> QED
        BY <1>2, <2>1, WatcherMoves DEF Tick
<1>3. ASSUME TickEnds(w) \/ Crash(w) PROVE Busy'
    <2>1. Sound(Fresh)
        BY IntentsAssumption DEF Sound, Fresh, Watcher, Pc
    <2> QED
        BY <1>3, <2>1, WatcherMoves DEF TickEnds, Crash
<1>4. ASSUME Expire(w) PROVE Busy'
    BY <1>4, TakesMoves DEF Expire, Way
<1>5. ASSUME Evaluate(w) PROVE Busy'
    BY <1>5, TakesMoves DEF Evaluate
<1>6. ASSUME NEW matched \in BOOLEAN, Checked(w, matched) PROVE Busy'
    <2>1. CASE matched
        <3>1. watcher' = [watcher EXCEPT ![w] = [watcher[w] EXCEPT !.pc = "matched"]]
            BY <1>1, <1>6, <2>1 DEF Checked, Sound, Watcher
        <3>2. Sound([watcher[w] EXCEPT !.pc = "matched"])
            BY <1>1, <1>6 DEF Checked, Sound, Watcher, Pc
        <3> QED
            BY <1>6, <3>1, <3>2, WatcherMoves DEF Checked
    <2>2. CASE ~matched
        <3>1. watcher' = [watcher EXCEPT ![w] = [watcher[w] EXCEPT !.pc = "next", !.at = Null]]
            BY <1>1, <1>6, <2>2 DEF Checked, Sound, Watcher
        <3>2. Sound([watcher[w] EXCEPT !.pc = "next", !.at = Null])
            BY <1>1, IntentsAssumption DEF Sound, Watcher, Pc
        <3> QED
            BY <1>6, <3>1, <3>2, WatcherMoves DEF Checked
    <2> QED
        BY <2>1, <2>2
<1>7. ASSUME \/ CatalogFails(w) \/ Triggered(w) \/ ReadToken(w) \/ Executing(w)
             \/ Authenticate(w, TRUE) \/ Authenticate(w, FALSE) \/ StepFails(w)
      PROVE Busy'
    <2>1. \E pc \in {"fail", "triggered", "token", "broker", "count", "failExecution"} :
              Goto(w, pc)
        BY <1>7 DEF CatalogFails, Triggered, ReadToken, Executing, Authenticate, StepFails
    <2>2. UNCHANGED call /\ watcher[w].pc \notin {"idle", "next"}
        BY <1>7 DEF CatalogFails, Triggered, ReadToken, Executing, Authenticate, StepFails
    <2> QED
        BY <2>1, <2>2, GotoMoves DEF Pc
<1>8. ASSUME ReadCount(w) \/ ReadSession(w) PROVE Busy'
    BY <1>8, CopyMoves DEF ReadCount, ReadSession
<1>9. ASSUME WriteCount(w) PROVE Busy'
    <2> DEFINE r == [watcher[w] EXCEPT !.pc = "run", !.copy = Null]
    <2>1. Sound(r)
        BY <1>1, <1>9 DEF WriteCount, Sound, Watcher, Pc
    <2>2. watcher' = [watcher EXCEPT ![w] = r]
        BY <1>1, <1>9 DEF WriteCount, Sound, Watcher
    <2> QED
        BY <1>9, <2>1, <2>2, WatcherMoves DEF WriteCount
<1>10. ASSUME Succeeded(w) \/ ExecutionFailed(w) \/ Failed(w) PROVE Busy'
    BY <1>10, EndsMoves DEF Succeeded, ExecutionFailed, Failed, Way
<1>11. ASSUME Deactivate(w) PROVE Busy'
    BY <1>11, DoneMoves, CaughtMoves DEF Deactivate
<1>12. ASSUME RevokeFails(w) PROVE Busy'
    BY <1>12, DoneMoves DEF RevokeFails
<1>13. ASSUME Throw(w) PROVE Busy'
    BY <1>13, CaughtMoves DEF Throw, InEvaluate, InExecute, history
<1> QED
    BY <1>2, <1>3, <1>4, <1>5, <1>6, <1>7, <1>8, <1>9, <1>10, <1>11, <1>12, <1>13
       DEF WatcherStep

(* Every step of a call does.                                              *)
LEMMA BusyCall ==
    ASSUME Inv, RowsStay, NEW c \in Calls, CallStep(c)
    PROVE Busy'
<1> USE DEF Inv
<1>1. SoundCall(call[c])
    BY DEF Busy
<1>2. ASSUME Ask(c) PROVE Busy'
    <2> DEFINE r == [call[c] EXCEPT !.pc = "write", !.todo = {i \in Scope[c] : row[i] \in Open}]
    <2>1. Scope[c] \subseteq Intents
        BY IntentsAssumption
    <2>2. SoundCall(r)
        BY <1>1, <2>1 DEF SoundCall, Call, Open
    <2>3. call' = [call EXCEPT ![c] = r]
        BY <1>1, <1>2 DEF Ask, SoundCall, Call
    <2> QED
        BY <1>2, <2>2, <2>3, CallMoves DEF Ask
<1>3. ASSUME Disable(c) PROVE Busy'
    <2>1. PICK i \in call[c].todo :
              call' = [call EXCEPT ![c].at = i, ![c].todo = @ \ {i}, ![c].pc =
                  IF Asks[c] = "revoked" THEN "close" ELSE "write"]
        BY <1>3 DEF Disable
    <2>2. PICK pc \in {"close", "write"} : pc = IF Asks[c] = "revoked" THEN "close" ELSE "write"
        OBVIOUS
    <2> DEFINE r == [call[c] EXCEPT !.at = i, !.todo = @ \ {i}, !.pc = pc]
    <2>3. SoundCall(r)
        BY <1>1, <1>3 DEF Disable, SoundCall, Call
    <2>4. call' = [call EXCEPT ![c] = r]
        BY <1>1, <2>1, <2>2 DEF SoundCall, Call
    <2> QED
        BY <1>3, <2>3, <2>4, CallMoves DEF Disable
<1>4. ASSUME CallReads(c) PROVE Busy'
    <2> DEFINE r == [call[c] EXCEPT !.pc = "closing", !.copy = session[call[c].at]]
    <2>1. session[call[c].at] \in Session
        BY <1>1, <1>4 DEF CallReads, SoundCall, TypeOK
    <2>2. SoundCall(r)
        BY <1>1, <1>4, <2>1 DEF CallReads, SoundCall, Call
    <2>3. call' = [call EXCEPT ![c] = r]
        BY <1>1, <1>4 DEF CallReads, SoundCall, Call
    <2> QED
        BY <1>4, <2>2, <2>3, CallMoves DEF CallReads
<1>5. ASSUME CallDeactivates(c) PROVE Busy'
    <2> DEFINE r == [call[c] EXCEPT !.pc = "write", !.copy = Null]
    <2>1. SoundCall(r)
        BY <1>1 DEF SoundCall, Call
    <2>2. call' = [call EXCEPT ![c] = r]
        BY <1>1, <1>5 DEF CallDeactivates, SoundCall, Call
    <2> QED
        BY <1>5, <2>1, <2>2, CallMoves DEF CallDeactivates
<1>6. ASSUME Returns(c) PROVE Busy'
    <2> DEFINE r == [call[c] EXCEPT !.pc = "done", !.at = Null]
    <2>1. SoundCall(r)
        BY <1>1, IntentsAssumption DEF SoundCall, Call
    <2>2. call' = [call EXCEPT ![c] = r]
        BY <1>1, <1>6 DEF Returns, SoundCall, Call
    <2> QED
        BY <1>6, <2>1, <2>2, CallMoves DEF Returns
<1>7. ASSUME CallThrows(c) PROVE Busy'
    <2> DEFINE r == [call[c] EXCEPT !.pc = "done", !.todo = {}, !.at = Null]
    <2>1. SoundCall(r)
        BY <1>1, IntentsAssumption DEF SoundCall, Call
    <2>2. call' = [call EXCEPT ![c] = r]
        BY <1>1, <1>7 DEF CallThrows, SoundCall, Call
    <2> QED
        BY <1>7, <2>1, <2>2, CallMoves DEF CallThrows
<1> QED
    BY <1>2, <1>3, <1>4, <1>5, <1>6, <1>7 DEF CallStep

-------------------------------------------------------------------------------
(* The session is counted by one operation or revoked, whoever writes it,  *)
(* and made anew only for an intent that has no row.                       *)
SessionKept ==
    \/ UNCHANGED session /\ closed' = closed
    \/ \E i \in Intents, s \in Session :
         /\ session' = [session EXCEPT ![i] = s]
         /\ \/ ~s.open /\ closed' \in {closed, closed \cup {i}}
            \/ s.used > 0 /\ closed' = closed
            \/ row[i] = "none" /\ closed' = closed

(* Every step does no more to a session than that.                         *)
LEMMA SessionSteps == Inv /\ [Next]_vars => SessionKept
<1> SUFFICES ASSUME Inv, [Next]_vars PROVE SessionKept
    OBVIOUS
<1> USE DEF Inv
<1>1. ASSUME NEW s \in Session
      PROVE /\ Revoked(s) \in Session /\ ~Revoked(s).open
            /\ [s EXCEPT !.used = @ + 1] \in Session /\ [s EXCEPT !.used = @ + 1].used > 0
    <2>1. s.used \in Nat /\ s.used + 1 \in Nat /\ s.used + 1 > 0
        BY DEF Session
    <2>2. Revoked(s) \in Session /\ ~Revoked(s).open
        BY DEF Revoked, Session
    <2>3. [s EXCEPT !.used = @ + 1] \in Session
        BY <2>1 DEF Session
    <2>4. [s EXCEPT !.used = @ + 1].used = s.used + 1
        BY DEF Session
    <2> QED
        BY <2>1, <2>2, <2>3, <2>4
<1>2. CASE UNCHANGED vars
    BY <1>2 DEF vars, records, history, SessionKept
<1>3. ASSUME NEW i \in Intents, Create(i) \/ StoreToken(i) \/ Elapse(i) PROVE SessionKept
    <2>1. [open |-> TRUE, used |-> 0] \in Session
        BY DEF Session
    <2> QED
        BY <1>3, <2>1 DEF Create, StoreToken, Elapse, records, history, SessionKept
<1>4. ASSUME NEW w \in Watchers, WatcherStep(w) \/ Throw(w) \/ RevokeFails(w) \/ Crash(w)
      PROVE SessionKept
    <2>1. Sound(watcher[w])
        BY DEF Busy
    <2>2. CASE WriteCount(w)
        <3>1. Its(w) \in Intents /\ watcher[w].copy \in Session
            BY <2>1, <2>2 DEF WriteCount, At, Its, Sound
        <3> QED
            BY <1>1, <2>2, <3>1 DEF WriteCount, SessionKept, history
    <2>3. CASE Deactivate(w)
        <3>1. Its(w) \in Intents /\ watcher[w].copy \in Session
            BY <2>1, <2>3 DEF Deactivate, At, Its, Sound
        <3> QED
            BY <1>1, <2>3, <3>1 DEF Deactivate, SessionKept
    <2>4. CASE ~WriteCount(w) /\ ~Deactivate(w)
        BY <1>4, <2>4 DEF WatcherStep, Tick, TickEnds, Expire, Evaluate, Checked, CatalogFails,
           Triggered, ReadToken, Executing, Authenticate, ReadCount, StepFails, Succeeded,
           ExecutionFailed, Failed, Ends, ReadSession, Throw, RevokeFails, Crash,
           records, history, SessionKept
    <2> QED
        BY <2>2, <2>3, <2>4
<1>5. ASSUME NEW c \in Calls, CallStep(c) PROVE SessionKept
    <2>1. CASE CallDeactivates(c)
        <3>1. call[c].at \in Intents /\ call[c].copy \in Session
            BY <2>1 DEF CallDeactivates, Busy, SoundCall
        <3> QED
            BY <1>1, <2>1, <3>1 DEF CallDeactivates, SessionKept
    <2>2. CASE ~CallDeactivates(c)
        BY <1>5, <2>2 DEF CallStep, Ask, Disable, CallReads, Returns, CallThrows,
           records, history, SessionKept
    <2> QED
        BY <2>1, <2>2
<1> QED
    BY <1>2, <1>3, <1>4, <1>5 DEF Next

(* The invariant is inductive.                                             *)
LEMMA InvNext == Inv /\ [Next]_vars => Inv'
<1> SUFFICES ASSUME Inv, [Next]_vars PROVE Inv'
    OBVIOUS
<1>1. RowsStay /\ row' \in [Intents -> Status]
    BY RowsAreKept DEF Inv
<1>2. SessionKept
    BY SessionSteps
<1>3. Busy'
    <2>1. CASE UNCHANGED vars
        BY <1>1, <2>1, NobodyMoves DEF vars, Inv
    <2>2. ASSUME NEW i \in Intents, Create(i) \/ StoreToken(i) \/ Elapse(i) PROVE Busy'
        BY <1>1, <2>2, NobodyMoves DEF Create, StoreToken, Elapse, Inv
    <2> QED
        BY <1>1, <2>1, <2>2, BusyWatcher, BusyCall DEF Next
<1>4. Shut'
    BY <1>2 DEF SessionKept, Inv, TypeOK, Shut, Known, Session
<1>5. session' \in [Intents -> Session] /\ closed' \subseteq Intents
    BY <1>2 DEF SessionKept, Inv, TypeOK
<1>6. /\ creating' \subseteq Intents /\ secret' \subseteq Intents /\ overdue' \subseteq Intents
      /\ lost' \subseteq Intents /\ faults' \in 0 .. MaxFaults
    <2> USE IntentsAssumption DEF Inv, TypeOK, records, history, Fault
    <2>1. CASE UNCHANGED vars
        BY <2>1 DEF vars
    <2>2. ASSUME NEW i \in Intents, Create(i) \/ StoreToken(i) \/ Elapse(i) PROVE <1>6
        BY <2>2 DEF Create, StoreToken, Elapse
    <2>3. ASSUME NEW w \in Watchers, WatcherStep(w) PROVE <1>6
        BY <2>3 DEF WatcherStep, Tick, TickEnds, Expire, Evaluate, Checked, CatalogFails,
           Triggered, ReadToken, Executing, Authenticate, ReadCount, WriteCount, StepFails,
           Succeeded, ExecutionFailed, Failed, Ends, ReadSession, Deactivate
    <2>4. ASSUME NEW w \in Watchers, Throw(w) \/ RevokeFails(w) \/ Crash(w) PROVE <1>6
        BY <2>4 DEF Throw, RevokeFails, Crash, Busy, Sound, Watcher, Its
    <2>5. ASSUME NEW c \in Calls, CallStep(c) PROVE <1>6
        <3>1. CASE CallDeactivates(c)
            BY <3>1 DEF CallDeactivates
        <3>2. CASE CallThrows(c)
            BY <3>2 DEF CallThrows
        <3> QED
            BY <2>5, <3>1, <3>2 DEF CallStep, Ask, Disable, CallReads, Returns
    <2> QED
        BY <2>1, <2>2, <2>3, <2>4, <2>5 DEF Next
<1>7. Known'
    <2>1. \A i \in closed' : i \in closed \/ row[i] # "none"
        <3>1. CASE closed' = closed
            BY <3>1
        <3>2. ASSUME NEW w \in Watchers, Deactivate(w) PROVE <2>1
            BY <3>2 DEF Deactivate, At, Its, Inv, Busy, Sound
        <3>3. ASSUME NEW c \in Calls, CallDeactivates(c) PROVE <2>1
            BY <3>3, SMTT(40) DEF CallDeactivates, Inv, Busy, SoundCall
        <3>4. \/ closed' = closed
              \/ \E w \in Watchers : Deactivate(w)
              \/ \E c \in Calls : CallDeactivates(c)
            BY ZenonT(40) DEF Next, vars, WatcherStep, CallStep, Create, StoreToken, Elapse, Tick, TickEnds,
               Expire, Evaluate, Checked, CatalogFails, Triggered, ReadToken, Executing,
               Authenticate, ReadCount, WriteCount, StepFails, Succeeded, ExecutionFailed, Failed,
               Ends, ReadSession, Throw, RevokeFails, Crash, Ask, Disable, CallReads, Returns,
               CallThrows, history
        <3> QED
            BY <3>1, <3>2, <3>3, <3>4
    <2> QED
        BY <1>1, <1>5, <2>1 DEF RowsStay, Known, Inv
<1> QED
    BY <1>1, <1>3, <1>4, <1>5, <1>6, <1>7 DEF Inv, TypeOK, Busy

-------------------------------------------------------------------------------
(* Every reachable state of the intents has the declared types.            *)
THEOREM IntentsTypeCorrect == Spec => []TypeOK
<1>1. Inv => TypeOK
    BY DEF Inv
<1> QED
    BY <1>1, InvInit, InvNext, PTL DEF Spec

(* There is one way to the operation count, and it asks for the session.   *)
LEMMA OnlyAuthenticate ==
    ASSUME Inv, [Next]_vars, NEW w \in Watchers, ~At(w, "count"), At(w, "count")'
    PROVE Authenticate(w, TRUE) \/ Authenticate(w, FALSE)
<1> USE DEF At
<1>1. watcher \in [Watchers -> Watcher]
    BY DEF Inv, Busy
<1>2. watcher' # watcher
    OBVIOUS
<1>3. PICK v \in Watchers : WatcherStep(v) \/ Throw(v) \/ RevokeFails(v) \/ Crash(v)
    BY <1>2 DEF Next, vars, Create, StoreToken, Elapse, CallStep, Ask, Disable, CallReads,
       CallDeactivates, Returns, CallThrows
<1>4. \E r : watcher' = [watcher EXCEPT ![v] = r]
    <2> USE DEF Goto, Caught, Done, Takes
    <2>1. CASE Throw(v) \/ RevokeFails(v) \/ Crash(v)
        BY <2>1 DEF Throw, RevokeFails, Crash
    <2>2. CASE Tick(v) \/ TickEnds(v) \/ Expire(v) \/ Evaluate(v) \/ CatalogFails(v)
               \/ Checked(v, TRUE) \/ Checked(v, FALSE)
        BY <2>2 DEF Tick, TickEnds, Expire, Evaluate, CatalogFails, Checked
    <2>3. CASE \/ Triggered(v) \/ ReadToken(v) \/ Executing(v) \/ Authenticate(v, TRUE)
               \/ Authenticate(v, FALSE) \/ ReadCount(v) \/ WriteCount(v) \/ StepFails(v)
        BY <2>3 DEF Triggered, ReadToken, Executing, Authenticate, ReadCount, WriteCount, StepFails
    <2>4. CASE \/ Succeeded(v) \/ ExecutionFailed(v) \/ Failed(v) \/ ReadSession(v)
               \/ Deactivate(v)
        BY <2>4 DEF Succeeded, ExecutionFailed, Failed, Ends, ReadSession, Deactivate
    <2> QED
        BY <1>3, <2>1, <2>2, <2>3, <2>4 DEF WatcherStep
<1>5. v = w
    BY <1>1, <1>4
<1>6. watcher[w] \in Watcher /\ watcher[w].pc # "count" /\ watcher'[w].pc = "count"
    BY <1>1
<1> USE <1>1, <1>5, <1>6 DEF Watcher
<1>7. ~Throw(w) /\ ~RevokeFails(w) /\ ~Crash(w)
    BY DEF Throw, RevokeFails, Crash, Caught, Done, Fresh
<1>8. ~Tick(w) /\ ~TickEnds(w) /\ ~CatalogFails(w) /\ ~Checked(w, TRUE) /\ ~Checked(w, FALSE)
    <2>1. ~Tick(w) /\ ~TickEnds(w)
        <3>1. [Fresh EXCEPT !.pc = "next", !.now = overdue,
                            !.todo = {i \in Intents : row[i] = "active"}].pc = "next"
            BY DEF Fresh
        <3>2. ~Tick(w)
            BY <3>1 DEF Tick
        <3>3. ~TickEnds(w)
            BY DEF TickEnds, Fresh
        <3> QED
            BY <3>2, <3>3
    <2>2. ~CatalogFails(w)
        BY DEF CatalogFails, Goto
    <2>3. ~Checked(w, TRUE) /\ ~Checked(w, FALSE)
        BY DEF Checked
    <2> QED
        BY <2>1, <2>2, <2>3
<1>9. ~Expire(w) /\ ~Evaluate(w)
    <2>1. ASSUME NEW i, NEW way, Takes(w, i, "close", way) \/ Takes(w, i, "catalog", way)
          PROVE FALSE
        BY <2>1 DEF Takes
    <2> QED
        BY <2>1 DEF Expire, Evaluate
<1>10. ~Triggered(w) /\ ~ReadToken(w) /\ ~Executing(w) /\ ~StepFails(w)
    BY DEF Triggered, ReadToken, Executing, StepFails, Goto
<1>11. ~ReadCount(w) /\ ~WriteCount(w) /\ ~ReadSession(w) /\ ~Deactivate(w)
    <2>1. ~ReadCount(w) /\ ~WriteCount(w)
        BY DEF ReadCount, WriteCount
    <2>2. ~ReadSession(w)
        BY DEF ReadSession
    <2>3. ~Deactivate(w)
        BY DEF Deactivate, Done, Caught
    <2> QED
        BY <2>1, <2>2, <2>3
<1>12. ~Succeeded(w) /\ ~ExecutionFailed(w) /\ ~Failed(w)
    BY DEF Succeeded, ExecutionFailed, Failed, Ends
<1> QED
    BY <1>3, <1>7, <1>8, <1>9, <1>10, <1>11, <1>12 DEF WatcherStep

(* A closed intent is closed to every watcher: authenticate refuses its    *)
(* session whatever the row says and whoever read the token before.        *)
THEOREM NothingEntersClosed == Spec => ClosedStaysClosed
<1>1. ASSUME Inv, [Next]_vars, NEW w \in Watchers, ~At(w, "count"), At(w, "count")'
      PROVE Its(w) \notin closed
    <2>1. Authenticate(w, TRUE) \/ Authenticate(w, FALSE)
        BY <1>1, OnlyAuthenticate
    <2>2. watcher \in [Watchers -> Watcher] /\ watcher'[w].pc = "count"
        BY <1>1 DEF Inv, Busy, At
    <2>3. Usable(Its(w))
        BY <2>1, <2>2 DEF Authenticate, Goto, Watcher
    <2> QED
        BY <1>1, <2>3 DEF Inv, Shut, Usable
<1>2. Inv /\ [Next]_vars => [\A w \in Watchers :
          ~At(w, "count") /\ At(w, "count")' => Its(w) \notin closed]_vars
    BY <1>1
<1> QED
    BY <1>2, InvInit, InvNext, PTL DEF Spec, ClosedStaysClosed
-------------------------------------------------------------------------------
(* Where a turn is: before its text, writing it, storing it, or over.      *)
Before == {"idle", "resolve", "userInsert", "accept", "route"}
Writing == {"thread", "turnStart", "started", "waiting", "interrupt", "expired",
            "spawn", "running"}
Keeping == {"flush", "sequence", "insert", "complete", "event"}
Closing == {"cancel", "fail", "done", "gone"}

(* How far the batches go that were sent or are waiting to be.             *)
Queued(r, sent) == IF r.queue = <<>> THEN Upto(sent) ELSE Upto(r.queue)

(* Batches are numbered as they are queued, and each begins where the one  *)
(* before it ends; what is in none is in the buffer, until it is dropped.  *)
InOrder(r, text, sent) ==
    /\ Joined(sent)
    /\ \A i \in 1..Len(sent) : sent[i].number = i
    /\ \A i \in 1..Len(r.queue) :
         /\ r.queue[i].number = Len(sent) + i
         /\ r.queue[i].from = IF i = 1 THEN Upto(sent) ELSE r.queue[i - 1].upto
    /\ r.pc \notin Keeping \cup Closing \/ r.queue # <<>> \/ r.buffer # 0 =>
         ~r.broken /\ r.number = Len(sent) + Len(r.queue)
    /\ r.pc \notin Keeping \cup Closing \/ r.buffer # 0 \/ (r.pc = "flush" /\ ~r.broken) =>
         Queued(r, sent) + r.buffer = Len(text)
    /\ r.pc \in Keeping \cup {"cancel"} => r.buffer = 0
    /\ r.pc \in Keeping /\ r.pc # "flush" => r.queue = <<>> /\ Upto(sent) = Len(text)

(* The text is of providers that are not to be tried any more, the end of  *)
(* it of the one that is writing.                                          *)
OfAuthors(r, text, list) ==
    /\ r.pc \in Before => text = <<>>
    /\ \A i \in r.todo : i \in 1..Len(list) /\ \A k \in 1..Len(text) : text[k] # list[i]
    /\ r.pc \in Writing => r.by \in Providers /\ \A i \in r.todo : list[i] # r.by
    /\ r.pc \notin Keeping \cup Closing => \A k \in 1..Len(text) : text[k] \in Providers
    /\ r.pc \in Writing \cup {"flush", "sequence", "insert"} =>
         /\ r.by \in Author /\ r.start <= Len(text)
         /\ \A k \in 1..Len(text) : text[k] = r.by <=> k > r.start

(* What is stored is the end of the text, and was stored before the end of *)
(* the turn was told.                                                      *)
IsStored(r, text, answer, excused) ==
    /\ r.pc \notin {"complete", "event"} \cup Closing => answer = None
    /\ r.pc \in {"complete", "event"} => answer # None
    /\ r.pc = "cancel" /\ answer # None => excused
    /\ answer # None =>
         /\ answer.upto = Len(text)
         /\ \A k \in 1..Len(text) : text[k] = answer.by <=> k > answer.from

(* The end is told once, and after the last of the text.                   *)
IsTold(r, sent, end, answer, cut, failed) ==
    /\ r.pc \notin {"event"} \cup Closing => end = <<>>
    /\ r.pc = "event" => end # <<>>
    /\ r.pc \in {"cancel", "fail"} /\ end # <<>> => failed
    /\ Len(end) > 1 => failed
    /\ r.pc = "done" => end # <<>> \/ cut
    /\ \A i \in 1..Len(end) :
         /\ end[i].type # "failed" => /\ end[i].after = Len(sent)
                                      /\ r.queue = <<>> /\ r.buffer = 0
         /\ end[i].type = "completed" => answer # None /\ Upto(sent) = answer.upto
         /\ end[i].type = "cancelled" => answer = None \/ cut \/ failed

(* What a turn may be: its text, what was sent and told of it, and its     *)
(* stored answer agree.                                                    *)
Fits(r, text, sent, end, answer, list, cut, failed) ==
    /\ InOrder(r, text, sent)
    /\ OfAuthors(r, text, list)
    /\ IsStored(r, text, answer, cut \/ failed)
    /\ IsTold(r, sent, end, answer, cut, failed)

TurnInv(t) ==
    Fits(turn[t], written[t], delivered[t], ends[t], saved[t], Candidates[t], down, unaudited)

ChatInv ==
    /\ ChatTypeOK
    /\ ~link => down
    /\ \A t \in Turns : TurnInv(t)

-------------------------------------------------------------------------------
(* The history of a turn only grows.                                       *)
LEMMA LaterFits ==
    ASSUME NEW r, NEW text, NEW sent, NEW end, NEW answer, NEW list,
           NEW cut, NEW failed, NEW cut1, NEW failed1, cut => cut1, failed => failed1,
           Fits(r, text, sent, end, answer, list, cut, failed)
    PROVE  Fits(r, text, sent, end, answer, list, cut1, failed1)
BY DEF Fits, IsStored, IsTold

(* Where a sequence of batches ends.                                       *)
LEMMA UptoIsNat ==
    ASSUME NEW s \in Seq(Batch)
    PROVE  Upto(s) \in Nat
<1>1. s # <<>> => Len(s) \in 1..Len(s)
    BY EmptySeq
<1>2. s # <<>> => s[Len(s)] \in Batch
    BY <1>1, ElementOfSeq
<1> QED
    BY <1>2 DEF Upto, Batch

(* A batch that begins where they end joins them.                          *)
LEMMA Appended ==
    ASSUME NEW s \in Seq(Batch), NEW b \in Batch
    PROVE  /\ Upto(Append(s, b)) = b.upto
           /\ Joined(s) /\ b.from = Upto(s) => Joined(Append(s, b))
<1>1. /\ Append(s, b) \in Seq(Batch) /\ Append(s, b) # <<>>
      /\ Len(Append(s, b)) = Len(s) + 1
      /\ \A i \in 1..Len(s) : Append(s, b)[i] = s[i]
      /\ Append(s, b)[Len(s) + 1] = b
    BY AppendProperties
<1>2. Len(s) \in Nat /\ (s # <<>> => Len(s) # 0) /\ (s = <<>> => Len(s) = 0)
    BY EmptySeq, LenProperties
<1>3. Upto(Append(s, b)) = b.upto
    BY <1>1, <1>2 DEF Upto
<1>5. ASSUME Joined(s), b.from = Upto(s) PROVE Joined(Append(s, b))
  <2> SUFFICES ASSUME NEW i \in 1..Len(s) + 1
               PROVE  Append(s, b)[i].from = IF i = 1 THEN 0 ELSE Append(s, b)[i - 1].upto
    BY <1>1 DEF Joined
  <2>1. CASE i \in 1..Len(s)
    BY <2>1, <1>1, <1>2, <1>5 DEF Joined
  <2>2. CASE i = Len(s) + 1
    BY <2>2, <1>1, <1>2, <1>5 DEF Upto
  <2> QED
    BY <2>1, <2>2, <1>2
<1> QED
    BY <1>3, <1>5

(* QueueFlush puts the rest of the text into one batch.                    *)
LEMMA QueueFlushes ==
    ASSUME NEW r \in Turn, NEW text \in Seq(Author), NEW sent \in Seq(Batch),
           InOrder(r, text, sent)
    PROVE  LET q == QueueFlush(r, Len(text)) IN
           /\ q \in Turn /\ q.buffer = 0
           /\ q = [r EXCEPT !.buffer = 0, !.number = q.number, !.queue = q.queue]
           /\ InOrder(q, text, sent)
           /\ r.buffer = 0 => q.queue = r.queue
<1> DEFINE q == QueueFlush(r, Len(text))
<1>0. Len(text) \in Nat /\ Len(sent) \in Nat /\ Len(r.queue) \in Nat
    BY LenProperties DEF Turn
<1>1. CASE r.buffer = 0
    BY <1>1 DEF QueueFlush, Turn
<1>2. CASE r.buffer # 0
  <2> DEFINE b == [number |-> r.number + 1, from |-> Len(text) - r.buffer, upto |-> Len(text)]
  <2>1. /\ ~r.broken /\ r.number = Len(sent) + Len(r.queue)
        /\ Queued(r, sent) + r.buffer = Len(text)
        /\ r.pc \notin Keeping \cup {"cancel"}
    BY <1>2 DEF InOrder
  <2>2. Queued(r, sent) \in Nat
    BY UptoIsNat DEF Queued, Turn
  <2>3. /\ r.buffer \in Nat /\ r.number \in Nat /\ r.queue \in Seq(Batch)
        /\ r.pc \in TurnPc
    BY DEF Turn
  <2>4. b.from = Queued(r, sent)
    BY <2>1, <2>2, <2>3, <1>0
  <2>5. b \in Batch
    BY <2>2, <2>3, <2>4, <1>0 DEF Batch
  <2>6. q = [r EXCEPT !.buffer = 0, !.number = r.number + 1, !.queue = Append(r.queue, b)]
    BY <1>2 DEF QueueFlush, Turn
  <2> HIDE DEF b, q
  <2>7. /\ Append(r.queue, b) \in Seq(Batch) /\ Append(r.queue, b) # <<>>
        /\ Len(Append(r.queue, b)) = Len(r.queue) + 1
        /\ \A i \in 1..Len(r.queue) : Append(r.queue, b)[i] = r.queue[i]
        /\ Append(r.queue, b)[Len(r.queue) + 1] = b
    BY <2>3, <2>5, AppendProperties
  <2>8. q \in Turn
    <3>1. r.number + 1 \in Nat /\ 0 \in Nat
      BY <2>3
    <3> QED
      BY <3>1, <2>6, <2>7 DEF Turn
  <2>9. /\ q.buffer = 0 /\ q.number = r.number + 1 /\ q.queue = Append(r.queue, b)
        /\ q.pc = r.pc /\ q.broken = r.broken
    BY <2>6 DEF Turn
  <2>10. q = [r EXCEPT !.buffer = 0, !.number = q.number, !.queue = q.queue]
    BY <2>6, <2>9 DEF Turn
  <2>11. Upto(q.queue) = Len(text)
    BY <2>3, <2>5, <2>9, Appended DEF b
  <2>12. b.number = r.number + 1
    BY DEF b
  <2>13. ASSUME NEW i \in 1..Len(q.queue)
         PROVE  /\ q.queue[i].number = Len(sent) + i
                /\ q.queue[i].from = IF i = 1 THEN Upto(sent) ELSE q.queue[i - 1].upto
    <3>1. CASE i \in 1..Len(r.queue)
      BY <3>1, <2>7, <2>9, <1>0 DEF InOrder
    <3>2. CASE i = Len(r.queue) + 1
      <4>1. q.queue[i].number = Len(sent) + i
        BY <3>2, <2>1, <2>7, <2>9, <2>12, <1>0
      <4>2. CASE r.queue = <<>>
        <5>1. Len(r.queue) = 0
          BY <4>2, EmptySeq
        <5> QED
          BY <5>1, <4>2, <3>2, <4>1, <2>4, <2>7, <2>9, <1>0 DEF Queued
      <4>3. CASE r.queue # <<>>
        <5>1. Len(r.queue) # 0
          BY <4>3, <2>3, EmptySeq
        <5> QED
          BY <5>1, <4>1, <4>3, <3>2, <2>4, <2>7, <2>9, <1>0 DEF Queued, Upto
      <4> QED
        BY <4>2, <4>3
    <3> QED
      BY <3>1, <3>2, <2>7, <2>9, <1>0
  <2>14. InOrder(q, text, sent)
    BY <2>13, <2>9, <2>7, <2>1, <2>11, <2>3, <1>0 DEF InOrder, Queued
  <2> QED
    BY <2>8, <2>9, <2>10, <2>14, <1>2 DEF q
<1> QED
    BY <1>1, <1>2

(* A step that touches no text.                                            *)
LEMMA Onward ==
    ASSUME NEW r \in Turn, NEW q \in Turn, NEW text, NEW sent \in Seq(Batch), NEW end,
           NEW answer, NEW list, NEW cut, NEW failed,
           Fits(r, text, sent, end, answer, list, cut, failed),
           q.todo = r.todo, q.by = r.by, q.start = r.start, q.buffer = r.buffer,
           q.queue = r.queue, q.number = r.number, q.broken = r.broken,
           \/ q.pc = r.pc
           \/ {r.pc, q.pc} \subseteq Before
           \/ {r.pc, q.pc} \subseteq Writing
           \/ {r.pc, q.pc} \subseteq {"sequence", "insert"}
           \/ r.pc = "flush" /\ ~r.broken /\ r.queue = <<>> /\ q.pc = "sequence"
    PROVE  Fits(q, text, sent, end, answer, list, cut, failed)
<1>0. Upto(sent) \in Nat
    BY UptoIsNat
<1>1. InOrder(q, text, sent)
    BY <1>0 DEF Fits, InOrder, Queued, Before, Writing, Keeping, Closing
<1>2. OfAuthors(q, text, list)
    BY DEF Fits, OfAuthors, Before, Writing, Keeping, Closing
<1>3. IsStored(q, text, answer, cut \/ failed)
    BY DEF Fits, IsStored, Before, Writing, Closing
<1>4. IsTold(q, sent, end, answer, cut, failed)
    BY DEF Fits, IsTold, Before, Writing, Closing
<1> QED
    BY <1>1, <1>2, <1>3, <1>4 DEF Fits

(* An error.                                                               *)
LEMMA ThrownFits ==
    ASSUME NEW r \in Turn, NEW text, NEW sent, NEW end, NEW answer, NEW list,
           NEW cut, NEW failed, NEW failed1,
           Fits(r, text, sent, end, answer, list, cut, failed), failed => failed1,
           r.pc \notin Closing, answer # None => cut \/ failed1, end # <<>> => failed1
    PROVE  /\ Thrown(r) \in Turn
           /\ Fits(Thrown(r), text, sent, end, answer, list, cut, failed1)
<1> DEFINE q == Thrown(r)
<1>1. /\ q \in Turn /\ q.pc \in {"cancel", "fail"}
      /\ q.todo = r.todo /\ q.queue = r.queue /\ q.number = r.number /\ q.broken = r.broken
      /\ q.buffer \in {r.buffer, 0} /\ (q.pc = "cancel" => q.buffer = 0)
    BY DEF Thrown, Turn, TurnPc
<1> HIDE DEF q
<1>2. InOrder(q, text, sent)
    BY <1>1 DEF Fits, InOrder, Queued, Keeping, Closing
<1>3. OfAuthors(q, text, list)
    BY <1>1 DEF Fits, OfAuthors, Before, Writing, Keeping, Closing
<1>4. IsStored(q, text, answer, cut \/ failed1)
    BY <1>1 DEF Fits, IsStored, Closing
<1>5. IsTold(q, sent, end, answer, cut, failed1)
    BY <1>1 DEF Fits, IsTold, Closing
<1> QED
    BY <1>1, <1>2, <1>3, <1>4, <1>5 DEF Fits, q

(* The text that is sent before it is stored.                              *)
LEMMA AnswerFits ==
    ASSUME NEW r \in Turn, NEW text \in Seq(Author), NEW sent \in Seq(Batch), NEW list,
           NEW cut, NEW failed,
           InOrder(r, text, sent), r.pc \in Writing \cup {"try"},
           \A i \in r.todo : i \in 1..Len(list) /\ \A k \in 1..Len(text) : text[k] # list[i],
           r.by \in Author, r.start <= Len(text),
           \A k \in 1..Len(text) : text[k] = r.by <=> k > r.start
    PROVE  /\ Answered(r, Len(text)) \in Turn
           /\ Fits(Answered(r, Len(text)), text, sent, <<>>, None, list, cut, failed)
<1> DEFINE q == Answered(r, Len(text))
<1>0. Len(<<>>) = 0
    OBVIOUS
<1>1. CASE r.aborted
  <2>1. /\ q \in Turn /\ q.pc = "cancel" /\ q.todo = r.todo /\ q.queue = r.queue
        /\ q.number = r.number /\ q.broken = r.broken /\ q.buffer = 0
    BY <1>1 DEF Answered, Thrown, Turn, TurnPc
  <2> HIDE DEF q
  <2>2. InOrder(q, text, sent)
    BY <2>1 DEF InOrder, Keeping, Closing, Writing
  <2> QED
    BY <1>0, <2>1, <2>2
       DEF Fits, OfAuthors, IsStored, IsTold, q, Before, Writing, Keeping, Closing
<1>2. CASE ~r.aborted
  <2> DEFINE f == QueueFlush(r, Len(text))
  <2>1. /\ f \in Turn /\ f.buffer = 0
        /\ f = [r EXCEPT !.buffer = 0, !.number = f.number, !.queue = f.queue]
        /\ InOrder(f, text, sent)
    BY QueueFlushes
  <2>2. q = [f EXCEPT !.pc = "flush"]
    BY <1>2 DEF Answered
  <2> HIDE DEF f, q
  <2>3. f.pc = r.pc /\ f.todo = r.todo /\ f.by = r.by /\ f.start = r.start
    BY <2>1 DEF Turn
  <2>4. /\ q \in Turn /\ q.pc = "flush" /\ q.todo = f.todo /\ q.by = f.by /\ q.start = f.start
        /\ q.queue = f.queue /\ q.number = f.number /\ q.broken = f.broken /\ q.buffer = 0
    BY <2>1, <2>2 DEF Turn, TurnPc
  <2>5. InOrder(q, text, sent)
    BY <2>1, <2>3, <2>4 DEF InOrder, Queued, Keeping, Closing, Writing
  <2>6. OfAuthors(q, text, list)
    BY <2>3, <2>4 DEF OfAuthors, Before, Writing, Keeping, Closing
  <2> QED
    BY <1>0, <2>4, <2>5, <2>6 DEF Fits, IsStored, IsTold, q, Closing
<1> QED
    BY <1>1, <1>2

(* The candidates of a turn that has no text yet.                          *)
LEMMA RoutedFits ==
    ASSUME NEW r \in Turn, NEW text, NEW sent, NEW end, NEW answer, NEW list,
           NEW cut, NEW failed, r.pc = "route",
           Fits(r, text, sent, end, answer, list, cut, failed),
           NEW q \in Turn, \A i \in q.todo : i \in 1..Len(list), q.pc = "try",
           q.buffer = r.buffer, q.queue = r.queue, q.number = r.number, q.broken = r.broken
    PROVE  Fits(q, text, sent, end, answer, list, cut, failed)
<1>0. text = <<>> /\ Len(<<>>) = 0
    BY DEF Fits, OfAuthors, Before
<1>1. InOrder(q, text, sent)
    BY DEF Fits, InOrder, Queued, Keeping, Closing
<1>2. OfAuthors(q, text, list)
    BY <1>0 DEF OfAuthors, Before, Writing
<1>3. IsStored(q, text, answer, cut \/ failed)
    BY DEF Fits, IsStored, Closing
<1>4. IsTold(q, sent, end, answer, cut, failed)
    BY DEF Fits, IsTold, Closing
<1> QED
    BY <1>1, <1>2, <1>3, <1>4 DEF Fits

(* The candidates are tried one after the other.                           *)
LEMMA TriedFits ==
    ASSUME NEW r \in Turn, NEW text \in Seq(Author), NEW sent \in Seq(Batch), NEW end,
           NEW answer, NEW list \in Seq(Providers),
           \A i, j \in 1..Len(list) : list[i] = list[j] => i = j,
           NEW cut, NEW failed, NEW i \in r.todo, r.pc = "try",
           Fits(r, text, sent, end, answer, list, cut, failed),
           NEW q \in Turn, q.todo = r.todo \ {i}, q.buffer = r.buffer,
           q.queue = r.queue, q.number = r.number, q.broken = r.broken,
           q.pc = "try" \/ (q.pc \in Writing /\ q.by = list[i] /\ q.start = Len(text))
    PROVE  Fits(q, text, sent, end, answer, list, cut, failed)
<1>1. InOrder(q, text, sent)
    BY DEF Fits, InOrder, Queued, Writing, Keeping, Closing
<1>2. OfAuthors(q, text, list)
  <2>1. i \in 1..Len(list) /\ \A k \in 1..Len(text) : text[k] # list[i]
    BY DEF Fits, OfAuthors
  <2>2. list[i] \in Providers
    BY <2>1, ElementOfSeq
  <2>3. \A j \in q.todo : /\ j \in 1..Len(list) /\ list[j] # list[i]
                          /\ \A k \in 1..Len(text) : text[k] # list[j]
    BY <2>1 DEF Fits, OfAuthors
  <2>4. \A k \in 1..Len(text) : text[k] \in Providers
    BY DEF Fits, OfAuthors, Keeping, Closing
  <2>5. Len(text) \in Nat
    BY LenProperties
  <2> QED
    BY <2>1, <2>2, <2>3, <2>4, <2>5 DEF OfAuthors, Author, Before, Writing, Keeping, Closing
<1>3. IsStored(q, text, answer, cut \/ failed)
    BY DEF Fits, IsStored, Writing, Closing
<1>4. IsTold(q, sent, end, answer, cut, failed)
    BY DEF Fits, IsTold, Writing, Closing
<1> QED
    BY <1>1, <1>2, <1>3, <1>4 DEF Fits

(* The next candidate's turn.                                              *)
LEMMA FailedAttemptFits ==
    ASSUME NEW r \in Turn, NEW text, NEW sent, NEW end, NEW answer, NEW list,
           NEW cut, NEW failed, r.pc \in Writing,
           Fits(r, text, sent, end, answer, list, cut, failed)
    PROVE  /\ [r EXCEPT !.pc = "try", !.by = None] \in Turn
           /\ Fits([r EXCEPT !.pc = "try", !.by = None], text, sent, end, answer, list,
                   cut, failed)
<1> DEFINE q == [r EXCEPT !.pc = "try", !.by = None]
<1>1. /\ q \in Turn /\ q.pc = "try" /\ q.todo = r.todo /\ q.queue = r.queue
      /\ q.number = r.number /\ q.broken = r.broken /\ q.buffer = r.buffer
    BY DEF Turn, TurnPc
<1> HIDE DEF q
<1>2. InOrder(q, text, sent)
    BY <1>1 DEF Fits, InOrder, Queued, Writing, Keeping, Closing
<1>3. OfAuthors(q, text, list)
    BY <1>1 DEF Fits, OfAuthors, Before, Writing, Keeping, Closing
<1>4. IsStored(q, text, answer, cut \/ failed)
    BY <1>1 DEF Fits, IsStored, Writing, Closing
<1>5. IsTold(q, sent, end, answer, cut, failed)
    BY <1>1 DEF Fits, IsTold, Writing, Closing
<1> QED
    BY <1>1, <1>2, <1>3, <1>4, <1>5 DEF Fits, q

(* A piece of text.                                                        *)
LEMMA DeltaFits ==
    ASSUME NEW r \in Turn, NEW text \in Seq(Author), NEW sent \in Seq(Batch), NEW end,
           NEW answer, NEW list, NEW cut, NEW failed, r.pc \in Writing,
           Fits(r, text, sent, end, answer, list, cut, failed)
    PROVE  /\ [r EXCEPT !.buffer = @ + 1] \in Turn
           /\ Fits([r EXCEPT !.buffer = @ + 1], Append(text, r.by), sent, end, answer, list,
                   cut, failed)
<1> DEFINE q == [r EXCEPT !.buffer = @ + 1]
           more == Append(text, r.by)
<1>0. r.buffer + 1 \in Nat /\ q = [r EXCEPT !.buffer = r.buffer + 1]
    BY DEF Turn
<1>1. /\ q \in Turn /\ q.pc = r.pc /\ q.todo = r.todo /\ q.by = r.by /\ q.start = r.start
      /\ q.queue = r.queue /\ q.number = r.number /\ q.broken = r.broken
      /\ q.buffer = r.buffer + 1 /\ r.buffer \in Nat /\ r.start \in Nat /\ r.queue \in Seq(Batch)
    BY <1>0 DEF Turn
<1>2. r.by \in Author /\ r.by \in Providers
    BY DEF Fits, OfAuthors, Author
<1>3. /\ Len(text) \in Nat /\ Len(more) = Len(text) + 1
      /\ \A k \in 1..Len(text) : more[k] = text[k]
      /\ more[Len(text) + 1] = r.by
    BY <1>2, AppendProperties, LenProperties
<1> HIDE DEF q, more
<1>4. InOrder(q, more, sent)
  <2>1. Queued(r, sent) \in Nat /\ Queued(q, sent) = Queued(r, sent)
    BY <1>1, UptoIsNat DEF Queued
  <2>2. Queued(q, sent) + q.buffer = Len(more)
    BY <1>1, <1>3, <2>1 DEF Fits, InOrder, Writing, Keeping, Closing
  <2> QED
    BY <1>1, <2>2 DEF Fits, InOrder, Writing, Keeping, Closing
<1>5. OfAuthors(q, more, list)
  <2>1. \A k \in 1..Len(more) : k \in 1..Len(text) \/ k = Len(text) + 1
    BY <1>3
  <2>2. r.pc \notin Before /\ \A i \in r.todo : i \in 1..Len(list) /\ list[i] # r.by
    BY DEF Fits, OfAuthors, Before, Writing
  <2>3. \A i \in r.todo : \A k \in 1..Len(more) : more[k] # list[i]
    BY <1>3, <2>1, <2>2 DEF Fits, OfAuthors
  <2>4. \A k \in 1..Len(more) : more[k] \in Providers
    BY <1>2, <1>3, <2>1 DEF Fits, OfAuthors, Writing, Keeping, Closing
  <2>5. r.start <= Len(text) /\ \A k \in 1..Len(text) : text[k] = r.by <=> k > r.start
    BY DEF Fits, OfAuthors
  <2>6. ASSUME NEW k \in 1..Len(more) PROVE more[k] = r.by <=> k > r.start
    <3>1. CASE k \in 1..Len(text)
      BY <3>1, <1>3, <2>5
    <3>2. CASE k = Len(text) + 1
      BY <3>2, <1>1, <1>3, <2>5
    <3> QED
      BY <3>1, <3>2, <2>1
  <2>7. r.start <= Len(more)
    BY <1>1, <1>3, <2>5
  <2> QED
    BY <1>1, <1>2, <2>2, <2>3, <2>4, <2>6, <2>7 DEF OfAuthors
<1>6. IsStored(q, more, answer, cut \/ failed)
    BY <1>1 DEF Fits, IsStored, Writing, Closing
<1>7. IsTold(q, sent, end, answer, cut, failed)
  <2>1. end = <<>>
    BY DEF Fits, IsTold, Writing, Closing
  <2> QED
    BY <1>1, <2>1 DEF Fits, IsTold, Writing, Closing
<1> QED
    BY <1>1, <1>4, <1>5, <1>6, <1>7 DEF Fits, q, more

(* A batch is sent ...                                                     *)
LEMMA SentFits ==
    ASSUME NEW r \in Turn, NEW text \in Seq(Author), NEW sent \in Seq(Batch), NEW end,
           NEW answer, NEW list, NEW cut, NEW failed, r.queue # <<>>,
           Fits(r, text, sent, end, answer, list, cut, failed)
    PROVE  /\ [r EXCEPT !.queue = Tail(@)] \in Turn
           /\ Append(sent, Head(r.queue)) \in Seq(Batch)
           /\ Fits([r EXCEPT !.queue = Tail(@)], text, Append(sent, Head(r.queue)), end, answer,
                   list, cut, failed)
<1> DEFINE head == Head(r.queue)
           tail == Tail(r.queue)
           q == [r EXCEPT !.queue = tail]
           out == Append(sent, head)
<1>0. q = [r EXCEPT !.queue = Tail(@)]
    OBVIOUS
<1>1. /\ r.queue \in Seq(Batch) /\ head \in Batch /\ tail \in Seq(Batch)
      /\ Len(tail) = Len(r.queue) - 1 /\ head = r.queue[1]
      /\ \A i \in 1..Len(tail) : tail[i] = r.queue[i + 1]
      /\ Len(r.queue) \in Nat \ {0} /\ Len(tail) \in Nat /\ Len(sent) \in Nat
    BY HeadTailProperties, EmptySeq, LenProperties DEF Turn
<1>2. /\ q \in Turn /\ q.queue = tail /\ q.pc = r.pc /\ q.todo = r.todo /\ q.by = r.by
      /\ q.start = r.start /\ q.number = r.number /\ q.broken = r.broken /\ q.buffer = r.buffer
    BY <1>1 DEF Turn
<1> HIDE DEF head, tail, q
<1>3. /\ out \in Seq(Batch) /\ Len(out) = Len(sent) + 1
      /\ \A i \in 1..Len(sent) : out[i] = sent[i]
      /\ out[Len(sent) + 1] = head /\ Upto(out) = head.upto
      /\ (Joined(sent) /\ head.from = Upto(sent) => Joined(out))
    BY <1>1, AppendProperties, Appended
<1> HIDE DEF out
<1>4. /\ head.number = Len(sent) + 1 /\ head.from = Upto(sent) /\ Joined(sent)
    BY <1>1 DEF Fits, InOrder
<1>5. Queued(q, out) = Queued(r, sent)
  <2>1. CASE tail = <<>>
    <3>1. Len(tail) = 0
      BY <2>1
    <3>2. Len(r.queue) = 1
      BY <3>1, <1>1
    <3> QED
      BY <2>1, <3>2, <1>1, <1>2, <1>3 DEF Queued, Upto
  <2>2. CASE tail # <<>>
    <3>1. Len(tail) \in 1..Len(tail) /\ Len(tail) + 1 = Len(r.queue)
      BY <2>2, <1>1, EmptySeq
    <3> QED
      BY <2>2, <3>1, <1>1, <1>2 DEF Queued, Upto
  <2> QED
    BY <2>1, <2>2
<1>6. InOrder(q, text, out)
  <2>0. /\ ~r.broken /\ r.number = Len(sent) + Len(r.queue)
        /\ \A i \in 1..Len(sent) : sent[i].number = i
    BY DEF Fits, InOrder
  <2>1. ASSUME NEW i \in 1..Len(out) PROVE out[i].number = i
    <3>1. i \in 1..Len(sent) \/ i = Len(sent) + 1
      BY <1>1, <1>3
    <3> QED
      BY <3>1, <2>0, <1>3, <1>4
  <2>2. ASSUME NEW i \in 1..Len(tail)
        PROVE  /\ tail[i].number = Len(out) + i
               /\ tail[i].from = IF i = 1 THEN Upto(out) ELSE tail[i - 1].upto
    <3>1. i + 1 \in 1..Len(r.queue) /\ i + 1 # 1 /\ (i + 1) - 1 = i
      BY <1>1
    <3>2. r.queue[i + 1].number = Len(sent) + (i + 1) /\ r.queue[i + 1].from = r.queue[i].upto
      BY <3>1 DEF Fits, InOrder
    <3>3. i # 1 => i - 1 \in 1..Len(tail) /\ (i - 1) + 1 = i
      BY <1>1
    <3> QED
      BY <3>2, <3>3, <1>1, <1>3
  <2>3. r.queue # <<>> /\ (r.pc \in Keeping => r.pc = "flush")
    BY DEF Fits, InOrder
  <2>4. r.number = Len(out) + Len(tail)
    <3>1. \A a, b \in Nat : a + b = (a + 1) + (b - 1)
      OBVIOUS
    <3> QED
      BY <3>1, <2>0, <1>1, <1>3
  <2> QED
    BY <1>2, <1>3, <1>4, <1>5, <2>0, <2>1, <2>2, <2>3, <2>4 DEF Fits, InOrder
<1>7. OfAuthors(q, text, list)
    BY <1>2 DEF Fits, OfAuthors
<1>8. IsStored(q, text, answer, cut \/ failed)
    BY <1>2 DEF Fits, IsStored
<1>9. IsTold(q, out, end, answer, cut, failed)
    BY <1>2 DEF Fits, IsTold
<1> QED
    BY <1>0, <1>2, <1>3, <1>6, <1>7, <1>8, <1>9 DEF Fits, out, head

(* ... or cannot be, which ends the chain.                                 *)
LEMMA BrokenFits ==
    ASSUME NEW r \in Turn, NEW text, NEW sent, NEW end, NEW answer, NEW list,
           NEW cut, NEW failed, r.pc \in {"flush", "cancel"},
           Fits(r, text, sent, end, answer, list, cut, failed),
           NEW q \in Turn, q.queue = <<>>, q.broken, q.pc = r.pc, q.todo = r.todo, q.by = r.by,
           q.start = r.start, q.buffer = r.buffer
    PROVE  Fits(q, text, sent, end, answer, list, cut, failed)
<1>0. Len(<<>>) = 0
    OBVIOUS
<1>1. InOrder(q, text, sent)
    BY <1>0 DEF Fits, InOrder, Keeping, Closing
<1>2. OfAuthors(q, text, list)
    BY DEF Fits, OfAuthors
<1>3. IsStored(q, text, answer, cut \/ failed)
    BY DEF Fits, IsStored
<1>4. IsTold(q, sent, end, answer, cut, failed)
    BY DEF Fits, IsTold
<1> QED
    BY <1>1, <1>2, <1>3, <1>4 DEF Fits

(* The rest of the text is given to the chain.                             *)
LEMMA FlushFits ==
    ASSUME NEW r \in Turn, NEW text \in Seq(Author), NEW sent \in Seq(Batch), NEW end,
           NEW answer, NEW list, NEW cut, NEW failed, r.buffer # 0,
           Fits(r, text, sent, end, answer, list, cut, failed)
    PROVE  /\ QueueFlush(r, Len(text)) \in Turn
           /\ Fits(QueueFlush(r, Len(text)), text, sent, end, answer, list, cut, failed)
<1> DEFINE q == QueueFlush(r, Len(text))
<1>1. /\ q \in Turn /\ q.buffer = 0
      /\ q = [r EXCEPT !.buffer = 0, !.number = q.number, !.queue = q.queue]
      /\ InOrder(q, text, sent)
    BY QueueFlushes DEF Fits
<1> HIDE DEF q
<1>2. q.pc = r.pc /\ q.todo = r.todo /\ q.by = r.by /\ q.start = r.start
    BY <1>1 DEF Turn
<1>3. OfAuthors(q, text, list)
    BY <1>2 DEF Fits, OfAuthors
<1>4. IsStored(q, text, answer, cut \/ failed)
    BY <1>2 DEF Fits, IsStored
<1>5. IsTold(q, sent, end, answer, cut, failed)
    BY <1>1, <1>2 DEF Fits, IsTold
<1> QED
    BY <1>1, <1>3, <1>4, <1>5 DEF Fits, q

(* The answer is stored.                                                   *)
LEMMA StoredFits ==
    ASSUME NEW r \in Turn, NEW text \in Seq(Author), NEW sent, NEW end, NEW answer, NEW list,
           NEW cut, NEW failed, r.pc = "insert",
           Fits(r, text, sent, end, answer, list, cut, failed)
    PROVE  LET q == [r EXCEPT !.sequence = 0, !.pc = "complete"]
               new == [by |-> r.by, from |-> r.start, upto |-> Len(text)]
           IN  q \in Turn /\ new \in Answer /\ Fits(q, text, sent, end, new, list, cut, failed)
<1> DEFINE q == [r EXCEPT !.sequence = 0, !.pc = "complete"]
           new == [by |-> r.by, from |-> r.start, upto |-> Len(text)]
<1>1. /\ q \in Turn /\ q.pc = "complete" /\ q.todo = r.todo /\ q.by = r.by /\ q.start = r.start
      /\ q.queue = r.queue /\ q.number = r.number /\ q.broken = r.broken /\ q.buffer = r.buffer
    BY DEF Turn, TurnPc
<1>2. r.by \in Author /\ \A k \in 1..Len(text) : text[k] = r.by <=> k > r.start
    BY DEF Fits, OfAuthors
<1>3. new \in Answer
    BY <1>2, LenProperties DEF Answer, Turn
<1>4. new.by = r.by /\ new.from = r.start /\ new.upto = Len(text)
    OBVIOUS
<1> HIDE DEF q, new
<1>5. new # None
    BY <1>3, ChatAssumption
<1>6. InOrder(q, text, sent)
    BY <1>1 DEF Fits, InOrder, Keeping, Closing
<1>7. OfAuthors(q, text, list)
    BY <1>1 DEF Fits, OfAuthors, Before, Writing, Keeping, Closing
<1>8. IsStored(q, text, new, cut \/ failed)
    BY <1>1, <1>2, <1>4, <1>5 DEF IsStored, Closing
<1>9. IsTold(q, sent, end, new, cut, failed)
  <2>1. end = <<>>
    BY DEF Fits, IsTold, Closing
  <2>2. Len(<<>>) = 0
    OBVIOUS
  <2> QED
    BY <1>1, <2>1, <2>2 DEF IsTold
<1> QED
    BY <1>1, <1>3, <1>6, <1>7, <1>8, <1>9 DEF Fits, q, new

End == [type : {"completed", "cancelled", "failed"}, after : Nat]

(* An end that is appended.                                                *)
LEMMA OneMoreEnd ==
    ASSUME NEW end \in Seq(End), NEW e \in End
    PROVE  /\ Append(end, e) \in Seq(End) /\ Append(end, e) # <<>>
           /\ Len(Append(end, e)) = Len(end) + 1 /\ Len(end) \in Nat
           /\ end = <<>> <=> Len(end) = 0
           /\ \A i \in 1..Len(Append(end, e)) :
                (i \in 1..Len(end) /\ Append(end, e)[i] = end[i]) \/ Append(end, e)[i] = e
<1>1. Len(end) \in Nat /\ (end = <<>> <=> Len(end) = 0)
    BY EmptySeq, LenProperties
<1>2. /\ Append(end, e) \in Seq(End) /\ Append(end, e) # <<>>
      /\ Len(Append(end, e)) = Len(end) + 1
      /\ \A i \in 1..Len(end) : Append(end, e)[i] = end[i]
      /\ Append(end, e)[Len(end) + 1] = e
    BY AppendProperties
<1>3. \A i \in 1..Len(end) + 1 : i \in 1..Len(end) \/ i = Len(end) + 1
    BY <1>1
<1> QED
    BY <1>1, <1>2, <1>3

(* chat.completed                                                          *)
LEMMA CompletedFits ==
    ASSUME NEW r \in Turn, NEW text \in Seq(Author), NEW sent \in Seq(Batch),
           NEW end \in Seq(End), NEW answer, NEW list, NEW cut, NEW failed, r.pc = "complete",
           Fits(r, text, sent, end, answer, list, cut, failed),
           NEW e \in End, e.type = "completed", e.after = Len(sent)
    PROVE  /\ [r EXCEPT !.pc = "event"] \in Turn /\ Append(end, e) \in Seq(End)
           /\ Fits([r EXCEPT !.pc = "event"], text, sent, Append(end, e), answer, list,
                   cut, failed)
<1> DEFINE q == [r EXCEPT !.pc = "event"]
           told2 == Append(end, e)
<1>1. /\ q \in Turn /\ q.pc = "event" /\ q.todo = r.todo /\ q.queue = r.queue
      /\ q.number = r.number /\ q.broken = r.broken /\ q.buffer = r.buffer
    BY DEF Turn, TurnPc
<1>2. end = <<>>
    BY DEF Fits, IsTold, Closing
<1>3. /\ told2 \in Seq(End) /\ told2 # <<>> /\ Len(told2) = 1
      /\ \A i \in 1..Len(told2) : told2[i] = e
    BY <1>2, OneMoreEnd
<1> HIDE DEF q, told2
<1>4. InOrder(q, text, sent)
    BY <1>1 DEF Fits, InOrder, Keeping, Closing
<1>5. OfAuthors(q, text, list)
    BY <1>1 DEF Fits, OfAuthors, Before, Writing, Keeping, Closing
<1>6. IsStored(q, text, answer, cut \/ failed)
    BY <1>1 DEF Fits, IsStored, Closing
<1>7. IsTold(q, sent, told2, answer, cut, failed)
  <2>1. r.queue = <<>> /\ r.buffer = 0 /\ Upto(sent) = Len(text)
    BY DEF Fits, InOrder, Keeping
  <2>2. answer # None /\ answer.upto = Len(text)
    BY DEF Fits, IsStored
  <2> QED
    BY <1>1, <1>3, <2>1, <2>2 DEF IsTold, Closing
<1> QED
    BY <1>1, <1>3, <1>4, <1>5, <1>6, <1>7 DEF Fits, q, told2

(* A turn that is over, its end told ...                                   *)
LEMMA OverFits ==
    ASSUME NEW r \in Turn, NEW text \in Seq(Author), NEW sent \in Seq(Batch), NEW end,
           NEW answer, NEW list, NEW cut, NEW failed,
           Fits(r, text, sent, end, answer, list, cut, failed),
           r.pc = "event" \/ (r.pc \in {"cancel", "fail"} /\ cut)
    PROVE  /\ Over(r) \in Turn
           /\ Fits(Over(r), text, sent, end, answer, list, cut, failed)
<1> DEFINE q == Over(r)
<1>1. /\ q \in Turn /\ q.pc = "done" /\ q.todo = {} /\ q.queue = r.queue /\ q.buffer = r.buffer
      /\ q.number = r.number /\ q.broken = FALSE
    BY DEF Over, AtRest, Turn, TurnPc
<1> HIDE DEF q
<1>2. InOrder(q, text, sent)
    BY <1>1 DEF Fits, InOrder, Queued, Keeping, Closing
<1>3. OfAuthors(q, text, list)
    BY <1>1 DEF OfAuthors, Before, Writing, Keeping, Closing
<1>4. IsStored(q, text, answer, cut \/ failed)
    BY <1>1 DEF Fits, IsStored, Closing
<1>5. IsTold(q, sent, end, answer, cut, failed)
    BY <1>1 DEF Fits, IsTold, Closing
<1> QED
    BY <1>1, <1>2, <1>3, <1>4, <1>5 DEF Fits, q

(* ... by the catch block.                                                 *)
LEMMA ToldFits ==
    ASSUME NEW r \in Turn, NEW text \in Seq(Author), NEW sent \in Seq(Batch),
           NEW end \in Seq(End), NEW answer, NEW list, NEW cut, NEW failed,
           Fits(r, text, sent, end, answer, list, cut, failed), r.pc \in {"cancel", "fail"},
           NEW e \in End, e.after = Len(sent),
           e.type # "failed" => e.type = "cancelled" /\ r.pc = "cancel" /\ r.queue = <<>>
    PROVE  /\ Over(r) \in Turn /\ Append(end, e) \in Seq(End)
           /\ Fits(Over(r), text, sent, Append(end, e), answer, list, cut, failed)
<1> DEFINE q == Over(r)
           new == Append(end, e)
<1>1. /\ q \in Turn /\ q.pc = "done" /\ q.todo = {} /\ q.queue = r.queue /\ q.buffer = r.buffer
      /\ q.number = r.number /\ q.broken = FALSE
    BY DEF Over, AtRest, Turn, TurnPc
<1>2. /\ new \in Seq(End) /\ new # <<>> /\ Len(new) = Len(end) + 1 /\ Len(end) \in Nat
      /\ end = <<>> <=> Len(end) = 0
      /\ \A i \in 1..Len(new) : (i \in 1..Len(end) /\ new[i] = end[i]) \/ new[i] = e
    BY OneMoreEnd
<1> HIDE DEF q, new
<1>3. InOrder(q, text, sent)
    BY <1>1 DEF Fits, InOrder, Queued, Keeping, Closing
<1>4. OfAuthors(q, text, list)
    BY <1>1 DEF OfAuthors, Before, Writing, Keeping, Closing
<1>5. IsStored(q, text, answer, cut \/ failed)
    BY <1>1 DEF Fits, IsStored, Closing
<1>6. IsTold(q, sent, new, answer, cut, failed)
  <2>1. Len(new) > 1 => failed
    BY <1>2 DEF Fits, IsTold
  <2>2. e.type # "failed" => q.queue = <<>> /\ q.buffer = 0 /\ (answer = None \/ cut \/ failed)
    BY <1>1 DEF Fits, InOrder, IsStored
  <2> QED
    BY <1>1, <1>2, <2>1, <2>2 DEF Fits, IsTold, Closing
<1> QED
    BY <1>1, <1>2, <1>3, <1>4, <1>5, <1>6 DEF Fits, q, new

(* A turn whose process is gone.                                           *)
LEMMA GoneFits ==
    ASSUME NEW r \in Turn, NEW text, NEW sent, NEW end, NEW answer, NEW list,
           NEW cut, NEW failed,
           Fits(r, text, sent, end, answer, list, cut, failed),
           NEW q \in Turn, q.pc = "gone" \/ (q.pc = "done" /\ r.pc = "done"),
           q.todo = {}, q.queue = <<>>, q.buffer = 0
    PROVE  Fits(q, text, sent, end, answer, list, cut, failed)
<1>0. Len(<<>>) = 0
    OBVIOUS
<1>1. InOrder(q, text, sent)
    BY <1>0 DEF Fits, InOrder, Queued, Keeping, Closing
<1>2. OfAuthors(q, text, list)
    BY DEF OfAuthors, Before, Writing, Keeping, Closing
<1>3. IsStored(q, text, answer, cut \/ failed)
    BY DEF Fits, IsStored, Closing
<1>4. IsTold(q, sent, end, answer, cut, failed)
    BY DEF Fits, IsTold, Closing
<1> QED
    BY <1>1, <1>2, <1>3, <1>4 DEF Fits

LEMMA GoneIsTyped ==
    ASSUME NEW pc \in {"gone", "done"}, NEW q, q = [AtRest EXCEPT !.pc = pc]
    PROVE  q \in Turn /\ q.pc = pc /\ q.todo = {} /\ q.queue = <<>> /\ q.buffer = 0
<1>0. <<>> \in Seq(Batch)
    OBVIOUS
<1> QED
    BY <1>0 DEF AtRest, Turn, TurnPc

(* The step of one turn, and of what it may change besides.                *)
Moved(t, q, text, sent, end, answer) ==
    /\ q \in Turn /\ text \in Seq(Author) /\ sent \in Seq(Batch) /\ end \in Seq(End)
    /\ answer \in Answer \cup {None}
    /\ turn' = [turn EXCEPT ![t] = q] /\ written' = [written EXCEPT ![t] = text]
    /\ delivered' = [delivered EXCEPT ![t] = sent] /\ ends' = [ends EXCEPT ![t] = end]
    /\ saved' = [saved EXCEPT ![t] = answer]
    /\ busy' \subseteq Providers /\ rows' \in Nat /\ server' \in BOOLEAN
    /\ mishaps' \in 0..MaxMishaps
    /\ link' = link /\ down' = down /\ unaudited' \in BOOLEAN /\ (unaudited => unaudited')
    /\ Fits(q, text, sent, end, answer, Candidates[t], down, unaudited')

LEMMA TurnMoves ==
    ASSUME ChatInv, NEW t \in Turns, NEW q, NEW text, NEW sent, NEW end, NEW answer,
           Moved(t, q, text, sent, end, answer)
    PROVE  ChatInv'
<1>1. ChatTypeOK
    BY DEF ChatInv
<1>2. /\ turn' \in [Turns -> Turn] /\ written' \in [Turns -> Seq(Author)]
      /\ delivered' \in [Turns -> Seq(Batch)] /\ ends' \in [Turns -> Seq(End)]
      /\ saved' \in [Turns -> Answer \cup {None}]
    BY <1>1 DEF ChatTypeOK, End, Moved
<1>3. ChatTypeOK'
    BY <1>1, <1>2 DEF ChatTypeOK, End, Moved
<1>4. ASSUME NEW s \in Turns PROVE TurnInv(s)'
  <2>1. CASE s = t
    BY <2>1, <1>1 DEF ChatTypeOK, TurnInv, Moved
  <2>2. CASE s # t
    <3>1. /\ turn'[s] = turn[s] /\ written'[s] = written[s] /\ delivered'[s] = delivered[s]
          /\ ends'[s] = ends[s] /\ saved'[s] = saved[s]
      BY <2>2, <1>1 DEF ChatTypeOK, Moved
    <3>2. TurnInv(s)
      BY DEF ChatInv
    <3> QED
      BY <3>1, <3>2, LaterFits DEF TurnInv, Moved
  <2> QED
    BY <2>1, <2>2
<1> QED
    BY <1>3, <1>4 DEF ChatInv, Moved

(* A step that nothing is written, sent, told or stored in.                *)
LEMMA QuietMoves ==
    ASSUME ChatInv, NEW t \in Turns, NEW q \in Turn, turn' = [turn EXCEPT ![t] = q],
           busy' \subseteq Providers, rows' \in Nat, server' \in BOOLEAN,
           UNCHANGED <<link, told, saved, chatHistory>>,
           Fits(q, written[t], delivered[t], ends[t], saved[t], Candidates[t], down, unaudited)
    PROVE  ChatInv'
<1>1. ChatTypeOK
    BY DEF ChatInv
<1>2. /\ written' = [written EXCEPT ![t] = written[t]] /\ written[t] \in Seq(Author)
      /\ delivered' = [delivered EXCEPT ![t] = delivered[t]] /\ delivered[t] \in Seq(Batch)
      /\ ends' = [ends EXCEPT ![t] = ends[t]] /\ ends[t] \in Seq(End)
      /\ saved' = [saved EXCEPT ![t] = saved[t]] /\ saved[t] \in Answer \cup {None}
    BY <1>1 DEF told, ChatTypeOK, End
<1>3. mishaps' \in 0..MaxMishaps /\ UNCHANGED <<link, down, unaudited>> /\ unaudited' \in BOOLEAN
    BY <1>1 DEF chatHistory, ChatTypeOK
<1>4. Fits(q, written[t], delivered[t], ends[t], saved[t], Candidates[t], down, unaudited')
    BY <1>3
<1>5. Moved(t, q, written[t], delivered[t], ends[t], saved[t])
    BY <1>2, <1>3, <1>4 DEF Moved
<1> QED
    BY <1>5, TurnMoves

(* Of a turn that the invariant says is one.                               *)
LEMMA TurnFacts ==
    ASSUME ChatInv, NEW t \in Turns
    PROVE  /\ turn[t] \in Turn /\ turn[t].pc \in TurnPc /\ written[t] \in Seq(Author)
           /\ delivered[t] \in Seq(Batch) /\ ends[t] \in Seq(End)
           /\ saved[t] \in Answer \cup {None}
           /\ Candidates[t] \in Seq(Providers)
           /\ Fits(turn[t], written[t], delivered[t], ends[t], saved[t], Candidates[t],
                   down, unaudited)
           /\ turn[t].pc \notin {"complete", "event"} \cup Closing => saved[t] = None
           /\ turn[t].pc \notin {"event"} \cup Closing => ends[t] = <<>>
           /\ busy \subseteq Providers /\ rows \in Nat /\ server \in BOOLEAN /\ link \in BOOLEAN
           /\ unaudited \in BOOLEAN /\ mishaps \in 0..MaxMishaps
           /\ DOMAIN turn = Turns
<1>1. turn[t] \in Turn
    BY DEF ChatInv, ChatTypeOK
<1>2. Fits(turn[t], written[t], delivered[t], ends[t], saved[t], Candidates[t], down, unaudited)
    BY DEF ChatInv, TurnInv
<1>3. turn[t].pc \in TurnPc
    BY <1>1 DEF Turn
<1> QED
    BY <1>1, <1>2, <1>3, ChatAssumption DEF ChatInv, ChatTypeOK, End, Fits, IsStored, IsTold

(* An error that leaves handle for its catch block.                        *)
LEMMA ThrowsMoves ==
    ASSUME ChatInv, NEW t \in Turns, turn[t].pc \notin {"event"} \cup Closing,
           turn[t].pc # "complete" \/ ~link, Throws(t),
           busy' \subseteq Providers, rows' \in Nat, server' \in BOOLEAN,
           UNCHANGED <<link, told, saved, chatHistory>>
    PROVE  ChatInv'
<1>1. saved[t] # None => down \/ unaudited
    BY TurnFacts DEF ChatInv
<1>2. ends[t] = <<>>
    BY TurnFacts
<1>3. /\ Thrown(turn[t]) \in Turn
      /\ Fits(Thrown(turn[t]), written[t], delivered[t], ends[t], saved[t], Candidates[t],
              down, unaudited)
    BY <1>1, <1>2, TurnFacts, ThrownFits
<1> QED
    BY <1>3, QuietMoves DEF Throws, Becomes

(* A step within one of the phases of a turn.                              *)
LEMMA OnwardMoves ==
    ASSUME ChatInv, NEW t \in Turns, NEW q, turn' = [turn EXCEPT ![t] = q], q \in Turn,
           q.todo = turn[t].todo, q.by = turn[t].by, q.start = turn[t].start,
           q.buffer = turn[t].buffer, q.queue = turn[t].queue, q.number = turn[t].number,
           q.broken = turn[t].broken,
           \/ q.pc = turn[t].pc
           \/ {turn[t].pc, q.pc} \subseteq Before
           \/ {turn[t].pc, q.pc} \subseteq Writing
           \/ {turn[t].pc, q.pc} \subseteq {"sequence", "insert"}
           \/ turn[t].pc = "flush" /\ ~turn[t].broken /\ turn[t].queue = <<>> /\ q.pc = "sequence",
           busy' \subseteq Providers, rows' \in Nat, server' \in BOOLEAN,
           UNCHANGED <<link, told, saved, chatHistory>>
    PROVE  ChatInv'
<1>1. Fits(q, written[t], delivered[t], ends[t], saved[t], Candidates[t], down, unaudited)
    BY TurnFacts, Onward
<1> QED
    BY <1>1, QuietMoves

LEMMA GoesMoves ==
    ASSUME ChatInv, NEW t \in Turns, NEW pc \in TurnPc, TurnGoes(t, pc),
           \/ {turn[t].pc, pc} \subseteq Before
           \/ {turn[t].pc, pc} \subseteq Writing
           \/ turn[t].pc = "flush" /\ ~turn[t].broken /\ turn[t].queue = <<>> /\ pc = "sequence",
           busy' \subseteq Providers, rows' \in Nat, server' \in BOOLEAN,
           UNCHANGED <<link, told, saved, chatHistory>>
    PROVE  ChatInv'
<1> DEFINE q == [turn[t] EXCEPT !.pc = pc]
<1>1. turn' = [turn EXCEPT ![t] = q]
    BY DEF TurnGoes
<1>2. /\ q \in Turn /\ q.pc = pc /\ q.todo = turn[t].todo /\ q.by = turn[t].by
      /\ q.start = turn[t].start /\ q.buffer = turn[t].buffer /\ q.queue = turn[t].queue
      /\ q.number = turn[t].number /\ q.broken = turn[t].broken
    BY TurnFacts DEF Turn
<1> HIDE DEF q
<1> QED
    BY <1>1, <1>2, OnwardMoves

(* A provider that has failed, and one that has an answer.                 *)
LEMMA FailAttemptMoves ==
    ASSUME ChatInv, NEW t \in Turns, turn[t].pc \in Writing, FailAttempt(t),
           server' \in BOOLEAN, UNCHANGED <<rows, link, told, saved, chatHistory>>
    PROVE  ChatInv'
<1> DEFINE q == [turn[t] EXCEPT !.pc = "try", !.by = None]
<1>1. busy' \subseteq Providers /\ rows' \in Nat
    BY TurnFacts DEF FailAttempt, Released
<1>2. CASE turn[t].aborted
    BY <1>1, <1>2, ThrowsMoves DEF FailAttempt, Writing, Closing
<1>3. CASE ~turn[t].aborted
  <2>1. turn' = [turn EXCEPT ![t] = q]
    BY <1>3, TurnFacts DEF FailAttempt
  <2>2. /\ q \in Turn
        /\ Fits(q, written[t], delivered[t], ends[t], saved[t], Candidates[t], down, unaudited)
    BY TurnFacts, FailedAttemptFits
  <2> HIDE DEF q
  <2> QED
    BY <1>1, <2>1, <2>2, QuietMoves
<1> QED
    BY <1>2, <1>3

LEMMA SucceedMoves ==
    ASSUME ChatInv, NEW t \in Turns, turn[t].pc \in Writing, Succeed(t),
           UNCHANGED <<rows, link, server, told, saved, chatHistory>>
    PROVE  ChatInv'
<1> DEFINE q == Answered(turn[t], Len(written[t]))
<1>1. /\ InOrder(turn[t], written[t], delivered[t])
      /\ \A i \in turn[t].todo : /\ i \in 1..Len(Candidates[t])
                                 /\ \A k \in 1..Len(written[t]) : written[t][k] # Candidates[t][i]
      /\ turn[t].by \in Author /\ turn[t].start <= Len(written[t])
      /\ \A k \in 1..Len(written[t]) : written[t][k] = turn[t].by <=> k > turn[t].start
    BY TurnFacts DEF Fits, OfAuthors
<1>2. saved[t] = None /\ ends[t] = <<>>
    BY TurnFacts DEF Writing, Closing
<1>3. /\ q \in Turn
      /\ Fits(q, written[t], delivered[t], ends[t], saved[t], Candidates[t], down, unaudited)
    BY <1>1, <1>2, TurnFacts, AnswerFits
<1>4. busy' \subseteq Providers /\ rows' \in Nat /\ server' \in BOOLEAN
    BY TurnFacts DEF Succeed, Released
<1>5. turn' = [turn EXCEPT ![t] = q]
    BY DEF Succeed, Becomes
<1> HIDE DEF q
<1> QED
    BY <1>3, <1>4, <1>5, QuietMoves

-------------------------------------------------------------------------------
(* The steps of handle, up to the answer.                                  *)
LEMMA BeginHolds ==
    ASSUME ChatInv, NEW t \in Turns, Begin(t) PROVE ChatInv'
BY TurnFacts, GoesMoves DEF Begin, TurnAt, Before, TurnPc

LEMMA ReadSequenceHolds ==
    ASSUME ChatInv, NEW t \in Turns, ReadSequence(t) PROVE ChatInv'
<1>0. busy' \subseteq Providers /\ rows' \in Nat /\ server' \in BOOLEAN
    BY TurnFacts DEF ReadSequence
<1>1. ASSUME NEW pc \in TurnPc,
             {turn[t].pc, pc} \subseteq Before \/ {turn[t].pc, pc} \subseteq {"sequence", "insert"},
             turn' = [turn EXCEPT ![t].sequence = rows + 1, ![t].pc = pc]
      PROVE  ChatInv'
  <2> DEFINE q == [turn[t] EXCEPT !.sequence = rows + 1, !.pc = pc]
  <2>1. turn' = [turn EXCEPT ![t] = q]
    BY <1>1, TurnFacts DEF Turn
  <2>2. rows + 1 \in Nat
    BY TurnFacts
  <2>3. /\ q \in Turn /\ q.pc = pc /\ q.todo = turn[t].todo /\ q.by = turn[t].by
        /\ q.start = turn[t].start /\ q.buffer = turn[t].buffer /\ q.queue = turn[t].queue
        /\ q.number = turn[t].number /\ q.broken = turn[t].broken
    BY <2>2, TurnFacts DEF Turn
  <2> HIDE DEF q
  <2> QED
    BY <1>0, <1>1, <2>1, <2>3, OnwardMoves DEF ReadSequence
<1>2. ASSUME turn[t].pc = "resolve", Throws(t) PROVE ChatInv'
    BY <1>0, <1>2, ThrowsMoves DEF ReadSequence, Closing
<1> QED
    BY <1>1, <1>2 DEF ReadSequence, TurnAt, Before, TurnPc

LEMMA InsertHolds ==
    ASSUME ChatInv, NEW t \in Turns, Insert(t) PROVE ChatInv'
<1>0. busy' \subseteq Providers /\ rows' \in Nat /\ server' \in BOOLEAN
    BY TurnFacts DEF Insert
<1>1. CASE turn[t].sequence # rows + 1
    BY <1>0, <1>1, ThrowsMoves DEF Insert, TurnAt, Closing
<1>2. CASE turn[t].sequence = rows + 1 /\ turn[t].pc = "userInsert"
  <2> DEFINE q == [turn[t] EXCEPT !.sequence = 0, !.pc = "accept"]
  <2>1. turn' = [turn EXCEPT ![t] = q] /\ UNCHANGED <<link, told, saved, chatHistory>>
    BY <1>2, TurnFacts DEF Insert, Turn, TurnAt
  <2>2. /\ q \in Turn /\ q.pc = "accept" /\ q.todo = turn[t].todo /\ q.by = turn[t].by
        /\ q.start = turn[t].start /\ q.buffer = turn[t].buffer /\ q.queue = turn[t].queue
        /\ q.number = turn[t].number /\ q.broken = turn[t].broken
    BY TurnFacts DEF Turn, TurnPc
  <2> HIDE DEF q
  <2> QED
    BY <1>0, <1>2, <2>1, <2>2, OnwardMoves DEF Before
<1>3. CASE turn[t].sequence = rows + 1 /\ turn[t].pc = "insert"
  <2> DEFINE q == [turn[t] EXCEPT !.sequence = 0, !.pc = "complete"]
             new == [by |-> turn[t].by, from |-> turn[t].start, upto |-> Len(written[t])]
  <2>1. turn' = [turn EXCEPT ![t] = q] /\ saved' = [saved EXCEPT ![t] = new]
    BY <1>3, TurnFacts DEF Insert, Turn, TurnAt
  <2>3. /\ q \in Turn /\ new \in Answer
        /\ Fits(q, written[t], delivered[t], ends[t], new, Candidates[t], down, unaudited)
    BY <1>3, TurnFacts, StoredFits
  <2> HIDE DEF q, new
  <2>4. /\ written' = [written EXCEPT ![t] = written[t]]
        /\ delivered' = [delivered EXCEPT ![t] = delivered[t]]
        /\ ends' = [ends EXCEPT ![t] = ends[t]] /\ new \in Answer \cup {None}
        /\ UNCHANGED <<link, down>> /\ unaudited' = unaudited /\ unaudited' \in BOOLEAN
        /\ mishaps' \in 0..MaxMishaps
    BY <2>3, TurnFacts DEF ChatInv, ChatTypeOK, Insert, told, chatHistory
  <2>5. Moved(t, q, written[t], delivered[t], ends[t], new)
    BY <1>0, <2>1, <2>3, <2>4, TurnFacts DEF Moved
  <2> QED
    BY <2>5, TurnMoves
<1> QED
    BY <1>1, <1>2, <1>3 DEF Insert, TurnAt

LEMMA AcceptHolds ==
    ASSUME ChatInv, NEW t \in Turns, Accept(t) PROVE ChatInv'
<1>1. CASE link
    BY <1>1, TurnFacts, GoesMoves DEF Accept, TurnAt, Before, TurnPc
<1>2. CASE ~link
    BY <1>2, TurnFacts, ThrowsMoves DEF Accept, TurnAt, Closing
<1> QED
    BY <1>1, <1>2

LEMMA RouteHolds ==
    ASSUME ChatInv, NEW t \in Turns, Route(t) PROVE ChatInv'
<1>1. PICK ready \in SUBSET (Providers \ busy) :
        turn' = [turn EXCEPT ![t].pc = "try",
                             ![t].todo = {i \in 1..Len(Candidates[t]) :
                                            Candidates[t][i] \in ready}]
    BY DEF Route
<1> DEFINE todo == {i \in 1..Len(Candidates[t]) : Candidates[t][i] \in ready}
           q == [turn[t] EXCEPT !.pc = "try", !.todo = todo]
<1>2. turn' = [turn EXCEPT ![t] = q]
    BY <1>1, TurnFacts DEF Turn
<1>3. turn[t].pc = "route" /\ UNCHANGED <<busy, rows, link, server, told, saved, chatHistory>>
    BY DEF Route, TurnAt
<1>4. todo \in SUBSET Nat /\ \A i \in todo : i \in 1..Len(Candidates[t])
    BY TurnFacts, LenProperties
<1> HIDE DEF todo
<1>5. /\ q \in Turn /\ q.pc = "try" /\ q.todo = todo /\ q.by = turn[t].by
      /\ q.start = turn[t].start /\ q.buffer = turn[t].buffer /\ q.queue = turn[t].queue
      /\ q.number = turn[t].number /\ q.broken = turn[t].broken
    BY <1>4, TurnFacts DEF Turn, TurnPc
<1> HIDE DEF q
<1>6. Fits(q, written[t], delivered[t], ends[t], saved[t], Candidates[t], down, unaudited)
    BY <1>3, <1>4, <1>5, TurnFacts, RoutedFits
<1> QED
    BY <1>2, <1>3, <1>5, <1>6, TurnFacts, QuietMoves

LEMMA TryHolds ==
    ASSUME ChatInv, NEW t \in Turns, Try(t) PROVE ChatInv'
<1> DEFINE p(i) == Candidates[t][i]
           rest(i) == [turn[t] EXCEPT !.todo = @ \ {i}]
<1>0. turn[t].pc = "try" /\ UNCHANGED <<rows, link, server, told, saved, chatHistory>>
    BY DEF Try, TurnAt
<1>1. PICK i \in turn[t].todo :
        \/ Throws(t) /\ UNCHANGED busy
        \/ Becomes(t, rest(i)) /\ UNCHANGED busy
        \/ /\ busy' = busy \cup {p(i)}
           /\ Becomes(t, [rest(i) EXCEPT !.by = p(i), !.start = Len(written[t]), !.over = FALSE,
                                         !.pc = IF p(i) = Codex THEN "thread" ELSE "spawn"])
    BY DEF Try
<1>2. i \in 1..Len(Candidates[t])
    BY TurnFacts DEF Fits, OfAuthors
<1>3. p(i) \in Providers
    BY <1>2, TurnFacts, ElementOfSeq
<1>4. busy' \subseteq Providers /\ rows' \in Nat /\ server' \in BOOLEAN
    BY <1>0, <1>1, <1>3, TurnFacts
<1>5. CASE Throws(t)
    BY <1>0, <1>4, <1>5, ThrowsMoves DEF Closing
<1>6. ASSUME NEW q \in Turn, Becomes(t, q), q.todo = turn[t].todo \ {i}, q.buffer = turn[t].buffer,
             q.queue = turn[t].queue, q.number = turn[t].number, q.broken = turn[t].broken,
             q.pc = "try" \/ (q.pc \in Writing /\ q.by = p(i) /\ q.start = Len(written[t]))
      PROVE  ChatInv'
  <2>1. \A j, k \in 1..Len(Candidates[t]) : Candidates[t][j] = Candidates[t][k] => j = k
    BY ChatAssumption
  <2>2. Fits(q, written[t], delivered[t], ends[t], saved[t], Candidates[t], down, unaudited)
    BY <1>0, <1>6, <2>1, TurnFacts, TriedFits
  <2> QED
    BY <1>0, <1>4, <1>6, <2>2, QuietMoves DEF Becomes
<1>7. /\ rest(i) \in Turn /\ rest(i).todo = turn[t].todo \ {i} /\ rest(i).pc = "try"
      /\ rest(i).buffer = turn[t].buffer /\ rest(i).queue = turn[t].queue
      /\ rest(i).number = turn[t].number /\ rest(i).broken = turn[t].broken
    BY <1>0, TurnFacts DEF Turn
<1> HIDE DEF rest, p
<1>8. CASE Becomes(t, rest(i))
    BY <1>6, <1>7, <1>8
<1>9. CASE Becomes(t, [rest(i) EXCEPT !.by = p(i), !.start = Len(written[t]), !.over = FALSE,
                                      !.pc = IF p(i) = Codex THEN "thread" ELSE "spawn"])
  <2>1. PICK pc \in {"thread", "spawn"} :
          Becomes(t, [rest(i) EXCEPT !.by = p(i), !.start = Len(written[t]), !.over = FALSE,
                                     !.pc = pc])
    BY <1>9
  <2> DEFINE q == [rest(i) EXCEPT !.by = p(i), !.start = Len(written[t]), !.over = FALSE,
                                  !.pc = pc]
  <2>2. Len(written[t]) \in Nat /\ p(i) \in Author
    BY <1>3, TurnFacts, LenProperties DEF Author
  <2>3. /\ q \in Turn /\ q.todo = rest(i).todo /\ q.pc = pc /\ q.by = p(i)
        /\ q.start = Len(written[t]) /\ q.buffer = rest(i).buffer /\ q.queue = rest(i).queue
        /\ q.number = rest(i).number /\ q.broken = rest(i).broken
    BY <1>7, <2>2 DEF Turn, TurnPc
  <2>4. Becomes(t, q)
    BY <2>1
  <2> HIDE DEF q
  <2> QED
    BY <1>6, <1>7, <2>3, <2>4 DEF Writing
<1> QED
    BY <1>1, <1>5, <1>8, <1>9 DEF rest, p

LEMMA SummarizeHolds ==
    ASSUME ChatInv, NEW t \in Turns, Summarize(t) PROVE ChatInv'
<1>0. turn[t].pc = "try" /\ turn[t].todo = {}
    BY DEF Summarize, TurnAt
<1>1. CASE ~Deterministic
    BY <1>0, <1>1, TurnFacts, ThrowsMoves DEF Summarize, told, Closing
<1>2. CASE Deterministic
  <2> DEFINE text == written[t]
             more == Append(text, Summary)
             r == [turn[t] EXCEPT !.by = Summary, !.start = Len(text), !.buffer = @ + 1]
             q == Answered(r, Len(text) + 1)
  <2>1. /\ Summary \in Author /\ Summary \notin Providers /\ turn[t].queue \in Seq(Batch)
        /\ turn[t].buffer \in Nat /\ turn[t].buffer + 1 \in Nat
    BY TurnFacts, ChatAssumption DEF Author, Turn
  <2>2. /\ more \in Seq(Author) /\ Len(text) \in Nat /\ Len(more) = Len(text) + 1
        /\ \A k \in 1..Len(text) : more[k] = text[k]
        /\ more[Len(text) + 1] = Summary
    BY <2>1, TurnFacts, AppendProperties, LenProperties
  <2>3. r = [turn[t] EXCEPT !.by = Summary, !.start = Len(text), !.buffer = turn[t].buffer + 1]
    BY TurnFacts DEF Turn
  <2>4. turn' = [turn EXCEPT ![t] = q] /\ written' = [written EXCEPT ![t] = more]
    BY <1>2 DEF Summarize, Becomes
  <2> HIDE DEF r
  <2>5. /\ r \in Turn /\ r.pc = "try" /\ r.todo = {} /\ r.by = Summary /\ r.start = Len(text)
        /\ r.buffer = turn[t].buffer + 1 /\ r.queue = turn[t].queue
        /\ r.number = turn[t].number /\ r.broken = turn[t].broken
    BY <1>0, <2>1, <2>2, <2>3, TurnFacts DEF Turn
  <2>6. InOrder(r, more, delivered[t])
    <3>1. InOrder(turn[t], text, delivered[t])
      BY TurnFacts DEF Fits
    <3>2. Queued(turn[t], delivered[t]) \in Nat
      BY <2>1, TurnFacts, UptoIsNat DEF Queued
    <3>3. Queued(turn[t], delivered[t]) + turn[t].buffer = Len(text)
      BY <1>0, <3>1 DEF InOrder, Keeping, Closing
    <3>4. Queued(r, delivered[t]) + r.buffer = Len(more)
      BY <2>1, <2>2, <2>5, <3>2, <3>3 DEF Queued
    <3> HIDE DEF more
    <3> QED
      BY <1>0, <2>5, <3>1, <3>4 DEF InOrder, Keeping, Closing
  <2>7. \A k \in 1..Len(text) : text[k] # Summary
    BY <1>0, <2>1, TurnFacts DEF Fits, OfAuthors, Keeping, Closing
  <2> HIDE DEF more
  <2>8. \A k \in 1..Len(more) : more[k] = r.by <=> k > r.start
    <3> SUFFICES ASSUME NEW k \in 1..Len(more) PROVE more[k] = Summary <=> k > Len(text)
      BY <2>5
    <3>1. CASE k \in 1..Len(text)
      BY <3>1, <2>2, <2>7
    <3>2. CASE k = Len(text) + 1
      BY <3>2, <2>2
    <3> QED
      BY <3>1, <3>2, <2>2
  <2>9. saved[t] = None /\ ends[t] = <<>>
    BY <1>0, TurnFacts DEF Closing
  <2>10. r.by \in Author /\ r.start <= Len(more)
    BY <2>1, <2>2, <2>5
  <2>11. q = Answered(r, Len(more))
    BY <2>2
  <2> HIDE DEF q
  <2>12. q \in Turn /\ Fits(q, more, delivered[t], <<>>, None, Candidates[t], down, unaudited)
    BY <2>2, <2>5, <2>6, <2>8, <2>10, <2>11, TurnFacts, AnswerFits
  <2>13. /\ delivered' = [delivered EXCEPT ![t] = delivered[t]]
         /\ ends' = [ends EXCEPT ![t] = ends[t]] /\ saved' = [saved EXCEPT ![t] = saved[t]]
         /\ UNCHANGED <<link, down, unaudited, mishaps, busy, rows, server>>
    BY DEF ChatInv, ChatTypeOK, Summarize, chatHistory
  <2>14. Moved(t, q, more, delivered[t], ends[t], saved[t])
    BY <2>2, <2>4, <2>9, <2>12, <2>13, TurnFacts DEF Moved
  <2> QED
    BY <2>14, TurnMoves
<1> QED
    BY <1>1, <1>2

-------------------------------------------------------------------------------
(* The steps of the providers.                                             *)
LEMMA DeltaHolds ==
    ASSUME ChatInv, NEW t \in Turns, Delta(t) PROVE ChatInv'
<1> DEFINE q == [turn[t] EXCEPT !.buffer = @ + 1]
           more == Append(written[t], turn[t].by)
<1>1. turn[t].pc \in Writing
    BY DEF Delta, TurnAt, Writing
<1>2. turn' = [turn EXCEPT ![t] = q] /\ written' = [written EXCEPT ![t] = more]
    BY TurnFacts DEF Delta, Turn
<1>3. /\ q \in Turn
      /\ Fits(q, more, delivered[t], ends[t], saved[t], Candidates[t], down, unaudited)
    BY <1>1, TurnFacts, DeltaFits
<1>4. more \in Seq(Author)
  <2>1. turn[t].by \in Author
    BY <1>1, TurnFacts DEF Fits, OfAuthors, Author
  <2> QED
    BY <2>1, TurnFacts, AppendProperties
<1> HIDE DEF q, more
<1>5. /\ delivered' = [delivered EXCEPT ![t] = delivered[t]]
      /\ ends' = [ends EXCEPT ![t] = ends[t]] /\ saved' = [saved EXCEPT ![t] = saved[t]]
      /\ UNCHANGED <<link, down, unaudited, mishaps, busy, rows, server>>
    BY DEF ChatInv, ChatTypeOK, Delta, chatHistory
<1>6. Moved(t, q, more, delivered[t], ends[t], saved[t])
    BY <1>2, <1>3, <1>4, <1>5, TurnFacts DEF Moved
<1> QED
    BY <1>6, TurnMoves

LEMMA ThreadHolds ==
    ASSUME ChatInv, NEW t \in Turns, Thread(t) PROVE ChatInv'
<1>1. turn[t].pc = "thread" /\ UNCHANGED <<rows, link, told, saved, chatHistory>>
    BY DEF Thread, TurnAt
<1>2. CASE TurnGoes(t, "turnStart") /\ server' = TRUE /\ UNCHANGED busy
    BY <1>1, <1>2, TurnFacts, GoesMoves DEF Writing, TurnPc
<1>3. CASE FailAttempt(t) /\ server' \in {server, TRUE}
    BY <1>1, <1>3, TurnFacts, FailAttemptMoves DEF Writing
<1> QED
    BY <1>2, <1>3 DEF Thread

LEMMA TurnStartHolds ==
    ASSUME ChatInv, NEW t \in Turns, TurnStart(t) PROVE ChatInv'
<1>1. turn[t].pc = "turnStart" /\ UNCHANGED <<rows, link, server, told, saved, chatHistory>>
    BY DEF TurnStart, TurnAt
<1>2. CASE TurnGoes(t, "started") /\ UNCHANGED busy
    BY <1>1, <1>2, TurnFacts, GoesMoves DEF Writing, TurnPc
<1>3. CASE FailAttempt(t)
    BY <1>1, <1>3, TurnFacts, FailAttemptMoves DEF Writing
<1> QED
    BY <1>2, <1>3 DEF TurnStart

LEMMA SpawnHolds ==
    ASSUME ChatInv, NEW t \in Turns, Spawn(t) PROVE ChatInv'
<1>1. turn[t].pc = "spawn" /\ UNCHANGED <<rows, link, server, told, saved, chatHistory>>
    BY DEF Spawn, TurnAt
<1>2. CASE TurnGoes(t, "running") /\ UNCHANGED busy
    BY <1>1, <1>2, TurnFacts, GoesMoves DEF Writing, TurnPc
<1>3. CASE FailAttempt(t)
    BY <1>1, <1>3, TurnFacts, FailAttemptMoves DEF Writing
<1> QED
    BY <1>2, <1>3 DEF Spawn

LEMMA StartedHolds ==
    ASSUME ChatInv, NEW t \in Turns, Started(t) PROVE ChatInv'
<1>1. turn[t].pc = "started" /\ UNCHANGED <<busy, rows, link, server, told, saved, chatHistory>>
    BY DEF Started, TurnAt
<1>2. PICK pc \in {"interrupt", "waiting"} : TurnGoes(t, pc)
    BY DEF Started
<1> QED
    BY <1>1, <1>2, TurnFacts, GoesMoves DEF Writing, TurnPc

LEMMA CompletedHolds ==
    ASSUME ChatInv, NEW t \in Turns, Completed(t) PROVE ChatInv'
<1>1. turn[t].pc \in Writing /\ UNCHANGED <<rows, link, server, told, saved, chatHistory>>
    BY DEF Completed, TurnAt, Writing
<1>2. CASE Succeed(t)
    BY <1>1, <1>2, SucceedMoves
<1>3. CASE FailAttempt(t)
    BY <1>1, <1>3, TurnFacts, FailAttemptMoves
<1>4. CASE turn' = [turn EXCEPT ![t].over = TRUE] /\ UNCHANGED busy
  <2> DEFINE q == [turn[t] EXCEPT !.over = TRUE]
  <2>1. turn' = [turn EXCEPT ![t] = q]
    BY <1>4
  <2>2. /\ q \in Turn /\ q.pc = turn[t].pc /\ q.todo = turn[t].todo /\ q.by = turn[t].by
        /\ q.start = turn[t].start /\ q.buffer = turn[t].buffer /\ q.queue = turn[t].queue
        /\ q.number = turn[t].number /\ q.broken = turn[t].broken
    BY TurnFacts DEF Turn
  <2> HIDE DEF q
  <2> QED
    BY <1>1, <1>4, <2>1, <2>2, TurnFacts, OnwardMoves
<1> QED
    BY <1>2, <1>3, <1>4 DEF Completed

LEMMA TimeoutHolds ==
    ASSUME ChatInv, NEW t \in Turns, Timeout(t) PROVE ChatInv'
BY TurnFacts, GoesMoves DEF Timeout, TurnAt, Writing, TurnPc

LEMMA InterruptedHolds ==
    ASSUME ChatInv, NEW t \in Turns, Interrupted(t) PROVE ChatInv'
BY TurnFacts, FailAttemptMoves DEF Interrupted, TurnAt, Writing

LEMMA ChildEndsHolds ==
    ASSUME ChatInv, NEW t \in Turns, ChildEnds(t) PROVE ChatInv'
BY TurnFacts, SucceedMoves, FailAttemptMoves DEF ChildEnds, TurnAt, Writing

-------------------------------------------------------------------------------
(* The steps from the answer on, and those of the stream.                  *)
LEMMA FlushedHolds ==
    ASSUME ChatInv, NEW t \in Turns, Flushed(t) PROVE ChatInv'
<1>1. /\ turn[t].pc = "flush" /\ turn[t].queue = <<>>
      /\ UNCHANGED <<busy, rows, link, server, told, saved, chatHistory>>
    BY DEF Flushed, TurnAt
<1>2. CASE Throws(t)
    BY <1>1, <1>2, TurnFacts, ThrowsMoves DEF Closing
<1>3. CASE ~turn[t].broken /\ TurnGoes(t, "sequence")
    BY <1>1, <1>3, TurnFacts, GoesMoves DEF TurnPc
<1> QED
    BY <1>2, <1>3 DEF Flushed

LEMMA CancelHolds ==
    ASSUME ChatInv, NEW t \in Turns, Cancel(t) PROVE ChatInv'
<1> DEFINE q == [turn[t] EXCEPT !.aborted = TRUE]
<1>1. turn' = [turn EXCEPT ![t] = q]
    BY DEF Cancel
<1>2. /\ q \in Turn /\ q.pc = turn[t].pc /\ q.todo = turn[t].todo /\ q.by = turn[t].by
      /\ q.start = turn[t].start /\ q.buffer = turn[t].buffer /\ q.queue = turn[t].queue
      /\ q.number = turn[t].number /\ q.broken = turn[t].broken
    BY TurnFacts DEF Turn
<1> HIDE DEF q
<1> QED
    BY <1>1, <1>2, TurnFacts, OnwardMoves DEF Cancel

LEMMA FlushTimerHolds ==
    ASSUME ChatInv, NEW t \in Turns, FlushTimer(t) PROVE ChatInv'
<1> DEFINE q == QueueFlush(turn[t], Len(written[t]))
<1>1. /\ q \in Turn
      /\ Fits(q, written[t], delivered[t], ends[t], saved[t], Candidates[t], down, unaudited)
    BY TurnFacts, FlushFits DEF FlushTimer
<1>2. turn' = [turn EXCEPT ![t] = q]
    BY DEF FlushTimer, Becomes
<1> HIDE DEF q
<1> QED
    BY <1>1, <1>2, TurnFacts, QuietMoves DEF FlushTimer

(* The link and the app-server.                                            *)
LEMMA OthersHold ==
    ASSUME ChatInv, Link \/ ServerDies \/ UNCHANGED chatVars PROVE ChatInv'
<1>1. ChatTypeOK
    BY DEF ChatInv
<1>2. ChatTypeOK' /\ (~link' => down')
  <2>1. UNCHANGED <<turn, busy, rows, written, delivered, ends, saved, unaudited>>
    BY DEF Link, ServerDies, told, chatHistory, chatVars
  <2>2. link' \in BOOLEAN /\ down' \in BOOLEAN /\ (~link' => down')
    BY <1>1 DEF ChatInv, ChatTypeOK, Link, ServerDies, chatHistory, chatVars
  <2>3. server' \in BOOLEAN
    BY <1>1 DEF ChatTypeOK, Link, ServerDies, chatVars
  <2>4. mishaps' \in 0..MaxMishaps
    BY <1>1, ChatAssumption DEF ChatTypeOK, Link, ServerDies, Mishap, chatHistory, chatVars
  <2> QED
    BY <1>1, <2>1, <2>2, <2>3, <2>4 DEF ChatTypeOK
<1>3. UNCHANGED <<turn, written, delivered, ends, saved, unaudited>> /\ (down => down')
    BY DEF Link, ServerDies, told, chatHistory, chatVars
<1>4. ASSUME NEW t \in Turns PROVE TurnInv(t)'
  <2>1. TurnInv(t)
    BY DEF ChatInv
  <2> QED
    BY <1>3, <2>1, LaterFits DEF TurnInv
<1> QED
    BY <1>2, <1>4 DEF ChatInv

-------------------------------------------------------------------------------
(* A step of the end of a turn.                                            *)
LEMMA EndMoves ==
    ASSUME ChatInv, NEW t \in Turns, NEW q \in Turn, NEW new \in Seq(End),
           turn' = [turn EXCEPT ![t] = q], ends' = [ends EXCEPT ![t] = new],
           UNCHANGED <<busy, rows, link, server, written, delivered, saved, down>>,
           unaudited' \in BOOLEAN, unaudited => unaudited', mishaps' \in 0..MaxMishaps,
           Fits(q, written[t], delivered[t], new, saved[t], Candidates[t], down, unaudited')
    PROVE  ChatInv'
<1>1. /\ written' = [written EXCEPT ![t] = written[t]]
      /\ delivered' = [delivered EXCEPT ![t] = delivered[t]]
      /\ saved' = [saved EXCEPT ![t] = saved[t]]
    BY DEF ChatInv, ChatTypeOK
<1>2. /\ written[t] \in Seq(Author) /\ delivered[t] \in Seq(Batch)
      /\ saved[t] \in Answer \cup {None}
      /\ busy' \subseteq Providers /\ server' \in BOOLEAN /\ rows' \in Nat
    BY TurnFacts
<1>3. Moved(t, q, written[t], delivered[t], new, saved[t])
    BY <1>1, <1>2 DEF Moved
<1> QED
    BY <1>3, TurnMoves

LEMMA TellCompletedHolds ==
    ASSUME ChatInv, NEW t \in Turns, TellCompleted(t) PROVE ChatInv'
<1>1. /\ turn[t].pc = "complete"
      /\ UNCHANGED <<busy, rows, link, server, written, delivered, saved, chatHistory>>
    BY DEF TellCompleted, TurnAt
<1>2. CASE link
  <2> DEFINE q == [turn[t] EXCEPT !.pc = "event"]
             e == [type |-> "completed", after |-> Len(delivered[t])]
             new == Append(ends[t], e)
  <2>1. turn' = [turn EXCEPT ![t] = q] /\ ends' = [ends EXCEPT ![t] = new]
    BY <1>2, TurnFacts DEF TellCompleted, TurnGoes, Tells
  <2>2. e \in End /\ e.type = "completed" /\ e.after = Len(delivered[t])
    BY TurnFacts, LenProperties DEF End
  <2> HIDE DEF e
  <2>3. /\ q \in Turn /\ new \in Seq(End)
        /\ Fits(q, written[t], delivered[t], new, saved[t], Candidates[t], down, unaudited)
    BY <1>1, <2>2, TurnFacts, CompletedFits
  <2> HIDE DEF q, new
  <2>4. UNCHANGED <<down, unaudited, mishaps>>
    BY <1>1 DEF chatHistory
  <2> QED
    BY <1>1, <2>1, <2>3, <2>4, TurnFacts, EndMoves
<1>3. CASE ~link
    BY <1>1, <1>3, TurnFacts, ThrowsMoves DEF TellCompleted, told, Closing
<1> QED
    BY <1>2, <1>3

LEMMA EventHolds ==
    ASSUME ChatInv, NEW t \in Turns, Event(t) PROVE ChatInv'
<1>1. turn[t].pc = "event" /\ UNCHANGED <<busy, rows, link, server, told, saved, down>>
    BY DEF Event, TurnAt
<1>2. ASSUME NEW q \in Turn, Becomes(t, q), unaudited' \in BOOLEAN, unaudited => unaudited',
             mishaps' \in 0..MaxMishaps,
             Fits(q, written[t], delivered[t], ends[t], saved[t], Candidates[t], down, unaudited')
      PROVE  ChatInv'
  <2>1. UNCHANGED <<written, delivered>> /\ ends' = [ends EXCEPT ![t] = ends[t]]
    BY <1>1 DEF ChatInv, ChatTypeOK, told
  <2> QED
    BY <1>1, <1>2, <2>1, TurnFacts, EndMoves DEF Becomes
<1>3. CASE Becomes(t, Over(turn[t])) /\ UNCHANGED <<unaudited, mishaps>>
  <2>1. /\ Over(turn[t]) \in Turn
        /\ Fits(Over(turn[t]), written[t], delivered[t], ends[t], saved[t], Candidates[t],
                down, unaudited)
    BY <1>1, TurnFacts, OverFits
  <2> QED
    BY <1>2, <1>3, <2>1, TurnFacts
<1>4. CASE Throws(t) /\ Mishap /\ unaudited' = TRUE
  <2>1. /\ Thrown(turn[t]) \in Turn
        /\ Fits(Thrown(turn[t]), written[t], delivered[t], ends[t], saved[t], Candidates[t],
                down, unaudited')
    BY <1>1, <1>4, TurnFacts, ThrownFits DEF Closing
  <2>2. mishaps' \in 0..MaxMishaps
    BY <1>4, TurnFacts, ChatAssumption DEF Mishap
  <2> QED
    BY <1>2, <1>4, <2>1, <2>2 DEF Throws
<1> QED
    BY <1>3, <1>4 DEF Event

(* The process ends, with every turn that was under way; of one of them    *)
(* the end may have been told.                                             *)
LEMMA ExitMoves ==
    ASSUME ChatInv, NEW t \in Turns, Exit, NEW new \in Seq(End),
           ends' = [ends EXCEPT ![t] = new],
           UNCHANGED <<rows, link, written, delivered, saved, down>>,
           unaudited' \in BOOLEAN, unaudited => unaudited', mishaps' \in 0..MaxMishaps,
           \/ new = ends[t]
           \/ /\ turn[t].pc \notin {"idle", "done"}
              /\ \E r \in Turn : Fits(r, written[t], delivered[t], new, saved[t], Candidates[t],
                                      down, unaudited')
    PROVE  ChatInv'
<1>1. ChatTypeOK
    BY DEF ChatInv
<1>2. ASSUME NEW s \in Turns PROVE turn'[s] \in Turn /\ TurnInv(s)'
  <2>1. /\ written'[s] = written[s] /\ delivered'[s] = delivered[s] /\ saved'[s] = saved[s]
        /\ down' = down /\ ends'[s] = IF s = t THEN new ELSE ends[s]
    BY <1>1 DEF ChatTypeOK
  <2>2. CASE ends'[s] # ends[s]
    <3>1. s = t /\ turn'[t] = [AtRest EXCEPT !.pc = "gone"]
      BY <2>1, <2>2 DEF Exit, TurnAt
    <3>2. PICK r \in Turn : Fits(r, written[t], delivered[t], new, saved[t], Candidates[t],
                                 down, unaudited')
      BY <2>1, <2>2
    <3>3. /\ turn'[t] \in Turn
          /\ Fits(turn'[t], written[t], delivered[t], new, saved[t], Candidates[t],
                  down, unaudited')
      BY <3>1, <3>2, TurnFacts, GoneIsTyped, GoneFits
    <3> QED
      BY <2>1, <3>1, <3>3 DEF TurnInv
  <2>3. CASE ends'[s] = ends[s]
    <3>1. Fits(turn[s], written[s], delivered[s], ends[s], saved[s], Candidates[s],
               down, unaudited')
      BY TurnFacts, LaterFits
    <3>2. CASE turn'[s] = turn[s]
      BY <2>1, <2>3, <3>1, <3>2, TurnFacts DEF TurnInv
    <3>3. CASE turn'[s] # turn[s]
      <4>1. PICK pc \in {"gone", "done"} :
              turn'[s] = [AtRest EXCEPT !.pc = pc] /\ (pc = "done" => turn[s].pc = "done")
        BY <3>3 DEF Exit, TurnAt
      <4>2. /\ turn'[s] \in Turn /\ turn'[s].pc = pc /\ turn'[s].todo = {}
            /\ turn'[s].queue = <<>> /\ turn'[s].buffer = 0
        BY <4>1, GoneIsTyped
      <4>3. Fits(turn'[s], written[s], delivered[s], ends[s], saved[s], Candidates[s],
                 down, unaudited')
        BY <3>1, <4>1, <4>2, TurnFacts, GoneFits
      <4> QED
        BY <2>1, <2>3, <4>2, <4>3 DEF TurnInv
    <3> QED
      BY <3>2, <3>3
  <2> QED
    BY <2>2, <2>3
<1>3. turn' \in [Turns -> Turn]
    BY <1>2 DEF Exit
<1>4. ChatTypeOK'
    BY <1>1, <1>3 DEF ChatTypeOK, Exit, End
<1>5. ~link' => down'
    BY DEF ChatInv
<1> QED
    BY <1>2, <1>4, <1>5 DEF ChatInv

LEMMA SendDeltaHolds ==
    ASSUME ChatInv, NEW t \in Turns, SendDelta(t) PROVE ChatInv'
<1>1. /\ turn[t].queue # <<>> /\ UNCHANGED <<rows, link, written, ends, saved, chatHistory>>
      /\ unaudited' = unaudited /\ down' = down /\ mishaps' = mishaps
    BY DEF SendDelta, chatHistory
<1>2. ASSUME NEW q \in Turn, NEW sent \in Seq(Batch), turn' = [turn EXCEPT ![t] = q],
             delivered' = [delivered EXCEPT ![t] = sent], Stays,
             Fits(q, written[t], sent, ends[t], saved[t], Candidates[t], down, unaudited)
      PROVE  ChatInv'
  <2>1. /\ written' = [written EXCEPT ![t] = written[t]]
        /\ ends' = [ends EXCEPT ![t] = ends[t]] /\ saved' = [saved EXCEPT ![t] = saved[t]]
    BY <1>1 DEF ChatInv, ChatTypeOK
  <2>2. Fits(q, written[t], sent, ends[t], saved[t], Candidates[t], down, unaudited')
    BY <1>1, <1>2
  <2>3. /\ busy' \subseteq Providers /\ rows' \in Nat /\ server' \in BOOLEAN
        /\ mishaps' \in 0..MaxMishaps /\ UNCHANGED <<link, down>> /\ unaudited' \in BOOLEAN
        /\ (unaudited => unaudited')
    BY <1>1, <1>2, TurnFacts DEF Stays
  <2>4. Moved(t, q, written[t], sent, ends[t], saved[t])
    BY <1>2, <2>1, <2>2, <2>3, TurnFacts DEF Moved
  <2> QED
    BY <2>4, TurnMoves
<1>3. CASE /\ turn' = [turn EXCEPT ![t].queue = Tail(@)]
           /\ delivered' = [delivered EXCEPT ![t] = Append(@, Head(turn[t].queue))]
           /\ Stays
  <2> DEFINE q == [turn[t] EXCEPT !.queue = Tail(@)]
             sent == Append(delivered[t], Head(turn[t].queue))
  <2>1. turn' = [turn EXCEPT ![t] = q] /\ delivered' = [delivered EXCEPT ![t] = sent]
    BY <1>3, TurnFacts DEF ChatInv, ChatTypeOK
  <2>2. /\ q \in Turn /\ sent \in Seq(Batch)
        /\ Fits(q, written[t], sent, ends[t], saved[t], Candidates[t], down, unaudited)
    BY <1>1, TurnFacts, SentFits
  <2> HIDE DEF q, sent
  <2> QED
    BY <1>2, <1>3, <2>1, <2>2
<1>4. CASE /\ TurnAt(t, {"flush", "cancel"})
           /\ turn' = [turn EXCEPT ![t].queue = <<>>, ![t].broken = TRUE]
           /\ UNCHANGED delivered /\ Stays
  <2> DEFINE q == [turn[t] EXCEPT !.queue = <<>>, !.broken = TRUE]
  <2>0. <<>> \in Seq(Batch)
    OBVIOUS
  <2>1. turn' = [turn EXCEPT ![t] = q] /\ delivered' = [delivered EXCEPT ![t] = delivered[t]]
    BY <1>4, TurnFacts DEF ChatInv, ChatTypeOK, Turn
  <2>2. turn[t].pc \in {"flush", "cancel"}
    BY <1>4 DEF TurnAt
  <2>3. /\ q \in Turn /\ q.queue = <<>> /\ q.broken /\ q.pc = turn[t].pc
        /\ q.todo = turn[t].todo /\ q.by = turn[t].by /\ q.start = turn[t].start
        /\ q.buffer = turn[t].buffer
    BY <2>0, TurnFacts DEF Turn
  <2> HIDE DEF q
  <2>4. Fits(q, written[t], delivered[t], ends[t], saved[t], Candidates[t], down, unaudited)
    BY <2>2, <2>3, TurnFacts, BrokenFits
  <2> QED
    BY <1>2, <1>4, <2>1, <2>3, <2>4, TurnFacts
<1>5. CASE Exit /\ UNCHANGED delivered
  <2>1. ends' = [ends EXCEPT ![t] = ends[t]]
    BY <1>1 DEF ChatInv, ChatTypeOK
  <2> QED
    BY <1>1, <1>5, <2>1, TurnFacts, ExitMoves
<1> QED
    BY <1>1, <1>3, <1>4, <1>5 DEF SendDelta

(* The last steps of the catch block.                                      *)
LEMMA EndedMoves ==
    ASSUME ChatInv, NEW t \in Turns, turn[t].pc \in {"cancel", "fail"}, NEW type,
           \/ type = "failed"
           \/ type = "cancelled" /\ turn[t].pc = "cancel" /\ turn[t].queue = <<>>,
           Ended(t, type), UNCHANGED <<rows, link, written, delivered, saved, down>>
    PROVE  ChatInv'
<1> DEFINE e == [type |-> type, after |-> Len(delivered[t])]
           new == IF link THEN Append(ends[t], e) ELSE ends[t]
<1>1. e \in End /\ e.type = type /\ e.after = Len(delivered[t])
    BY TurnFacts, LenProperties DEF End
<1>2. ends' = [ends EXCEPT ![t] = new]
    BY TurnFacts DEF ChatInv, ChatTypeOK, Ended, Tells
<1>3. (down /\ new = ends[t]) \/ new = Append(ends[t], e)
    BY TurnFacts DEF ChatInv
<1> HIDE DEF e, new
<1>4. /\ unaudited' \in BOOLEAN /\ (unaudited => unaudited') /\ mishaps' \in 0..MaxMishaps
  <2>1. \/ unaudited' = unaudited /\ mishaps' = mishaps
        \/ unaudited' = TRUE /\ Mishap
    BY DEF Ended
  <2>2. mishaps' \in 0..MaxMishaps
    BY <2>1, TurnFacts, ChatAssumption DEF Mishap
  <2>3. unaudited \in BOOLEAN
    BY TurnFacts
  <2>4. unaudited' \in BOOLEAN /\ (unaudited => unaudited')
    <3>1. CASE unaudited' = unaudited
      BY <3>1, <2>3
    <3>2. CASE unaudited' = TRUE
      BY <3>2
    <3> QED
      BY <2>1, <3>1, <3>2
  <2> QED
    BY <2>2, <2>4
<1>5. /\ Over(turn[t]) \in Turn /\ new \in Seq(End)
      /\ Fits(Over(turn[t]), written[t], delivered[t], new, saved[t], Candidates[t],
              down, unaudited')
  <2>1. /\ turn[t] \in Turn /\ written[t] \in Seq(Author) /\ delivered[t] \in Seq(Batch)
        /\ ends[t] \in Seq(End)
        /\ Fits(turn[t], written[t], delivered[t], ends[t], saved[t], Candidates[t],
                down, unaudited')
    BY <1>4, TurnFacts, LaterFits
  <2>2. CASE down /\ new = ends[t]
    BY <2>1, <2>2, OverFits
  <2>3. CASE new = Append(ends[t], e)
    BY <1>1, <2>1, <2>3, ToldFits
  <2> QED
    BY <1>3, <2>2, <2>3
<1>6. CASE Becomes(t, Over(turn[t])) /\ Stays
  <2>1. turn' = [turn EXCEPT ![t] = Over(turn[t])]
    BY <1>6 DEF Becomes
  <2> QED
    BY <1>2, <1>4, <1>5, <1>6, <2>1, EndMoves DEF Stays
<1>7. CASE Exit
    BY <1>2, <1>4, <1>5, <1>7, ExitMoves
<1> QED
    BY <1>6, <1>7 DEF Ended

LEMMA TellCancelledHolds ==
    ASSUME ChatInv, NEW t \in Turns, TellCancelled(t) PROVE ChatInv'
<1>1. /\ turn[t].pc = "cancel" /\ turn[t].queue = <<>>
      /\ UNCHANGED <<rows, link, written, delivered, saved, down>>
    BY DEF TellCancelled, TurnAt
<1>2. CASE Exit /\ UNCHANGED <<ends, unaudited, mishaps>>
  <2>1. ends' = [ends EXCEPT ![t] = ends[t]]
    BY <1>2 DEF ChatInv, ChatTypeOK
  <2> QED
    BY <1>1, <1>2, <2>1, TurnFacts, ExitMoves
<1>3. CASE Ended(t, "cancelled")
    BY <1>1, <1>3, EndedMoves
<1> QED
    BY <1>2, <1>3 DEF TellCancelled

LEMMA TellFailedHolds ==
    ASSUME ChatInv, NEW t \in Turns, TellFailed(t) PROVE ChatInv'
BY EndedMoves DEF TellFailed, TurnAt

-------------------------------------------------------------------------------
(* A turn that has not begun.                                              *)
LEMMA ChatInvInit == ChatInit => ChatInv
<1> SUFFICES ASSUME ChatInit PROVE ChatInv
    OBVIOUS
<1>0. <<>> \in Seq(Batch) /\ <<>> \in Seq(Author) /\ <<>> \in Seq(End) /\ Len(<<>>) = 0
    OBVIOUS
<1>1. AtRest \in Turn
    BY <1>0 DEF AtRest, Turn, TurnPc
<1>2. ChatTypeOK
  <2>1. /\ turn \in [Turns -> Turn] /\ written \in [Turns -> Seq(Author)]
        /\ delivered \in [Turns -> Seq(Batch)] /\ ends \in [Turns -> Seq(End)]
        /\ saved \in [Turns -> Answer \cup {None}]
    BY <1>0, <1>1 DEF ChatInit
  <2>2. mishaps \in 0..MaxMishaps
    BY ChatAssumption DEF ChatInit
  <2> QED
    BY <2>1, <2>2 DEF ChatInit, ChatTypeOK, End
<1>3. ASSUME NEW t \in Turns PROVE TurnInv(t)
  <2>1. /\ turn[t] = AtRest /\ written[t] = <<>> /\ delivered[t] = <<>> /\ ends[t] = <<>>
        /\ saved[t] = None
    BY DEF ChatInit
  <2>2. /\ AtRest.pc = "idle" /\ AtRest.todo = {} /\ AtRest.queue = <<>> /\ AtRest.buffer = 0
        /\ AtRest.number = 0 /\ AtRest.broken = FALSE
    BY DEF AtRest
  <2>3. InOrder(turn[t], written[t], delivered[t])
    BY <1>0, <2>1, <2>2 DEF InOrder, Joined, Queued, Upto, Keeping
  <2>4. OfAuthors(turn[t], written[t], Candidates[t])
    BY <1>0, <2>1, <2>2 DEF OfAuthors, Writing
  <2> QED
    BY <1>0, <2>1, <2>2, <2>3, <2>4 DEF TurnInv, Fits, IsStored, IsTold, Closing
<1> QED
    BY <1>2, <1>3 DEF ChatInit, ChatInv

LEMMA ChatInvNext == ChatInv /\ [ChatNext]_chatVars => ChatInv'
<1> SUFFICES ASSUME ChatInv, [ChatNext]_chatVars PROVE ChatInv'
    OBVIOUS
<1>1. CASE Link \/ ServerDies \/ UNCHANGED chatVars
    BY <1>1, OthersHold
<1>2. ASSUME NEW t \in Turns,
             \/ Begin(t) \/ Step(t) \/ Delta(t) \/ Completed(t) \/ Cancel(t)
             \/ FlushTimer(t) \/ SendDelta(t)
      PROVE  ChatInv'
    BY <1>2, BeginHolds, ReadSequenceHolds, InsertHolds, AcceptHolds, RouteHolds, TryHolds,
       SummarizeHolds, DeltaHolds, ThreadHolds, TurnStartHolds, StartedHolds, CompletedHolds,
       TimeoutHolds, InterruptedHolds, SpawnHolds, ChildEndsHolds, FlushedHolds, CancelHolds,
       FlushTimerHolds, TellCompletedHolds, EventHolds, SendDeltaHolds, TellCancelledHolds,
       TellFailedHolds
       DEF Step
<1> QED
    BY <1>1, <1>2 DEF ChatNext

LEMMA InvIsLast == ChatInv => EndIsLast
<1> SUFFICES ASSUME ChatInv, NEW t \in Turns
             PROVE  /\ \A i \in 1..Len(delivered[t]) : delivered[t][i].number = i
                    /\ \A i \in 1..Len(ends[t]) :
                         ends[t][i].type # "failed" => Len(delivered[t]) = ends[t][i].after
                    /\ Len(ends[t]) > 1 => unaudited
                    /\ TurnAt(t, {"done"}) /\ ~down => ends[t] # <<>>
    BY DEF ChatInv, EndIsLast
<1> QED
    BY TurnFacts DEF Fits, InOrder, IsTold, TurnAt

LEMMA InvIsStreamed == ChatInv => SavedIsStreamed
<1> SUFFICES ASSUME ChatInv, NEW t \in Turns, NEW i \in 1..Len(ends[t])
             PROVE  /\ ends[t][i].type = "completed" =>
                         /\ saved[t] # None
                         /\ Joined(delivered[t]) /\ Upto(delivered[t]) = saved[t].upto
                         /\ \A k \in 1..saved[t].upto :
                              written[t][k] = saved[t].by <=> k > saved[t].from
                    /\ ends[t][i].type = "cancelled" => saved[t] = None \/ down \/ unaudited
    BY DEF SavedIsStreamed
<1> QED
    BY TurnFacts DEF Fits, InOrder, IsStored, IsTold

(* The end of a turn is the last the device hears of it, whatever failed   *)
(* before: its batches are numbered in the order they were queued in, and  *)
(* chat.completed and chat.cancelled wait for the chain of sends           *)
(* (conversation.service.ts:119-178, 361-366, remote-chat-stream.ts).      *)
THEOREM ChatEndIsLast == ChatSpec => []EndIsLast
<1>1. ChatSpec => []ChatInv
    BY ChatInvInit, ChatInvNext, PTL DEF ChatSpec
<1> QED
    BY <1>1, InvIsLast, PTL

(* The answer that is stored is what the device was shown of the provider  *)
(* that gave it, also when others wrote before and failed: the stream is   *)
(* flushed before the message is saved, and chat.completed follows both    *)
(* (conversation.service.ts:119-142).                                      *)
THEOREM ChatSavedIsStreamed == ChatSpec => []SavedIsStreamed
<1>1. ChatSpec => []ChatInv
    BY ChatInvInit, ChatInvNext, PTL DEF ChatSpec
<1> QED
    BY <1>1, InvIsStreamed, PTL
=============================================================================
