------------------------------ MODULE RemoteChat ------------------------------
(***************************************************************************)
(* Chat turns of a remote device: ConversationService.handle and cancel,   *)
(* the RemoteChatStream that carries an answer to the device while it is   *)
(* being written, the router that goes from one provider to the next, and  *)
(* two kinds of provider: Codex, one app-server process that serves every  *)
(* turn by request and notification, and the others, a child process per   *)
(* turn.                                                                   *)
(*                                                                         *)
(* Every turn is a promise nobody awaits (remote-gateway.ts:97), and so is *)
(* a batch of text that a timer sends: one that rejects unawaited ends the *)
(* process, with all of its turns.                                         *)
(***************************************************************************)
EXTENDS Naturals, Sequences

CONSTANTS
    Turns,         \* requests of one device, all in one conversation
    Codex,         \* the provider with an app-server
    Providers,     \* the providers the local policy has enabled
    Candidates,    \* per request: the provider it asks for, then the fallbacks of
                   \* the policy, each once
    Cancels,       \* the requests the device may cancel
    Deterministic, \* the policy allows the deterministic summary
    None,          \* nothing
    MaxPieces,     \* pieces of text a provider writes
    MaxMishaps     \* links lost, app-servers that died, failed audit writes

Summary == "deterministic"
Author == Providers \cup {Summary}

(* What is sent or stored is a range of the text: its pieces after `from`. *)
Batch == [number : Nat, from : Nat, upto : Nat]
Answer == [by : Author, from : Nat, upto : Nat]

ASSUME ChatAssumption ==
    /\ Codex \in Providers
    /\ Candidates \in [Turns -> Seq(Providers)]
    /\ \A t \in Turns : \A i, j \in 1..Len(Candidates[t]) :
         Candidates[t][i] = Candidates[t][j] => i = j
    /\ Cancels \subseteq Turns
    /\ Deterministic \in BOOLEAN
    /\ Summary \notin Providers /\ None \notin Author \cup Answer
    /\ MaxPieces \in Nat /\ MaxMishaps \in Nat

VARIABLES
    turn,      \* the turns
    busy,      \* RemoteAgentRegistry.active
    rows,      \* messages stored in the conversation
    link,      \* the relay socket is open
    server,    \* the Codex app-server is alive
    written,   \* the text of a turn, whoever wrote it: the author of each piece
    delivered, \* history: the batches sent to the device, per turn
    ends,      \* history: the terminal messages sent, per turn
    saved,     \* history: the answer stored, per turn
    down,      \* history: the link was lost
    unaudited, \* history: an audit write failed
    mishaps    \* mishaps so far

told == <<written, delivered, ends>>
chatHistory == <<down, unaudited, mishaps>>
chatVars == <<turn, busy, rows, link, server, told, saved, chatHistory>>

TurnPc == {"idle", "resolve", "userInsert", "accept", "route", "try",
       "thread", "turnStart", "started", "waiting", "interrupt", "expired",
       "spawn", "running",
       "flush", "sequence", "insert", "complete", "event", "cancel", "fail", "done", "gone"}

Turn == [pc       : TurnPc,
         todo     : SUBSET Nat,          \* the candidates still to be tried
         by       : Author \cup {None},  \* the one that is writing
         start    : Nat,                 \* where its text begins
         buffer   : Nat,                 \* pieces not yet in a batch; a timer runs
         queue    : Seq(Batch),
         number   : Nat,                 \* batches so far
         broken   : BOOLEAN,             \* the chain of sends has rejected
         aborted  : BOOLEAN,             \* the turn was cancelled
         over     : BOOLEAN,             \* Codex has completed the turn
         sequence : Nat]                 \* the sequence number that was read

AtRest == [pc |-> "idle", todo |-> {}, by |-> None, start |-> 0, buffer |-> 0,
           queue |-> <<>>, number |-> 0, broken |-> FALSE, aborted |-> FALSE,
           over |-> FALSE, sequence |-> 0]

ChatInit ==
    /\ turn = [t \in Turns |-> AtRest]
    /\ busy = {} /\ rows = 0 /\ server = FALSE
    /\ link = TRUE
    /\ written = [t \in Turns |-> <<>>]
    /\ delivered = [t \in Turns |-> <<>>]
    /\ ends = [t \in Turns |-> <<>>]
    /\ saved = [t \in Turns |-> None]
    /\ down = FALSE /\ unaudited = FALSE /\ mishaps = 0

TurnAt(t, pcs) == turn[t].pc \in pcs
Becomes(t, r) == turn' = [turn EXCEPT ![t] = r]
TurnGoes(t, pc) == turn' = [turn EXCEPT ![t].pc = pc]

(* Of a turn that is over only its stream is left. *)
Over(r) == [AtRest EXCEPT !.pc = "done", !.buffer = r.buffer, !.queue = r.queue,
                          !.number = r.number]

Mishap == mishaps < MaxMishaps /\ mishaps' = mishaps + 1

(* The link comes and goes. *)
Link ==
    /\ link' = ~link
    /\ IF link THEN Mishap /\ down' = TRUE ELSE UNCHANGED <<down, mishaps>>
    /\ UNCHANGED <<turn, busy, rows, server, told, saved, unaudited>>

ServerDies ==
    /\ server
    /\ server' = FALSE
    /\ Mishap
    /\ UNCHANGED <<turn, busy, rows, link, told, saved, down, unaudited>>

(* An unhandled rejection: the process ends, its turns and its child       *)
(* processes with it; it is started again.                                 *)
Exit ==
    /\ turn' = [t \in Turns |-> IF TurnAt(t, {"idle"}) THEN turn[t]
                                ELSE IF TurnAt(t, {"done"}) THEN [AtRest EXCEPT !.pc = "done"]
                                ELSE [AtRest EXCEPT !.pc = "gone"]]
    /\ busy' = {}
    /\ server' = FALSE

Stays == UNCHANGED <<busy, server>>

-----------------------------------------------------------------------------
(* RemoteChatStream *)

(* What is in the buffer becomes a batch: the end of a text of that length. *)
QueueFlush(r, length) ==
    IF r.buffer = 0 THEN r
    ELSE [r EXCEPT !.buffer = 0, !.number = @ + 1,
                   !.queue = Append(@, [number |-> r.number + 1,
                                        from |-> length - r.buffer, upto |-> length])]

(* The buffer is full, or its timer has run out; it outlives a turn that    *)
(* has failed.                                                              *)
FlushTimer(t) ==
    /\ turn[t].buffer # 0
    /\ Becomes(t, QueueFlush(turn[t], Len(written[t])))
    /\ UNCHANGED <<busy, rows, link, server, told, saved, chatHistory>>

(* The next send of the chain.  One that fails rejects what comes after it; *)
(* flush and cancel are there to hear of it, nobody else is.                *)
SendDelta(t) ==
    LET batch == Head(turn[t].queue) IN
    /\ turn[t].queue # <<>>
    /\ \/ /\ link
          /\ turn' = [turn EXCEPT ![t].queue = Tail(@)]
          /\ delivered' = [delivered EXCEPT ![t] = Append(@, batch)]
          /\ Stays
       \/ /\ ~link /\ TurnAt(t, {"flush", "cancel"})
          /\ turn' = [turn EXCEPT ![t].queue = <<>>, ![t].broken = TRUE]
          /\ UNCHANGED delivered
          /\ Stays
       \/ ~link /\ ~TurnAt(t, {"flush", "cancel"}) /\ Exit /\ UNCHANGED delivered
    /\ UNCHANGED <<rows, link, written, ends, saved, chatHistory>>

-----------------------------------------------------------------------------
(* What is thrown, and what is returned.                                   *)

(* Variant: what has not been sent yet is left to its timer. *)
ThrownUncleared(r) == [r EXCEPT !.pc = IF r.aborted THEN "cancel" ELSE "fail", !.by = None]

(* handle's catch block: a turn that was cancelled empties its buffer. *)
Thrown(r) ==
    IF r.aborted THEN [r EXCEPT !.pc = "cancel", !.by = None, !.buffer = 0]
                 ELSE [r EXCEPT !.pc = "fail", !.by = None]

Throws(t) == Becomes(t, Thrown(turn[t]))

(* The adapter's run is over, and the registry's too. *)
Released(t) == busy' = busy \ {turn[t].by}

(* The router goes on to the next provider, or hands a cancellation on. *)
FailAttempt(t) ==
    /\ Released(t)
    /\ IF turn[t].aborted THEN Throws(t)
       ELSE turn' = [turn EXCEPT ![t].pc = "try", ![t].by = None]

(* Variant: the last of the text is left to its timer. *)
AnsweredUnflushed(r, length) ==
    IF r.aborted THEN Thrown(r) ELSE [r EXCEPT !.pc = "flush"]

(* handle has the result: cancelled meanwhile, or the stream is flushed. *)
Answered(r, length) ==
    IF r.aborted THEN Thrown(r) ELSE [QueueFlush(r, length) EXCEPT !.pc = "flush"]

Succeed(t) == Released(t) /\ Becomes(t, Answered(turn[t], Len(written[t])))

-----------------------------------------------------------------------------
(* handle, up to the answer.                                               *)

Begin(t) ==
    /\ TurnAt(t, {"idle"})
    /\ TurnGoes(t, "resolve")
    /\ UNCHANGED <<busy, rows, link, server, told, saved, chatHistory>>

(* resolveProvider, resolveConversation and requireSessionToken, and then   *)
(* saveMessage: it reads the highest sequence number ...                    *)
ReadSequence(t) ==
    LET read(pc) == turn' = [turn EXCEPT ![t].sequence = rows + 1, ![t].pc = pc] IN
    /\ \/ TurnAt(t, {"resolve"}) /\ (read("userInsert") \/ Throws(t))
       \/ TurnAt(t, {"sequence"}) /\ read("insert")
    /\ UNCHANGED <<busy, rows, link, server, told, saved, chatHistory>>

(* ... and inserts: the index refuses a number that is taken by now. *)
Insert(t) ==
    /\ TurnAt(t, {"userInsert", "insert"})
    /\ IF turn[t].sequence # rows + 1
       THEN Throws(t) /\ UNCHANGED <<rows, saved>>
       ELSE /\ rows' = rows + 1
            /\ turn' = [turn EXCEPT ![t].sequence = 0,
                                    ![t].pc = IF @ = "insert" THEN "complete" ELSE "accept"]
            /\ saved' = IF TurnAt(t, {"insert"})
                        THEN [saved EXCEPT ![t] = [by |-> turn[t].by, from |-> turn[t].start,
                                                   upto |-> Len(written[t])]]
                        ELSE saved
    /\ UNCHANGED <<busy, link, server, told, chatHistory>>

(* chat.accepted, the context, a stream. *)
Accept(t) ==
    /\ TurnAt(t, {"accept"})
    /\ IF link THEN TurnGoes(t, "route") ELSE Throws(t)
    /\ UNCHANGED <<busy, rows, link, server, told, saved, chatHistory>>

(* candidates: the one that was asked for, then the others, of those that   *)
(* are selectable when their state is read.                                 *)
Route(t) ==
    /\ TurnAt(t, {"route"})
    /\ \E ready \in SUBSET (Providers \ busy) :
          turn' = [turn EXCEPT ![t].pc = "try",
                               ![t].todo = {i \in 1..Len(Candidates[t]) :
                                              Candidates[t][i] \in ready}]
    /\ UNCHANGED <<busy, rows, link, server, told, saved, chatHistory>>

(* One turn of the router's loop: a fallback is announced first; a provider *)
(* that has become busy has failed.                                         *)
Try(t) ==
    /\ TurnAt(t, {"try"})
    /\ \E i \in turn[t].todo :
         LET p == Candidates[t][i]
             rest == [turn[t] EXCEPT !.todo = @ \ {i}]
         IN
         /\ \A j \in turn[t].todo : i <= j
         /\ IF turn[t].aborted \/ (i > 1 /\ ~link) THEN Throws(t) /\ UNCHANGED busy
            ELSE IF p \in busy THEN Becomes(t, rest) /\ UNCHANGED busy
            ELSE /\ busy' = busy \cup {p}
                 /\ Becomes(t, [rest EXCEPT !.by = p, !.start = Len(written[t]), !.over = FALSE,
                                            !.pc = IF p = Codex THEN "thread" ELSE "spawn"])
    /\ UNCHANGED <<rows, link, server, told, saved, chatHistory>>

(* No provider is left: the summary, or the last error. *)
Summarize(t) ==
    /\ TurnAt(t, {"try"})
    /\ turn[t].todo = {}
    /\ IF Deterministic
       THEN /\ written' = [written EXCEPT ![t] = Append(@, Summary)]
            /\ Becomes(t, Answered([turn[t] EXCEPT !.by = Summary, !.start = Len(written[t]),
                                                   !.buffer = @ + 1],
                                   Len(written[t]) + 1))
       ELSE Throws(t) /\ UNCHANGED written
    /\ UNCHANGED <<busy, rows, link, server, delivered, ends, saved, chatHistory>>

-----------------------------------------------------------------------------
(* The providers *)

(* A piece of the answer: a notification of Codex, a line of a child. *)
Delta(t) ==
    /\ \/ TurnAt(t, {"running"})
       \/ TurnAt(t, {"started", "waiting", "interrupt", "expired"}) /\ server /\ ~turn[t].over
    /\ Len(written[t]) - turn[t].start < MaxPieces
    /\ written' = [written EXCEPT ![t] = Append(@, turn[t].by)]
    /\ turn' = [turn EXCEPT ![t].buffer = @ + 1]
    /\ UNCHANGED <<busy, rows, link, server, delivered, ends, saved, chatHistory>>

(* ensureClient, thread/start, onStatus, and the turn/start request. *)
Thread(t) ==
    /\ TurnAt(t, {"thread"})
    /\ \/ link /\ TurnGoes(t, "turnStart") /\ server' = TRUE /\ UNCHANGED busy
       \/ FailAttempt(t) /\ server' \in {server, TRUE}
    /\ UNCHANGED <<rows, link, told, saved, chatHistory>>

(* The response; the turn is under way, the promise is not there yet. *)
TurnStart(t) ==
    /\ TurnAt(t, {"turnStart"})
    /\ \/ server /\ TurnGoes(t, "started") /\ UNCHANGED busy
       \/ FailAttempt(t)
    /\ UNCHANGED <<rows, link, server, told, saved, chatHistory>>

Started(t) ==
    /\ TurnAt(t, {"started"})
    /\ TurnGoes(t, IF turn[t].aborted THEN "interrupt" ELSE "waiting")
    /\ UNCHANGED <<busy, rows, link, server, told, saved, chatHistory>>

(* turn/completed settles the promise, if there is one by then. *)
Completed(t) ==
    /\ TurnAt(t, {"started", "waiting", "expired"})
    /\ server /\ ~turn[t].over
    /\ IF TurnAt(t, {"waiting", "expired"}) THEN Succeed(t) \/ FailAttempt(t)
       ELSE turn' = [turn EXCEPT ![t].over = TRUE] /\ UNCHANGED busy
    /\ UNCHANGED <<rows, link, server, told, saved, chatHistory>>

(* TURN_TIMEOUT_MS: the turn is interrupted ... *)
Timeout(t) ==
    /\ TurnAt(t, {"waiting"})
    /\ TurnGoes(t, "expired")
    /\ UNCHANGED <<busy, rows, link, server, told, saved, chatHistory>>

(* Variant: it waits for the answer, of an app-server that is gone too. *)
InterruptedAnswered(t) ==
    /\ TurnAt(t, {"interrupt", "expired"})
    /\ server
    /\ FailAttempt(t)
    /\ UNCHANGED <<rows, link, server, told, saved, chatHistory>>

(* ... and given up when that was answered, or the app-server is gone. *)
Interrupted(t) ==
    /\ TurnAt(t, {"interrupt", "expired"})
    /\ FailAttempt(t)
    /\ UNCHANGED <<rows, link, server, told, saved, chatHistory>>

(* A lease, onStatus, and the child process ... *)
Spawn(t) ==
    /\ TurnAt(t, {"spawn"})
    /\ \/ link /\ TurnGoes(t, "running") /\ UNCHANGED busy
       \/ FailAttempt(t)
    /\ UNCHANGED <<rows, link, server, told, saved, chatHistory>>

(* ... which ends by itself, by the abort, or by its timeout. *)
ChildEnds(t) ==
    /\ TurnAt(t, {"running"})
    /\ (Len(written[t]) > turn[t].start /\ Succeed(t)) \/ FailAttempt(t)
    /\ UNCHANGED <<rows, link, server, told, saved, chatHistory>>

-----------------------------------------------------------------------------
(* handle, from the answer on.                                             *)

Tells(t, type) ==
    ends' = [ends EXCEPT ![t] = Append(@, [type |-> type, after |-> Len(delivered[t])])]

(* The last batch is out: cancelled meanwhile, or the answer is stored. *)
Flushed(t) ==
    /\ TurnAt(t, {"flush"})
    /\ turn[t].queue = <<>>
    /\ IF turn[t].broken \/ turn[t].aborted THEN Throws(t) ELSE TurnGoes(t, "sequence")
    /\ UNCHANGED <<busy, rows, link, server, told, saved, chatHistory>>

(* chat.completed *)
TellCompleted(t) ==
    /\ TurnAt(t, {"complete"})
    /\ IF link THEN TurnGoes(t, "event") /\ Tells(t, "completed") ELSE Throws(t) /\ UNCHANGED ends
    /\ UNCHANGED <<busy, rows, link, server, written, delivered, saved, chatHistory>>

(* The audit write, which may fail: the catch block hears of it. *)
Event(t) ==
    /\ TurnAt(t, {"event"})
    /\ \/ Becomes(t, Over(turn[t])) /\ UNCHANGED <<unaudited, mishaps>>
       \/ Throws(t) /\ Mishap /\ unaudited' = TRUE
    /\ UNCHANGED <<busy, rows, link, server, told, saved, down>>

(* The last steps of the catch block; nobody hears of what fails here. *)
Ended(t, type) ==
    /\ IF link THEN Tells(t, type) ELSE UNCHANGED ends
    /\ \/ Becomes(t, Over(turn[t])) /\ Stays /\ UNCHANGED <<unaudited, mishaps>>
       \/ Exit /\ Mishap /\ unaudited' = TRUE

(* chat.cancelled, when the sends of the chain are over. *)
TellCancelled(t) ==
    /\ TurnAt(t, {"cancel"})
    /\ turn[t].queue = <<>>
    /\ IF turn[t].broken THEN Exit /\ UNCHANGED <<ends, unaudited, mishaps>>
       ELSE Ended(t, "cancelled")
    /\ UNCHANGED <<rows, link, written, delivered, saved, down>>

(* chat.failed *)
TellFailed(t) ==
    /\ TurnAt(t, {"fail"})
    /\ Ended(t, "failed")
    /\ UNCHANGED <<rows, link, written, delivered, saved, down>>

(* chat.cancel, for a turn that is active. *)
Cancel(t) ==
    /\ t \in Cancels
    /\ ~TurnAt(t, {"idle", "done", "gone"})
    /\ ~turn[t].aborted
    /\ turn' = [turn EXCEPT ![t].aborted = TRUE]
    /\ UNCHANGED <<busy, rows, link, server, told, saved, chatHistory>>

-----------------------------------------------------------------------------
(* What a turn does by itself, sooner or later. *)
Step(t) ==
    \/ ReadSequence(t) \/ Insert(t) \/ Accept(t) \/ Route(t) \/ Try(t)
    \/ Summarize(t) \/ Thread(t) \/ TurnStart(t) \/ Started(t) \/ Timeout(t)
    \/ Interrupted(t) \/ Spawn(t) \/ ChildEnds(t) \/ Flushed(t) \/ TellCompleted(t) \/ Event(t)
    \/ TellCancelled(t) \/ TellFailed(t)

ChatNext ==
    \/ \E t \in Turns :
          Begin(t) \/ Step(t) \/ Delta(t) \/ Completed(t) \/ Cancel(t)
          \/ FlushTimer(t) \/ SendDelta(t)
    \/ Link \/ ServerDies

ChatSpec == ChatInit /\ [][ChatNext]_chatVars

(* A turn goes on, and so do its sends: requests to the app-server are     *)
(* answered or fail, children end, and the timer of a turn runs.           *)
ChatFairSpec ==
    /\ ChatSpec
    /\ \A t \in Turns : WF_chatVars(Step(t)) /\ WF_chatVars(SendDelta(t))

-----------------------------------------------------------------------------
ChatTypeOK ==
    /\ turn \in [Turns -> Turn]
    /\ busy \subseteq Providers
    /\ rows \in Nat
    /\ link \in BOOLEAN /\ server \in BOOLEAN
    /\ written \in [Turns -> Seq(Author)]
    /\ delivered \in [Turns -> Seq(Batch)]
    /\ ends \in [Turns -> Seq([type : {"completed", "cancelled", "failed"}, after : Nat])]
    /\ saved \in [Turns -> Answer \cup {None}]
    /\ down \in BOOLEAN /\ unaudited \in BOOLEAN
    /\ mishaps \in 0..MaxMishaps

(* The device can rely on the end of a turn: text arrives in the order of  *)
(* its numbers, nothing follows chat.completed or chat.cancelled, there    *)
(* is one end only unless the audit write failed between two, and a turn   *)
(* that is over has told of it unless the link was lost (README.md:93-96,  *)
(* conversation.service.ts:144-178, 361-366).                              *)
EndIsLast ==
    /\ ChatTypeOK
    /\ \A t \in Turns :
         /\ \A i \in 1..Len(delivered[t]) : delivered[t][i].number = i
         /\ \A i \in 1..Len(ends[t]) :
              ends[t][i].type # "failed" => Len(delivered[t]) = ends[t][i].after
         /\ Len(ends[t]) > 1 => unaudited
         /\ TurnAt(t, {"done"}) /\ ~down => ends[t] # <<>>

(* How much of the text the device has, and whether it has all of that, in *)
(* the order in which it was written.                                      *)
Upto(batches) == IF batches = <<>> THEN 0 ELSE batches[Len(batches)].upto
Joined(batches) ==
    \A i \in 1..Len(batches) :
        batches[i].from = IF i = 1 THEN 0 ELSE batches[i - 1].upto

(* What the device was told of the answer is the answer that is stored: a  *)
(* completed turn has sent all of its text, and of that the part its       *)
(* provider wrote, after whatever others wrote that failed before, is what *)
(* is stored; and nothing is stored of a turn that was cancelled, unless   *)
(* its end could not be told (conversation.service.ts:119-142).            *)
SavedIsStreamed ==
    \A t \in Turns : \A i \in 1..Len(ends[t]) :
        /\ ends[t][i].type = "completed" =>
             /\ saved[t] # None
             /\ Joined(delivered[t]) /\ Upto(delivered[t]) = saved[t].upto
             /\ \A k \in 1..saved[t].upto : written[t][k] = saved[t].by <=> k > saved[t].from
        /\ ends[t][i].type = "cancelled" => saved[t] = None \/ down \/ unaudited

(* A turn that has begun is over some day, whatever becomes of the link    *)
(* and of the app-server, and with it the provider is free again.          *)
TurnsEnd ==
    \A t \in Turns : ~TurnAt(t, {"idle"}) ~>
        /\ TurnAt(t, {"done", "gone"})
        /\ \A p \in busy : \E other \in Turns \ {t} : turn[other].by = p
=============================================================================
