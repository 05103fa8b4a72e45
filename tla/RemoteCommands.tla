--------------------------- MODULE RemoteCommands ---------------------------
(***************************************************************************)
(* Signed commands of paired phones: RemoteGateway (the envelope of a      *)
(* delivery), RemoteCommandHandler (the command in it), the tables of      *)
(* RemoteStore that make both idempotent, and the device rows of           *)
(* DeviceRegistry that authorize them.                                     *)
(*                                                                         *)
(* The envelopes are those the signer's own route delivers: the check of   *)
(* the signature is external.  All of them are at the relay at the start.  *)
(* A delivery starts a handler, which runs until it returns; between two   *)
(* awaits of one handler the others, the administrator, the phones and the *)
(* relay take their steps.  The relay keeps an envelope until it is        *)
(* acknowledged and hands it out again after a reconnect.  Link failures,  *)
(* failed inserts and crashes are bounded together by MaxFaults.           *)
(***************************************************************************)
EXTENDS Naturals

CONSTANTS
    Devices,    \* paired phones, each with a route of its own
    Commands,   \* signed commands, by command id
    Messages,   \* envelopes, by message id
    Handlers,   \* deliveries that may be in progress at a time
    Nonces,     \* nonces a phone may sign with
    Signer,     \* the device a command was signed for, by command
    Nonce,      \* its nonce, by command
    Carries,    \* the command in an envelope
    AdminOnly,  \* commands that only an admin device may send
    Roles,      \* roles the administrator gives
    MayExpire,  \* envelopes and commands whose time may run out
    Null,       \* no row
    MaxFaults   \* link failures, failed inserts and crashes in a behaviour

ASSUME ConstantsAssumption ==
    /\ Signer \in [Commands -> Devices]
    /\ Nonce \in [Commands -> Nonces]
    /\ Carries \in [Messages -> Commands]
    /\ AdminOnly \subseteq Commands
    /\ Roles \subseteq {"viewer", "approver", "admin"}
    /\ MayExpire \subseteq Commands \cup Messages
    /\ MaxFaults \in Nat

VARIABLES
    device,     \* the device rows
    admin,      \* the update of a row the administrator has in progress
    relay,      \* envelopes the relay still holds for this node
    link,       \* the socket to the relay is open
    replay,     \* message ids taken in (remote_replay_messages)
    record,     \* the stored answer to a command (remote_commands)
    nonces,     \* the nonces reserved (remote_command_nonces)
    expired,    \* envelopes and commands whose expires_at has passed
    handler,    \* the deliveries in progress
    runs,       \* history: how often a command was executed
    outcome,    \* history: how its execution ended
    told,       \* history: commands whose phone was answered "executed"
    closed,     \* history: devices revoked with no other use of the row in flight
    stranded,   \* history: commands whose handler died with the process
    faults      \* history: faults so far

store == <<replay, record, nonces>>
history == <<runs, outcome, told>>
world == <<relay, link, expired, faults>>
vars == <<device, admin, store, world, handler, history, closed, stranded>>

Row == [status : {"active", "suspended", "revoked"},
        role   : {"viewer", "approver", "admin"}]

Record == {"none", "received", "executed", "rejected"}

Pc == {"idle", "lookup", "accept", "touch", "touched", "verify", "previous",
       "resend", "reserve", "reread", "received", "execute", "executing",
       "save", "completed", "failed", "rejected"}

Handler == [pc    : Pc,
            msg   : Messages \cup {Null},
            row   : Row \cup {Null},     \* the row touch has read
            found : Record]              \* the stored answer that is sent again

Idle == [pc |-> "idle", msg |-> Null, row |-> Null, found |-> "none"]

At(h, pc) == handler[h].pc = pc

Goto(h, pc) == handler' = [handler EXCEPT ![h].pc = pc]

Return(h) == handler' = [handler EXCEPT ![h] = Idle]

Command(h) == Carries[handler[h].msg]

Owner(h) == Signer[Command(h)]

(* DeviceRegistry.getActiveByRoute *)
Active(d) == device[d].status = "active"

(* One more fault may happen. *)
MayFail == faults < MaxFaults
Fault == MayFail /\ faults' = faults + 1

Init ==
    /\ device = [d \in Devices |-> [status |-> "active", role |-> "admin"]]
    /\ admin = Null
    /\ relay = Messages /\ link = TRUE /\ expired = {} /\ faults = 0
    /\ replay = {}
    /\ record = [c \in Commands |-> "none"]
    /\ nonces = {}
    /\ handler = [h \in Handlers |-> Idle]
    /\ runs = [c \in Commands |-> 0]
    /\ outcome = [c \in Commands |-> "none"]
    /\ told = {}
    /\ closed = {} /\ stranded = {}

-----------------------------------------------------------------------------
(* The relay, the phones and the clock.                                    *)

Elapse(x) ==
    /\ x \in MayExpire \ expired
    /\ expired' = expired \cup {x}
    /\ UNCHANGED <<device, admin, store, relay, link, faults, handler,
                   history, closed, stranded>>

LinkDown ==
    /\ link
    /\ link' = FALSE
    /\ Fault
    /\ UNCHANGED <<device, admin, store, relay, expired, handler,
                   history, closed, stranded>>

LinkUp ==
    /\ ~link
    /\ link' = TRUE
    /\ UNCHANGED <<device, admin, store, relay, expired, faults, handler,
                   history, closed, stranded>>

(* The process that serves the link dies and starts again.  What it was    *)
(* doing is gone; nothing at its start takes it up.                        *)
Crash ==
    /\ Fault
    /\ stranded' = stranded \cup
           {Command(h) : h \in {g \in Handlers : ~At(g, "idle")}}
    /\ handler' = [h \in Handlers |-> Idle]
    /\ admin' = Null
    /\ link' = FALSE
    /\ UNCHANGED <<device, store, relay, expired, history, closed>>

-----------------------------------------------------------------------------
(* DeviceRegistry: an update reads the row, awaits and saves all of it.    *)

(* Variant: a revoked row may be activated again. *)
UpdatesAny(row) ==
    {[row EXCEPT !.status = s] : s \in {"active", "suspended", "revoked"}}
    \cup {[row EXCEPT !.role = r] : r \in Roles}

Updates(row) ==
    IF row.status = "revoked"
    THEN {row}
    ELSE {[row EXCEPT !.status = s] : s \in {"active", "suspended", "revoked"}}
         \cup {[row EXCEPT !.role = r] : r \in Roles}

AdminRead(d) ==
    /\ admin = Null
    /\ \E new \in Updates(device[d]) : admin' = [device |-> d, new |-> new]
    /\ UNCHANGED <<device, store, world, handler, history, closed, stranded>>

(* A handler that has read the row and has still to use what it read. *)
Holds(h) == handler[h].pc \in {"touched", "previous", "resend", "reserve",
                               "reread", "received", "execute"}

AdminWrite ==
    /\ admin # Null
    /\ device' = [device EXCEPT ![admin.device] = admin.new]
    /\ closed' = IF /\ admin.new.status = "revoked"
                    /\ \A h \in Handlers : Holds(h) => Owner(h) # admin.device
                 THEN closed \cup {admin.device}
                 ELSE closed
    /\ admin' = Null
    /\ UNCHANGED <<store, world, handler, history, stranded>>

-----------------------------------------------------------------------------
(* RemoteGateway.handleEnvelope: check, decrypt, take in, acknowledge.     *)

Acknowledge(m) == relay' = IF link THEN relay \ {m} ELSE relay

Deliver(h, m) ==
    /\ At(h, "idle") /\ link /\ m \in relay
    /\ IF m \in expired
       THEN Acknowledge(m) /\ UNCHANGED handler
       ELSE /\ handler' = [handler EXCEPT ![h] = [Idle EXCEPT !.pc = "lookup", !.msg = m]]
            /\ UNCHANGED relay
    /\ UNCHANGED <<device, admin, store, link, expired, faults,
                   history, closed, stranded>>

Lookup(h) ==
    /\ At(h, "lookup")
    /\ \/ Active(Owner(h)) /\ Goto(h, "accept") /\ UNCHANGED relay
       \/ ~Active(Owner(h)) /\ Return(h) /\ Acknowledge(handler[h].msg)
    /\ UNCHANGED <<device, admin, store, link, expired, faults,
                   history, closed, stranded>>

(* A message id inserts once; any error of the insert counts as a replay.  *)
(* An acknowledgement that cannot be sent leaves by the catch block.       *)
Accept(h) ==
    LET m == handler[h].msg IN
    /\ At(h, "accept")
    /\ \/ /\ m \notin replay
          /\ replay' = replay \cup {m}
          /\ IF link THEN Goto(h, "touch") ELSE Return(h)
          /\ UNCHANGED faults
       \/ /\ m \in replay
          /\ Return(h)
          /\ UNCHANGED <<replay, faults>>
       \/ /\ m \notin replay /\ Fault
          /\ Return(h)
          /\ UNCHANGED replay
    /\ Acknowledge(m)
    /\ UNCHANGED <<device, admin, record, nonces, link, expired,
                   history, closed, stranded>>

Touch(h) ==
    /\ At(h, "touch")
    /\ handler' = [handler EXCEPT ![h].pc = "touched", ![h].row = device[Owner(h)]]
    /\ UNCHANGED <<device, admin, store, world, history, closed, stranded>>

Touched(h) ==
    /\ At(h, "touched")
    /\ device' = [device EXCEPT ![Owner(h)] = handler[h].row]
    /\ handler' = [handler EXCEPT ![h].pc = "verify", ![h].row = Null]
    /\ UNCHANGED <<admin, store, world, history, closed, stranded>>

-----------------------------------------------------------------------------
(* RemoteCommandHandler.handle.  A throw goes to the catch block, "failed".*)

Authorized(c) ==
    LET row == device[Signer[c]] IN
    /\ Active(Signer[c])
    /\ c \notin expired
    /\ row.role # "viewer"
    /\ c \in AdminOnly => row.role = "admin"

Verify(h) ==
    /\ At(h, "verify")
    /\ Goto(h, IF Authorized(Command(h)) THEN "previous" ELSE "failed")
    /\ UNCHANGED <<device, admin, store, world, history, closed, stranded>>

(* An answer that is stored already is sent again. *)
SendAgain(h) ==
    handler' = [handler EXCEPT ![h].pc = "resend", ![h].found = record[Command(h)]]

Previous(h) ==
    /\ At(h, "previous")
    /\ IF record[Command(h)] = "none" THEN Goto(h, "reserve") ELSE SendAgain(h)
    /\ UNCHANGED <<device, admin, store, world, history, closed, stranded>>

(* Variant: the nonce table has no unique constraint. *)
ReserveAnyNonce(h) ==
    LET c == Command(h) IN
    /\ At(h, "reserve")
    /\ IF record[c] = "none"
       THEN record' = [record EXCEPT ![c] = "received"] /\ Goto(h, "received")
       ELSE Goto(h, "reread") /\ UNCHANGED record
    /\ nonces' = nonces \cup {Nonce[c]}
    /\ UNCHANGED <<device, admin, replay, world, history, closed, stranded>>

(* RemoteStore.rememberCommand: the id and the nonce in one batch. *)
Reserve(h) ==
    LET c == Command(h) IN
    /\ At(h, "reserve")
    /\ \/ /\ record[c] = "none" /\ Nonce[c] \notin nonces
          /\ record' = [record EXCEPT ![c] = "received"]
          /\ nonces' = nonces \cup {Nonce[c]}
          /\ Goto(h, "received")
          /\ UNCHANGED faults
       \/ /\ \/ (record[c] # "none" \/ Nonce[c] \in nonces) /\ UNCHANGED faults
             \/ (record[c] = "none" /\ Nonce[c] \notin nonces) /\ Fault
          /\ Goto(h, "reread")
          /\ UNCHANGED <<record, nonces>>
    /\ UNCHANGED <<device, admin, replay, relay, link, expired,
                   history, closed, stranded>>

Reread(h) ==
    /\ At(h, "reread")
    /\ IF record[Command(h)] = "none" THEN Goto(h, "failed") ELSE SendAgain(h)
    /\ UNCHANGED <<device, admin, store, world, history, closed, stranded>>

(* RemoteMessenger.send throws when the socket is not open. *)
Answer(h, answer, next) ==
    /\ IF link
       THEN /\ told' = IF answer = "executed" THEN told \cup {Command(h)} ELSE told
            /\ IF next = "idle" THEN Return(h) ELSE Goto(h, next)
       ELSE UNCHANGED told /\ Goto(h, "failed")
    /\ UNCHANGED <<device, admin, store, world, runs, outcome, closed, stranded>>

Resend(h) == At(h, "resend") /\ Answer(h, handler[h].found, "idle")

SendReceived(h) == At(h, "received") /\ Answer(h, "received", "execute")

SendCompleted(h) == At(h, "completed") /\ Answer(h, "executed", "idle")

(* The services behind execute: the call may take several awaits, and it   *)
(* returns or throws, also after it has had an effect.                     *)
Execute(h) ==
    /\ At(h, "execute")
    /\ runs' = [runs EXCEPT ![Command(h)] = @ + 1]
    /\ Goto(h, "executing")
    /\ UNCHANGED <<device, admin, store, world, outcome, told, closed, stranded>>

ExecuteEnds(h) ==
    /\ At(h, "executing")
    /\ \E how \in {"done", "threw"} :
          /\ outcome' = [outcome EXCEPT ![Command(h)] = how]
          /\ Goto(h, IF how = "done" THEN "save" ELSE "failed")
    /\ UNCHANGED <<device, admin, store, world, runs, told, closed, stranded>>

Save(h) ==
    /\ At(h, "save")
    /\ record' = [record EXCEPT ![Command(h)] = "executed"]
    /\ Goto(h, "completed")
    /\ UNCHANGED <<device, admin, replay, nonces, world, history, closed, stranded>>

(* Variant: the catch block only answers. *)
FailSilently(h) ==
    /\ At(h, "failed")
    /\ Goto(h, "rejected")
    /\ UNCHANGED <<device, admin, store, world, history, closed, stranded>>

(* The catch block: a row that exists is overwritten, whoever wrote it. *)
Fail(h) ==
    LET c == Command(h) IN
    /\ At(h, "failed")
    /\ record' = [record EXCEPT ![c] = IF @ = "none" THEN "none" ELSE "rejected"]
    /\ Goto(h, "rejected")
    /\ UNCHANGED <<device, admin, replay, nonces, world, history, closed, stranded>>

(* Whether this answer can be sent changes nothing here. *)
SendRejected(h) ==
    /\ At(h, "rejected")
    /\ Return(h)
    /\ UNCHANGED <<device, admin, store, world, history, closed, stranded>>

HandlerStep(h) ==
    \/ Lookup(h)       \/ Accept(h)        \/ Touch(h)    \/ Touched(h)
    \/ Verify(h)       \/ Previous(h)      \/ Resend(h)   \/ Reserve(h)
    \/ Reread(h)       \/ SendReceived(h)  \/ Execute(h)  \/ ExecuteEnds(h)
    \/ Save(h)         \/ SendCompleted(h) \/ Fail(h)     \/ SendRejected(h)

Environment ==
    \/ \E x \in MayExpire : Elapse(x)
    \/ LinkDown \/ LinkUp \/ Crash

Administrator == (\E d \in Devices : AdminRead(d)) \/ AdminWrite

Next ==
    \/ \E h \in Handlers : HandlerStep(h) \/ \E m \in Messages : Deliver(h, m)
    \/ Administrator
    \/ Environment

Spec == Init /\ [][Next]_vars

-----------------------------------------------------------------------------
TypeOK ==
    /\ device \in [Devices -> Row]
    /\ admin \in [device : Devices, new : Row] \cup {Null}
    /\ relay \subseteq Messages
    /\ link \in BOOLEAN
    /\ replay \subseteq Messages
    /\ record \in [Commands -> Record]
    /\ nonces \subseteq Nonces
    /\ expired \subseteq MayExpire
    /\ handler \in [Handlers -> Handler]
    /\ runs \in [Commands -> 0..1]
    /\ outcome \in [Commands -> {"none", "done", "threw"}]
    /\ told \subseteq Commands
    /\ closed \subseteq Devices /\ stranded \subseteq Commands
    /\ faults \in 0..MaxFaults

(* However often a command is delivered, in whatever envelopes, and        *)
(* whichever links, inserts and processes fail, the tables let it run at   *)
(* most once and one nonce at most once, and "executed" is only answered   *)
(* when it ran to its end (remote-command.handler.ts:78-119).              *)
Promise == INSTANCE CommandExecution
               WITH runs <- runs, outcome <- outcome, told <- told
ExecutionProtocol == Promise!Spec

(* After a revoke that met nobody who still used the row, no command of    *)
(* the device starts again, whatever was resent, resumed or changed since  *)
(* (device-registry.ts:108, remote-command.handler.ts:154).                *)
RevokedRunsNothing ==
    [][\A c \in Commands : runs'[c] # runs[c] => Signer[c] \notin closed]_vars

(* A command stored as received is still in the hands of a handler, unless *)
(* the process died on it: whatever throws on the way, the catch block     *)
(* stores a final answer (remote-command.handler.ts:78-137).               *)
ReservedIsOwned ==
    \A c \in Commands : record[c] = "received" =>
        \/ c \in stranded
        \/ \E h \in Handlers : /\ handler[h].pc \in {"received", "execute", "executing",
                                                     "save", "failed"}
                               /\ Command(h) = c
=============================================================================
