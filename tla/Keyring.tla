------------------------------- MODULE Keyring -------------------------------
(***************************************************************************)
(* The vault key between the commands that need it and the daemon that     *)
(* keeps it: ensureVaultUnlocked and lockKeyring in lib/keyring/unlock.ts, *)
(* KeyringServer, and the daemon's start, stop and socket file.            *)
(*                                                                         *)
(* The key is held or not: passphrases are right or wrong and the vault is *)
(* not sealed anew.  A request to the daemon is handled at once, since the *)
(* daemon has one thread; its answer is acted upon in a later step.        *)
(***************************************************************************)
EXTENDS Naturals, FiniteSets

CONSTANTS
    Calls,      \* calls of ensureVaultUnlocked and lockKeyring
    Processes,  \* processes they are made in
    Home,       \* the process of each call
    Resident,   \* processes that outlive their calls: the local API
    Daemons,    \* bound: daemons that may be spawned
    NoDaemon,
    Faults      \* what may happen besides: "slow" starts, "kill", and
                \* "window": requests that reach a daemon in the quarter second
                \* between its lock and its exit

ASSUME HomeAssumption == Home \in [Calls -> Processes]
ASSUME NoDaemonAssumption == NoDaemon \notin Daemons

VARIABLES
    socket,     \* whose socket file lies at the path
    daemon,     \* start-up state, the master, and `closing` of each daemon
    held,       \* vault-session: the process has the key
    call,       \* local state of each call
    locked,     \* processes whose lockKeyring returned, no passphrase since
    session,    \* an unlock returned through the daemon, no end of it since
    faults      \* those of Faults that may happen

vars == <<socket, daemon, held, call, locked, session, faults>>

DaemonPc == {"off", "probe", "remove", "bind", "serving", "dead"}

CallPc == {"idle", "ask", "listening", "poll", "askAgain", "unlock", "askFresh",
           "derive", "adopt", "adoptFresh", "lock"}

TypeOK ==
    /\ socket \in Daemons \cup {NoDaemon}
    /\ daemon \in [Daemons -> [pc : DaemonPc, master : BOOLEAN, closing : BOOLEAN]]
    /\ \A d \in Daemons : daemon[d].pc # "serving" => ~daemon[d].master
    /\ held \in [Processes -> BOOLEAN]
    /\ call \in [Calls -> [pc : CallPc, asks : BOOLEAN, right : BOOLEAN]]
    /\ locked \subseteq Processes
    /\ session \in BOOLEAN
    /\ faults \subseteq Faults

AtRest == [pc |-> "idle", asks |-> FALSE, right |-> FALSE]

Init ==
    /\ socket = NoDaemon
    /\ daemon = [d \in Daemons |-> [pc |-> "off", master |-> FALSE, closing |-> FALSE]]
    /\ held = [p \in Processes |-> FALSE]
    /\ call = [c \in Calls |-> AtRest]
    /\ locked = {}
    /\ session = FALSE
    /\ faults \in SUBSET Faults

Serving(d) == d # NoDaemon /\ daemon[d].pc = "serving"
Listening == Serving(socket)
Unlocked == Listening /\ daemon[socket].master

At(c, pc) == call[c].pc = pc
Goto(c, pc) == call' = [call EXCEPT ![c].pc = pc]

(* The end of a call; what the process held goes with the process. *)
Return(c, key) ==
    /\ call' = [call EXCEPT ![c] = AtRest]
    /\ held' = [held EXCEPT ![Home[c]] = key /\ Home[c] \in Resident]

(* A request made now, unless none falls into a closing daemon's last moments. *)
MayAsk == "window" \in faults \/ \A d \in Daemons : Serving(d) => ~daemon[d].closing

-----------------------------------------------------------------------------
(* The daemon *)

(* KeyringServer.lock, and stop: `closing` is never taken back. *)
Locked(d) == [daemon EXCEPT ![d].master = FALSE, ![d].closing = TRUE]

(* Variant: whatever lies at the path is taken for stale. *)
ProbeBlind(d) ==
    /\ daemon[d].pc = "probe"
    /\ daemon' = [daemon EXCEPT ![d].pc = IF socket = NoDaemon THEN "bind" ELSE "remove"]
    /\ UNCHANGED <<socket, held, call, locked, session, faults>>

(* clearStaleSocket looks whether something answers ... *)
Probe(d) ==
    /\ daemon[d].pc = "probe"
    /\ daemon' = [daemon EXCEPT ![d].pc = IF socket = NoDaemon THEN "bind"
                                          ELSE IF Listening THEN "dead" ELSE "remove"]
    /\ UNCHANGED <<socket, held, call, locked, session, faults>>

(* ... and removes what is at the path by then. *)
Remove(d) ==
    /\ daemon[d].pc = "remove"
    /\ socket' = NoDaemon
    /\ daemon' = [daemon EXCEPT ![d].pc = "bind"]
    /\ UNCHANGED <<held, call, locked, session, faults>>

Bind(d) ==
    /\ daemon[d].pc = "bind"
    /\ socket' = IF socket = NoDaemon THEN d ELSE socket
    /\ daemon' = [daemon EXCEPT ![d].pc = IF socket = NoDaemon THEN "serving" ELSE "dead"]
    /\ UNCHANGED <<held, call, locked, session, faults>>

(* Twelve hours without use, noticed by a request or by the poll. *)
Expire(d) ==
    /\ Serving(d)
    /\ daemon[d].master
    /\ daemon' = Locked(d)
    /\ session' = FALSE
    /\ UNCHANGED <<socket, held, call, locked, faults>>

(* Variant: a daemon is stopped after a while, unlocked or not. *)
IdleAnyway(d) ==
    /\ Serving(d)
    /\ \A c \in Calls : call[c].pc \in {"idle", "unlock"}
    /\ daemon' = [daemon EXCEPT ![d].closing = TRUE]
    /\ UNCHANGED <<socket, held, call, locked, session, faults>>

(* watchForIdle: nobody unlocked it in two minutes; of the steps of a call only
   the typing of a passphrase takes that long. *)
Idle(d) ==
    /\ Serving(d)
    /\ ~daemon[d].master
    /\ \A c \in Calls : call[c].pc \in {"idle", "unlock"}
    /\ daemon' = [daemon EXCEPT ![d].closing = TRUE]
    /\ UNCHANGED <<socket, held, call, locked, session, faults>>

(* shutdown: closing a listener removes the file at its path, whosever it is. *)
Close(d) ==
    /\ Serving(d)
    /\ daemon[d].closing
    /\ socket' = NoDaemon
    /\ daemon' = [daemon EXCEPT ![d] = [pc |-> "dead", master |-> FALSE, closing |-> TRUE]]
    /\ UNCHANGED <<held, call, locked, session, faults>>

(* The socket file survives. *)
Kill(d) ==
    /\ "kill" \in faults
    /\ daemon[d].pc \notin {"off", "dead"}
    /\ daemon' = [daemon EXCEPT ![d].pc = "dead", ![d].master = FALSE]
    /\ session' = FALSE
    /\ UNCHANGED <<socket, held, call, locked, faults>>

-----------------------------------------------------------------------------
(* ensureVaultUnlocked *)

(* A call that may ask for the passphrase, or one that is content with what is
   at hand; the passphrase may be wrong.  With the key in the process already
   it is over at once. *)
Begin(c) ==
    /\ At(c, "idle")
    /\ ~held[Home[c]]
    /\ \E asks, right \in BOOLEAN :
         /\ right => asks
         /\ call' = [call EXCEPT ![c] = [pc |-> "ask", asks |-> asks, right |-> right]]
         /\ locked' = IF asks THEN {} ELSE locked
    /\ UNCHANGED <<socket, daemon, held, session, faults>>

(* cachedKey: the key op, with a session in the daemon or without. *)
Ask(c) ==
    /\ At(c, "ask")
    /\ MayAsk
    /\ \/ Unlocked /\ Goto(c, "adopt") /\ UNCHANGED held
       \/ ~Unlocked /\ call[c].asks /\ Goto(c, "listening") /\ UNCHANGED held
       \/ ~Unlocked /\ ~call[c].asks /\ Return(c, FALSE)
    /\ UNCHANGED <<socket, daemon, locked, session, faults>>

Unborn == {d \in Daemons : daemon[d].pc = "off"}

(* isListening, and startDaemon if nothing is; it may find nothing to start. *)
Spawn(c) ==
    /\ At(c, "listening")
    /\ MayAsk
    /\ \/ Listening /\ Goto(c, "unlock") /\ UNCHANGED daemon
       \/ /\ ~Listening
          /\ Unborn # {}
          /\ daemon' = [daemon EXCEPT ![CHOOSE d \in Unborn : TRUE].pc = "probe"]
          /\ Goto(c, "poll")
       \/ /\ ~Listening
          /\ Unborn = {}
          /\ Goto(c, "unlock")
          /\ UNCHANGED daemon
    /\ UNCHANGED <<socket, held, locked, session, faults>>

(* Variant: there is no deadline. *)
PollForever(c) ==
    /\ At(c, "poll")
    /\ MayAsk
    /\ Listening
    /\ Goto(c, "askAgain")
    /\ UNCHANGED <<socket, daemon, held, locked, session, faults>>

(* startDaemon waits four seconds; a start that is not "slow" makes it. *)
Poll(c) ==
    /\ At(c, "poll")
    /\ MayAsk
    /\ \/ Listening /\ Goto(c, "askAgain")
       \/ /\ ~Listening
          /\ "slow" \in faults
               \/ \A d \in Daemons : daemon[d].pc \notin {"probe", "remove", "bind"}
          /\ Goto(c, "unlock")
    /\ UNCHANGED <<socket, daemon, held, locked, session, faults>>

AskAgain(c) ==
    /\ At(c, "askAgain")
    /\ MayAsk
    /\ Goto(c, IF Unlocked THEN "adopt" ELSE "unlock")
    /\ UNCHANGED <<socket, daemon, held, locked, session, faults>>

(* unlockDaemon: the server proves the passphrase and keeps the master; a wrong
   one is an answer, no daemon is not. *)
Unlock(c) ==
    /\ At(c, "unlock")
    /\ MayAsk
    /\ \/ Listening /\ call[c].right /\ Goto(c, "askFresh")
          /\ daemon' = [daemon EXCEPT ![socket].master = TRUE]
          /\ UNCHANGED held
       \/ Listening /\ ~call[c].right /\ Return(c, FALSE) /\ UNCHANGED daemon
       \/ ~Listening /\ Goto(c, "derive") /\ UNCHANGED <<daemon, held>>
    /\ UNCHANGED <<socket, locked, session, faults>>

AskFresh(c) ==
    /\ At(c, "askFresh")
    /\ MayAsk
    /\ Goto(c, IF Unlocked THEN "adoptFresh" ELSE "derive")
    /\ UNCHANGED <<socket, daemon, held, locked, session, faults>>

(* No keyring: derived here; a key that does not open the vault is thrown out. *)
Derive(c) ==
    /\ At(c, "derive")
    /\ \/ call[c].right /\ Goto(c, "adopt") /\ UNCHANGED held
       \/ ~call[c].right /\ Return(c, FALSE)
    /\ UNCHANGED <<socket, daemon, locked, session, faults>>

(* setVaultKey; the command runs and its process ends, or goes on. *)
Adopt(c) ==
    /\ call[c].pc \in {"adopt", "adoptFresh"}
    /\ Return(c, TRUE)
    /\ session' = (session \/ (At(c, "adoptFresh") /\ Unlocked))
    /\ UNCHANGED <<socket, daemon, locked, faults>>

-----------------------------------------------------------------------------
(* lockKeyring *)

(* clearVaultKey *)
BeginLock(c) ==
    /\ At(c, "idle")
    /\ held' = [held EXCEPT ![Home[c]] = FALSE]
    /\ Goto(c, "lock")
    /\ UNCHANGED <<socket, daemon, locked, session, faults>>

(* Variant: the daemon is not told. *)
LockHereOnly(c) ==
    /\ At(c, "lock")
    /\ MayAsk
    /\ call' = [call EXCEPT ![c] = AtRest]
    /\ locked' = IF \E other \in Calls : call[other].asks THEN {} ELSE locked \cup {Home[c]}
    /\ session' = FALSE
    /\ UNCHANGED <<socket, daemon, held, faults>>

(* The lock op, if a daemon is listening.  While a passphrase is being asked
   for elsewhere nothing is claimed of what is locked. *)
Lock(c) ==
    /\ At(c, "lock")
    /\ MayAsk
    /\ daemon' = IF Listening THEN Locked(socket) ELSE daemon
    /\ call' = [call EXCEPT ![c] = AtRest]
    /\ locked' = IF \E other \in Calls : call[other].asks THEN {} ELSE locked \cup {Home[c]}
    /\ session' = FALSE
    /\ UNCHANGED <<socket, held, faults>>

-----------------------------------------------------------------------------

Starting(d) == Probe(d) \/ Remove(d) \/ Bind(d) \/ Close(d)

Daemon(d) == Starting(d) \/ Expire(d) \/ Idle(d) \/ Kill(d)

Ensure(c) ==
    \/ Ask(c) \/ Spawn(c) \/ Poll(c) \/ AskAgain(c) \/ Unlock(c) \/ AskFresh(c)
    \/ Derive(c) \/ Adopt(c)

Next ==
    \/ \E d \in Daemons : Daemon(d)
    \/ \E c \in Calls : Begin(c) \/ Ensure(c) \/ BeginLock(c) \/ Lock(c)

Spec == Init /\ [][Next]_vars

(* A call that runs goes on, and so does a daemon that starts or stops. *)
FairSpec ==
    /\ Spec
    /\ \A d \in Daemons : WF_vars(Starting(d))
    /\ \A c \in Calls : WF_vars(Ensure(c)) /\ WF_vars(Lock(c))

-----------------------------------------------------------------------------
(* What is claimed *)

(* "Forget the key here and in the daemon": once lockKeyring has returned, and
   until somebody is asked for the passphrase again, the process that asked does
   not have the master, if it makes one call at a time, and no daemon has it,
   unless one was killed and two replace it at once. *)
LockForgets ==
    /\ TypeOK
    /\ \A p \in locked : ~held[p]
    /\ "kill" \notin faults /\ locked # {} => \A d \in Daemons : ~daemon[d].master

(* An unlock that was reported through the daemon leaves a session: the next
   command is answered, until it is locked or expires.  No request may reach a
   daemon that is about to exit, and none may have been killed: of two that
   replace it at once the second removes the socket of the first. *)
SessionStays == faults \cap {"window", "kill"} = {} /\ session => Unlocked

(* "Unlinking it would hijack a live keyring": the socket file of a daemon that
   answers goes when that daemon does, and nobody else takes it away. *)
NoHijack ==
    [][Listening /\ socket' # socket =>
          "kill" \in faults \/ daemon'[socket].pc = "dead"]_vars

(* Every call returns, whatever becomes of the daemons. *)
CallsReturn == \A c \in Calls : ~At(c, "idle") ~> At(c, "idle")

=============================================================================
