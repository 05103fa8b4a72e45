------------------------------ MODULE KeyringProofs ------------------------------
(***************************************************************************)
(* Proofs about Keyring for any number of calls, processes and daemons,    *)
(* where TLC has two of each.                                              *)
(*                                                                         *)
(*   OneSocket   as long as no daemon is killed, a socket file belongs to  *)
(*               the one daemon that serves: none finds a stale one;       *)
(*   Announced   and, with no request in a daemon's last moments, neither  *)
(*               a closing daemon nor one that is not reached has the key  *)
(*               of an announced session;                                  *)
(*   Shut        once locked, and until a passphrase is asked for, nothing *)
(*               that a call can reach has the key; a daemon that cannot   *)
(*               be reached may have it, after a kill.                     *)
(***************************************************************************)
EXTENDS Keyring, TLAPS

(* Each process makes one call at a time.                                  *)
OneCallEach == \A c, d \in Calls : Home[c] = Home[d] => c = d

NoKill == "kill" \notin faults

OneSocket ==
    NoKill => /\ socket # NoDaemon => Serving(socket)
              /\ \A d \in Daemons : Serving(d) => d = socket
              /\ \A d \in Daemons : daemon[d].pc # "remove"

(* A daemon that has the key is not about to exit.                         *)
Fresh == \A d \in Daemons : Serving(d) /\ daemon[d].master => ~daemon[d].closing

Announced == ("window" \notin faults => Fresh) /\ SessionStays

(* A call that will not ask for the passphrase has little to do.           *)
Quiet ==
    \A c \in Calls :
        /\ call[c].right => call[c].asks
        /\ ~call[c].asks => call[c].pc \in {"idle", "ask", "adopt", "lock"}
        /\ call[c].pc \in {"idle", "lock"} => ~call[c].asks

Shut ==
    /\ locked # {} => ~Unlocked /\ \A c \in Calls : ~call[c].asks
    /\ locked # {} /\ NoKill => \A d \in Daemons : ~daemon[d].master
    /\ \A c \in Calls : Home[c] \in locked => call[c].pc \in {"idle", "ask", "lock"}
    /\ \A c \in Calls : call[c].pc = "lock" => ~held[Home[c]]
    /\ \A p \in locked : ~held[p]

(* What holds whoever calls from where.                                    *)
Base == TypeOK /\ OneSocket /\ Announced /\ Quiet

-------------------------------------------------------------------------------
(* Calls and daemons, one at a time *)

DaemonRecord == [pc : DaemonPc, master : BOOLEAN, closing : BOOLEAN]
CallRecord == [pc : CallPc, asks : BOOLEAN, right : BOOLEAN]

LEMMA TypeInit == Init => TypeOK
<1> SUFFICES ASSUME Init PROVE TypeOK
    OBVIOUS
<1>1. [pc |-> "off", master |-> FALSE, closing |-> FALSE] \in DaemonRecord
    BY DEF DaemonRecord, DaemonPc
<1>2. AtRest \in CallRecord
    BY DEF AtRest, CallRecord, CallPc
<1> QED
    BY <1>1, <1>2 DEF Init, TypeOK, DaemonRecord, CallRecord

LEMMA TypeStep == TypeOK /\ [Next]_vars => TypeOK'
<1> SUFFICES ASSUME TypeOK, [Next]_vars PROVE TypeOK'
    OBVIOUS
<1> USE DEF TypeOK
<1>1. AtRest \in CallRecord
    BY DEF AtRest, CallRecord, CallPc
<1>2. ASSUME NEW c \in Calls, NEW pc \in CallPc, Goto(c, pc)
      PROVE call' \in [Calls -> CallRecord]
    BY <1>2 DEF Goto, CallRecord
<1>3. ASSUME NEW c \in Calls, NEW key \in BOOLEAN, Return(c, key)
      PROVE call' \in [Calls -> CallRecord] /\ held' \in [Processes -> BOOLEAN]
    BY <1>1, <1>3, HomeAssumption DEF Return, CallRecord
<1>4. ASSUME NEW d \in Daemons, NEW r \in DaemonRecord, r.pc # "serving" => ~r.master,
             daemon' = [daemon EXCEPT ![d] = r]
      PROVE /\ daemon' \in [Daemons -> DaemonRecord]
            /\ \A e \in Daemons : daemon'[e].pc # "serving" => ~daemon'[e].master
    BY <1>4 DEF DaemonRecord
<1>5. ASSUME NEW d \in Daemons, Daemon(d) PROVE TypeOK'
    <2>1. CASE Probe(d)
        <3> DEFINE r == [daemon[d] EXCEPT !.pc = IF socket = NoDaemon THEN "bind"
                                                 ELSE IF Listening THEN "dead" ELSE "remove"]
        <3>1. r \in DaemonRecord /\ r.pc # "serving" /\ ~r.master
            BY <2>1 DEF Probe, DaemonRecord, DaemonPc
        <3>2. daemon' = [daemon EXCEPT ![d] = r]
            BY <2>1 DEF Probe
        <3> QED
            BY <1>4, <2>1, <3>1, <3>2 DEF Probe, DaemonRecord
    <2>2. CASE Remove(d)
        <3> DEFINE r == [daemon[d] EXCEPT !.pc = "bind"]
        <3>1. r \in DaemonRecord /\ r.pc # "serving" /\ ~r.master
            BY <2>2 DEF Remove, DaemonRecord, DaemonPc
        <3>2. daemon' = [daemon EXCEPT ![d] = r]
            BY <2>2 DEF Remove
        <3> QED
            BY <1>4, <2>2, <3>1, <3>2 DEF Remove, DaemonRecord
    <2>3. CASE Bind(d)
        <3> DEFINE r == [daemon[d] EXCEPT !.pc = IF socket = NoDaemon THEN "serving" ELSE "dead"]
        <3>1. r \in DaemonRecord /\ ~r.master
            BY <2>3 DEF Bind, DaemonRecord, DaemonPc
        <3>2. daemon' = [daemon EXCEPT ![d] = r]
            BY <2>3 DEF Bind
        <3> QED
            BY <1>4, <2>3, <3>1, <3>2 DEF Bind, DaemonRecord
    <2>4. CASE Expire(d)
        <3> DEFINE r == [daemon[d] EXCEPT !.master = FALSE, !.closing = TRUE]
        <3>1. r \in DaemonRecord /\ ~r.master
            BY DEF DaemonRecord
        <3>2. daemon' = [daemon EXCEPT ![d] = r]
            BY <2>4 DEF Expire, Locked
        <3> QED
            BY <1>4, <2>4, <3>1, <3>2 DEF Expire, DaemonRecord
    <2>5. CASE Idle(d)
        <3> DEFINE r == [daemon[d] EXCEPT !.closing = TRUE]
        <3>1. r \in DaemonRecord /\ (r.pc # "serving" => ~r.master)
            BY DEF DaemonRecord
        <3>2. daemon' = [daemon EXCEPT ![d] = r]
            BY <2>5 DEF Idle
        <3> QED
            BY <1>4, <2>5, <3>1, <3>2 DEF Idle, DaemonRecord
    <2>6. CASE Close(d)
        <3> DEFINE r == [pc |-> "dead", master |-> FALSE, closing |-> TRUE]
        <3>1. r \in DaemonRecord /\ ~r.master
            BY DEF DaemonRecord, DaemonPc
        <3>2. daemon' = [daemon EXCEPT ![d] = r]
            BY <2>6 DEF Close
        <3> QED
            BY <1>4, <2>6, <3>1, <3>2 DEF Close, DaemonRecord
    <2>7. CASE Kill(d)
        <3> DEFINE r == [daemon[d] EXCEPT !.pc = "dead", !.master = FALSE]
        <3>1. r \in DaemonRecord /\ ~r.master
            BY DEF DaemonRecord, DaemonPc
        <3>2. daemon' = [daemon EXCEPT ![d] = r]
            BY <2>7 DEF Kill
        <3> QED
            BY <1>4, <2>7, <3>1, <3>2 DEF Kill, DaemonRecord
    <2> QED
        BY <1>5, <2>1, <2>2, <2>3, <2>4, <2>5, <2>6, <2>7 DEF Daemon, Starting
<1>6. ASSUME NEW c \in Calls, Begin(c) PROVE TypeOK'
    <2>1. call' \in [Calls -> CallRecord]
        BY <1>6 DEF Begin, CallRecord, CallPc
    <2> QED
        BY <1>6, <2>1 DEF Begin, CallRecord
<1>7. ASSUME NEW c \in Calls, Ensure(c) PROVE TypeOK'
    <2>1. CASE Ask(c)
        BY <1>2, <1>3, <2>1 DEF Ask, CallRecord, CallPc
    <2>2. CASE Spawn(c)
        <3>1. call' \in [Calls -> CallRecord]
            BY <1>2, <2>2 DEF Spawn, CallPc
        <3>2. CASE UNCHANGED daemon
            BY <2>2, <3>1, <3>2 DEF Spawn, CallRecord
        <3>3. CASE Unborn # {} /\ daemon' = [daemon EXCEPT ![CHOOSE d \in Unborn : TRUE].pc = "probe"]
            <4> DEFINE d == CHOOSE e \in Unborn : TRUE
                       r == [daemon[d] EXCEPT !.pc = "probe"]
            <4>1. d \in Daemons /\ daemon[d].pc = "off"
                <5>1. d \in Unborn
                    BY <3>3
                <5> QED
                    BY <5>1 DEF Unborn
            <4>2. r \in DaemonRecord /\ r.pc # "serving" /\ ~r.master
                BY <4>1 DEF DaemonRecord, DaemonPc
            <4>3. daemon' = [daemon EXCEPT ![d] = r]
                BY <3>3
            <4> QED
                BY <1>4, <2>2, <3>1, <4>1, <4>2, <4>3 DEF Spawn, DaemonRecord, CallRecord
        <3> QED
            BY <2>2, <3>2, <3>3 DEF Spawn
    <2>3. CASE Poll(c)
        BY <1>2, <2>3 DEF Poll, CallRecord, CallPc
    <2>4. CASE AskAgain(c)
        BY <1>2, <2>4 DEF AskAgain, CallRecord, CallPc
    <2>5. CASE Unlock(c)
        <3>1. CASE Listening /\ call[c].right
            <4> DEFINE r == [daemon[socket] EXCEPT !.master = TRUE]
            <4>1. socket \in Daemons /\ daemon[socket].pc = "serving"
                BY <3>1, NoDaemonAssumption DEF Listening, Serving
            <4>2. r \in DaemonRecord /\ r.pc = "serving"
                BY <4>1 DEF DaemonRecord
            <4>3. daemon' = [daemon EXCEPT ![socket] = r] /\ Goto(c, "askFresh") /\ UNCHANGED held
                BY <2>5, <3>1 DEF Unlock
            <4> QED
                BY <1>2, <1>4, <2>5, <4>1, <4>2, <4>3 DEF Unlock, CallRecord, CallPc, DaemonRecord
        <3>2. CASE ~(Listening /\ call[c].right)
            BY <1>2, <1>3, <2>5, <3>2 DEF Unlock, CallRecord, CallPc
        <3> QED
            BY <3>1, <3>2
    <2>6. CASE AskFresh(c)
        BY <1>2, <2>6 DEF AskFresh, CallRecord, CallPc
    <2>7. CASE Derive(c)
        BY <1>2, <1>3, <2>7 DEF Derive, CallRecord, CallPc
    <2>8. CASE Adopt(c)
        BY <1>3, <2>8 DEF Adopt, CallRecord
    <2> QED
        BY <1>7, <2>1, <2>2, <2>3, <2>4, <2>5, <2>6, <2>7, <2>8 DEF Ensure
<1>8. ASSUME NEW c \in Calls, BeginLock(c) PROVE TypeOK'
    BY <1>2, <1>8, HomeAssumption DEF BeginLock, CallRecord, CallPc
<1>9. ASSUME NEW c \in Calls, Lock(c) PROVE TypeOK'
    <2>1. /\ call' \in [Calls -> CallRecord]
          /\ locked' \subseteq Processes
        BY <1>1, <1>9, HomeAssumption DEF Lock, CallRecord
    <2>2. CASE Listening
        <3> DEFINE r == [daemon[socket] EXCEPT !.master = FALSE, !.closing = TRUE]
        <3>1. socket \in Daemons
            BY <2>2, NoDaemonAssumption DEF Listening, Serving
        <3>2. r \in DaemonRecord /\ ~r.master
            BY <3>1 DEF DaemonRecord
        <3>3. daemon' = [daemon EXCEPT ![socket] = r]
            BY <1>9, <2>2 DEF Lock, Locked
        <3> QED
            BY <1>4, <1>9, <2>1, <3>1, <3>2, <3>3 DEF Lock, CallRecord, DaemonRecord
    <2>3. CASE ~Listening
        BY <1>9, <2>1, <2>3 DEF Lock, CallRecord
    <2> QED
        BY <2>2, <2>3
<1>10. CASE UNCHANGED vars
    BY <1>10 DEF vars
<1> QED
    BY <1>5, <1>6, <1>7, <1>8, <1>9, <1>10 DEF Next

-------------------------------------------------------------------------------
(* The socket *)

(* Who answers, and what a request finds.                                  *)
LEMMA AnswersIs ==
    ASSUME TypeOK, Listening PROVE socket \in Daemons /\ daemon[socket].pc = "serving"
BY NoDaemonAssumption DEF TypeOK, Listening, Serving

(* The daemon that a call starts, if it starts one.                        *)
LEMMA SpawnIs ==
    ASSUME TypeOK, NEW c \in Calls, Spawn(c)
    PROVE \/ UNCHANGED daemon
          \/ \E d \in Daemons : /\ daemon[d].pc = "off"
                              /\ daemon' = [daemon EXCEPT ![d].pc = "probe"]
<1>1. CASE Unborn # {} /\ daemon' = [daemon EXCEPT ![CHOOSE d \in Unborn : TRUE].pc = "probe"]
    <2> DEFINE d == CHOOSE e \in Unborn : TRUE
    <2>1. d \in Unborn
        BY <1>1
    <2> QED
        BY <1>1, <2>1 DEF Unborn
<1> QED
    BY <1>1 DEF Spawn

(* What may happen does not change.                                        *)
LEMMA FaultsStay == [Next]_vars => faults' = faults
<1> SUFFICES ASSUME [Next]_vars PROVE faults' = faults
    OBVIOUS
<1>1. ASSUME NEW d \in Daemons, Daemon(d) PROVE faults' = faults
    BY <1>1 DEF Daemon, Starting, Probe, Remove, Bind, Expire, Idle, Close, Kill
<1>2. ASSUME NEW c \in Calls, Ensure(c) PROVE faults' = faults
    BY <1>2 DEF Ensure, Ask, Spawn, Poll, AskAgain, Unlock, AskFresh, Derive, Adopt
<1>3. ASSUME NEW c \in Calls, Begin(c) \/ BeginLock(c) \/ Lock(c) PROVE faults' = faults
    BY <1>3 DEF Begin, BeginLock, Lock
<1> QED
    BY <1>1, <1>2, <1>3 DEF Next, vars

LEMMA OneSocketStep == TypeOK /\ OneSocket /\ [Next]_vars => OneSocket'
<1> SUFFICES ASSUME TypeOK, OneSocket, [Next]_vars PROVE OneSocket'
    OBVIOUS
<1>0. NoKill' = NoKill
    BY FaultsStay DEF NoKill
<1> SUFFICES ASSUME NoKill
             PROVE /\ socket' # NoDaemon => Serving(socket)'
                   /\ \A d \in Daemons : Serving(d)' => d = socket'
                   /\ \A d \in Daemons : daemon'[d].pc # "remove"
    BY <1>0 DEF OneSocket
<1>1. /\ socket # NoDaemon => Serving(socket)
      /\ \A d \in Daemons : Serving(d) => d = socket
      /\ \A d \in Daemons : daemon[d].pc # "remove"
    BY DEF OneSocket
<1>2. ASSUME UNCHANGED socket, NEW d \in Daemons, NEW r,
             daemon' = [daemon EXCEPT ![d] = r],
             r.pc # "remove", r.pc = "serving" <=> daemon[d].pc = "serving"
      PROVE /\ socket' # NoDaemon => Serving(socket)'
            /\ \A e \in Daemons : Serving(e)' => e = socket'
            /\ \A e \in Daemons : daemon'[e].pc # "remove"
    BY <1>1, <1>2 DEF Serving, TypeOK
<1>3. ASSUME UNCHANGED <<socket, daemon>>
      PROVE /\ socket' # NoDaemon => Serving(socket)'
            /\ \A e \in Daemons : Serving(e)' => e = socket'
            /\ \A e \in Daemons : daemon'[e].pc # "remove"
    BY <1>1, <1>3 DEF Serving
<1>4. ASSUME NEW d \in Daemons, Daemon(d)
      PROVE /\ socket' # NoDaemon => Serving(socket)'
            /\ \A e \in Daemons : Serving(e)' => e = socket'
            /\ \A e \in Daemons : daemon'[e].pc # "remove"
    <2>1. CASE Probe(d)
        <3>1. Listening \/ socket = NoDaemon
            BY <1>1 DEF Listening, Serving
        <3> DEFINE r == [daemon[d] EXCEPT !.pc = IF socket = NoDaemon THEN "bind" ELSE "dead"]
        <3>2. daemon' = [daemon EXCEPT ![d] = r] /\ UNCHANGED socket
            BY <2>1, <3>1 DEF Probe
        <3>3. r.pc \in {"bind", "dead"} /\ daemon[d].pc = "probe"
            BY <2>1 DEF Probe, TypeOK
        <3> QED
            BY <1>2, <3>2, <3>3
    <2>2. CASE Remove(d)
        BY <1>1, <2>2 DEF Remove
    <2>3. CASE Bind(d)
        <3>1. CASE socket = NoDaemon
            <4>1. /\ socket' = d
                  /\ daemon' = [daemon EXCEPT ![d].pc = "serving"]
                BY <2>3, <3>1 DEF Bind
            <4>2. \A e \in Daemons : ~Serving(e)
                BY <1>1, <3>1, NoDaemonAssumption
            <4> QED
                BY <1>1, <4>1, <4>2, NoDaemonAssumption DEF TypeOK, Serving
        <3>2. CASE socket # NoDaemon
            <4> DEFINE r == [daemon[d] EXCEPT !.pc = "dead"]
            <4>1. daemon' = [daemon EXCEPT ![d] = r] /\ UNCHANGED socket
                BY <2>3, <3>2 DEF Bind
            <4>2. r.pc = "dead" /\ daemon[d].pc = "bind"
                BY <2>3 DEF Bind, TypeOK
            <4> QED
                BY <1>2, <4>1, <4>2
        <3> QED
            BY <3>1, <3>2
    <2>4. CASE Expire(d)
        <3> DEFINE r == [daemon[d] EXCEPT !.master = FALSE, !.closing = TRUE]
        <3>1. daemon' = [daemon EXCEPT ![d] = r] /\ UNCHANGED socket
            BY <2>4 DEF Expire, Locked
        <3>2. r.pc = daemon[d].pc /\ r.pc = "serving"
            BY <2>4 DEF Expire, Serving, TypeOK
        <3> QED
            BY <1>2, <3>1, <3>2
    <2>5. CASE Idle(d)
        <3> DEFINE r == [daemon[d] EXCEPT !.closing = TRUE]
        <3>1. daemon' = [daemon EXCEPT ![d] = r] /\ UNCHANGED socket
            BY <2>5 DEF Idle
        <3>2. r.pc = daemon[d].pc /\ r.pc = "serving"
            BY <2>5 DEF Idle, Serving, TypeOK
        <3> QED
            BY <1>2, <3>1, <3>2
    <2>6. CASE Close(d)
        <3>1. /\ socket' = NoDaemon
              /\ daemon' = [daemon EXCEPT ![d] = [pc |-> "dead", master |-> FALSE, closing |-> TRUE]]
              /\ Serving(d)
            BY <2>6 DEF Close
        <3> QED
            BY <1>1, <3>1 DEF Serving, TypeOK
    <2>7. CASE Kill(d)
        BY <2>7 DEF Kill, NoKill
    <2> QED
        BY <1>4, <2>1, <2>2, <2>3, <2>4, <2>5, <2>6, <2>7 DEF Daemon, Starting
<1>5. ASSUME NEW c \in Calls, Ensure(c)
      PROVE /\ socket' # NoDaemon => Serving(socket)'
            /\ \A e \in Daemons : Serving(e)' => e = socket'
            /\ \A e \in Daemons : daemon'[e].pc # "remove"
    <2>1. CASE Spawn(c)
        <3>1. UNCHANGED socket
            BY <2>1 DEF Spawn
        <3>2. CASE UNCHANGED daemon
            BY <1>3, <3>1, <3>2
        <3>3. ASSUME NEW d \in Daemons, daemon[d].pc = "off",
                     daemon' = [daemon EXCEPT ![d].pc = "probe"]
              PROVE /\ socket' # NoDaemon => Serving(socket)'
                    /\ \A e \in Daemons : Serving(e)' => e = socket'
                    /\ \A e \in Daemons : daemon'[e].pc # "remove"
            <4> DEFINE r == [daemon[d] EXCEPT !.pc = "probe"]
            <4>1. daemon' = [daemon EXCEPT ![d] = r] /\ r.pc = "probe"
                BY <3>3 DEF TypeOK
            <4> QED
                BY <1>2, <3>1, <3>3, <4>1
        <3> QED
            BY <2>1, <3>2, <3>3, SpawnIs
    <2>2. CASE Unlock(c)
        <3>1. CASE UNCHANGED daemon
            BY <1>3, <2>2, <3>1 DEF Unlock
        <3>2. CASE Listening /\ daemon' = [daemon EXCEPT ![socket].master = TRUE]
            <4> DEFINE r == [daemon[socket] EXCEPT !.master = TRUE]
            <4>1. socket \in Daemons /\ daemon[socket].pc = "serving"
                BY <3>2, AnswersIs
            <4>2. r.pc = "serving" /\ daemon' = [daemon EXCEPT ![socket] = r] /\ UNCHANGED socket
                BY <2>2, <3>2, <4>1 DEF Unlock, TypeOK
            <4> QED
                BY <1>2, <4>1, <4>2
        <3> QED
            BY <2>2, <3>1, <3>2 DEF Unlock
    <2>3. CASE Ask(c) \/ Poll(c) \/ AskAgain(c) \/ AskFresh(c) \/ Derive(c) \/ Adopt(c)
        BY <1>3, <2>3 DEF Ask, Poll, AskAgain, AskFresh, Derive, Adopt
    <2> QED
        BY <1>5, <2>1, <2>2, <2>3 DEF Ensure
<1>6. ASSUME NEW c \in Calls, Lock(c)
      PROVE /\ socket' # NoDaemon => Serving(socket)'
            /\ \A e \in Daemons : Serving(e)' => e = socket'
            /\ \A e \in Daemons : daemon'[e].pc # "remove"
    <2>1. CASE Listening
        <3> DEFINE r == [daemon[socket] EXCEPT !.master = FALSE, !.closing = TRUE]
        <3>1. socket \in Daemons /\ daemon[socket].pc = "serving"
            BY <2>1, AnswersIs
        <3>2. r.pc = "serving" /\ daemon' = [daemon EXCEPT ![socket] = r] /\ UNCHANGED socket
            BY <1>6, <2>1, <3>1 DEF Lock, Locked, TypeOK
        <3> QED
            BY <1>2, <3>1, <3>2
    <2>2. CASE ~Listening
        BY <1>3, <1>6, <2>2 DEF Lock
    <2> QED
        BY <2>1, <2>2
<1>7. ASSUME NEW c \in Calls, Begin(c) \/ BeginLock(c)
      PROVE UNCHANGED <<socket, daemon>>
    BY <1>7 DEF Begin, BeginLock
<1> QED
    BY <1>3, <1>4, <1>5, <1>6, <1>7 DEF Next, vars

(* A live socket file is not taken from the daemon that answers there.     *)
LEMMA NoHijackStep ==
    TypeOK /\ OneSocket /\ [Next]_vars =>
        (Listening /\ socket' # socket =>
             "kill" \in faults \/ daemon'[socket].pc = "dead")
<1> SUFFICES ASSUME TypeOK, OneSocket, [Next]_vars, Listening, socket' # socket, NoKill
             PROVE daemon'[socket].pc = "dead"
    BY DEF NoKill
<1>1. socket \in Daemons /\ socket # NoDaemon
    BY AnswersIs, NoDaemonAssumption
<1>2. PICK d \in Daemons : Remove(d) \/ Bind(d) \/ Close(d)
    BY DEF Next, Daemon, Starting, Ensure, Probe, Expire, Idle, Kill, Begin, Ask, Spawn,
           Poll, AskAgain, Unlock, AskFresh, Derive, Adopt, BeginLock, Lock, vars
<1>3. CASE Remove(d)
    BY <1>3 DEF Remove, OneSocket
<1>4. CASE Bind(d)
    BY <1>1, <1>4 DEF Bind
<1>5. CASE Close(d)
    <2>1. d = socket
        BY <1>5 DEF Close, OneSocket
    <2> QED
        BY <1>1, <1>5, <2>1 DEF Close, TypeOK
<1> QED
    BY <1>2, <1>3, <1>4, <1>5

-------------------------------------------------------------------------------
(* The session *)

(* A daemon is only given the key while it is to stay.                      *)
LEMMA FreshStep ==
    TypeOK /\ "window" \notin faults /\ Fresh /\ [Next]_vars => Fresh'
<1> SUFFICES ASSUME TypeOK, "window" \notin faults, Fresh, [Next]_vars,
                    NEW e \in Daemons, Serving(e)', daemon'[e].master
             PROVE ~daemon'[e].closing
    BY DEF Fresh
<1>1. CASE daemon'[e] = daemon[e]
    BY <1>1 DEF Fresh, Serving
<1>2. ASSUME NEW d \in Daemons, Daemon(d), daemon'[e] # daemon[e]
      PROVE ~daemon'[e].closing
    <2>1. d = e
        BY <1>2 DEF Daemon, Starting, Probe, Remove, Bind, Expire, Locked, Idle, Close, Kill, TypeOK
    <2>2. ~daemon'[e].master
        <3>1. CASE Probe(e) \/ Remove(e) \/ Bind(e)
            BY <3>1 DEF Probe, Remove, Bind, TypeOK
        <3>2. CASE Expire(e) \/ Idle(e)
            BY <3>2 DEF Expire, Locked, Idle, TypeOK
        <3>3. CASE Close(e) \/ Kill(e)
            BY <3>3 DEF Close, Kill, TypeOK
        <3> QED
            BY <1>2, <2>1, <3>1, <3>2, <3>3 DEF Daemon, Starting
    <2> QED
        BY <2>2
<1>3. ASSUME NEW c \in Calls, Unlock(c), daemon'[e] # daemon[e]
      PROVE ~daemon'[e].closing
    <2>1. Listening /\ daemon' = [daemon EXCEPT ![socket].master = TRUE]
        BY <1>3 DEF Unlock
    <2>2. e = socket
        BY <1>3, <2>1 DEF TypeOK
    <2>3. ~daemon[socket].closing
        BY <1>3, <2>1, AnswersIs DEF Unlock, MayAsk, Listening
    <2> QED
        BY <2>1, <2>2, <2>3 DEF TypeOK
<1>4. ASSUME NEW c \in Calls, Spawn(c), daemon'[e] # daemon[e]
      PROVE ~daemon'[e].closing
    <2>1. PICK d \in Daemons : /\ daemon[d].pc = "off"
                              /\ daemon' = [daemon EXCEPT ![d].pc = "probe"]
        BY <1>4, SpawnIs
    <2> QED
        BY <1>4, <2>1 DEF Serving, TypeOK
<1>5. ASSUME NEW c \in Calls, Lock(c), daemon'[e] # daemon[e]
      PROVE ~daemon'[e].closing
    <2>1. Listening /\ daemon' = Locked(socket)
        BY <1>5 DEF Lock
    <2> QED
        BY <1>5, <2>1 DEF Locked, TypeOK
<1>6. ASSUME NEW c \in Calls,
             \/ Begin(c) \/ BeginLock(c) \/ Ask(c) \/ Poll(c) \/ AskAgain(c)
             \/ AskFresh(c) \/ Derive(c) \/ Adopt(c)
      PROVE daemon' = daemon
    BY <1>6 DEF Begin, BeginLock, Ask, Poll, AskAgain, AskFresh, Derive, Adopt
<1> QED
    BY <1>1, <1>2, <1>3, <1>4, <1>5, <1>6 DEF Next, Ensure, vars

(* With no kill and no late request, a session ends before its daemon does. *)
LEMMA SessionStep ==
    /\ TypeOK /\ OneSocket /\ Fresh
    /\ faults \cap {"window", "kill"} = {} /\ (session => Unlocked)
    /\ [Next]_vars
    => (session' => Unlocked')
<1> SUFFICES ASSUME TypeOK, OneSocket, Fresh, faults \cap {"window", "kill"} = {},
                    session => Unlocked, [Next]_vars, session'
             PROVE Unlocked'
    OBVIOUS
<1>1. /\ socket # NoDaemon => Serving(socket)
      /\ \A d \in Daemons : Serving(d) => d = socket
      /\ \A d \in Daemons : daemon[d].pc # "remove"
      /\ "kill" \notin faults
    BY DEF OneSocket, NoKill
<1>2. ASSUME UNCHANGED <<socket, daemon>>, Unlocked PROVE Unlocked'
    BY <1>2 DEF Unlocked, Listening, Serving
<1>3. ASSUME NEW d \in Daemons, Daemon(d) PROVE Unlocked'
    <2>1. session /\ Unlocked /\ socket \in Daemons /\ daemon[socket].pc = "serving"
        <3>1. session
            BY <1>3 DEF Daemon, Starting, Probe, Remove, Bind, Expire, Idle, Close, Kill
        <3> QED
            BY <3>1, AnswersIs DEF Unlocked
    <2>2. daemon[socket].master /\ ~daemon[socket].closing
        BY <2>1, AnswersIs DEF Unlocked, Fresh, Listening
    <2>3. CASE Probe(d)
        BY <2>1, <2>2, <2>3, NoDaemonAssumption DEF Probe, Unlocked, Listening, Serving, TypeOK
    <2>4. CASE Bind(d)
        BY <2>1, <2>2, <2>4, NoDaemonAssumption DEF Bind, Unlocked, Listening, Serving, TypeOK
    <2>5. CASE Remove(d) \/ Kill(d)
        BY <1>1, <2>5 DEF Remove, Kill
    <2>6. CASE Expire(d)
        BY <2>6 DEF Expire
    <2>7. CASE Idle(d) \/ Close(d)
        BY <1>1, <2>2, <2>7 DEF Idle, Close
    <2> QED
        BY <1>3, <2>3, <2>4, <2>5, <2>6, <2>7 DEF Daemon, Starting
<1>4. ASSUME NEW c \in Calls, Spawn(c) PROVE Unlocked'
    <2>1. Unlocked
        BY <1>4 DEF Spawn
    <2>2. UNCHANGED <<socket, daemon>>
        BY <1>4, <2>1 DEF Spawn, Unlocked
    <2> QED
        BY <1>2, <2>1, <2>2
<1>5. ASSUME NEW c \in Calls, Unlock(c) PROVE Unlocked'
    <2>1. Unlocked /\ socket \in Daemons /\ daemon[socket].pc = "serving"
        BY <1>5, AnswersIs DEF Unlock, Unlocked
    <2>2. CASE UNCHANGED daemon
        BY <1>2, <1>5, <2>1, <2>2 DEF Unlock
    <2>3. CASE daemon' = [daemon EXCEPT ![socket].master = TRUE]
        BY <1>5, <2>1, <2>3, NoDaemonAssumption DEF Unlock, Unlocked, Listening, Serving, TypeOK
    <2> QED
        BY <1>5, <2>2, <2>3 DEF Unlock
<1>6. ASSUME NEW c \in Calls, Adopt(c) PROVE Unlocked'
    BY <1>2, <1>6 DEF Adopt
<1>7. ASSUME NEW c \in Calls, Lock(c) PROVE FALSE
    BY <1>7 DEF Lock
<1>8. ASSUME NEW c \in Calls,
             \/ Begin(c) \/ BeginLock(c) \/ Ask(c) \/ Poll(c) \/ AskAgain(c)
             \/ AskFresh(c) \/ Derive(c)
      PROVE UNCHANGED <<socket, daemon, session>>
    BY <1>8 DEF Begin, BeginLock, Ask, Poll, AskAgain, AskFresh, Derive
<1> QED
    BY <1>2, <1>3, <1>4, <1>5, <1>6, <1>7, <1>8 DEF Next, Ensure, vars

-------------------------------------------------------------------------------
(* The lock *)

LEMMA QuietStep == TypeOK /\ Quiet /\ [Next]_vars => Quiet'
<1> SUFFICES ASSUME TypeOK, Quiet, [Next]_vars, NEW e \in Calls
             PROVE /\ call'[e].right => call'[e].asks
                   /\ ~call'[e].asks => call'[e].pc \in {"idle", "ask", "adopt", "lock"}
                   /\ call'[e].pc \in {"idle", "lock"} => ~call'[e].asks
    BY DEF Quiet
<1>1. CASE call'[e] = call[e]
    BY <1>1 DEF Quiet
<1>2. CASE call'[e] = AtRest
    BY <1>2 DEF AtRest
<1>3. ASSUME NEW c \in Calls, NEW pc, Goto(c, pc),
             \/ pc \notin {"idle", "lock"} /\ (call[c].asks \/ pc \in {"ask", "adopt"})
             \/ pc = "lock" /\ ~call[c].asks
      PROVE /\ call'[e].right => call'[e].asks
            /\ ~call'[e].asks => call'[e].pc \in {"idle", "ask", "adopt", "lock"}
            /\ call'[e].pc \in {"idle", "lock"} => ~call'[e].asks
    BY <1>3 DEF Goto, Quiet, TypeOK
<1>4. ASSUME NEW c \in Calls, NEW key, Return(c, key)
      PROVE call'[e] = call[e] \/ call'[e] = AtRest
    BY <1>4 DEF Return, TypeOK
<1>5. ASSUME NEW c \in Calls, Begin(c)
      PROVE /\ call'[e].right => call'[e].asks
            /\ ~call'[e].asks => call'[e].pc \in {"idle", "ask", "adopt", "lock"}
            /\ call'[e].pc \in {"idle", "lock"} => ~call'[e].asks
    <2>1. PICK asks, right \in BOOLEAN :
            /\ right => asks
            /\ call' = [call EXCEPT ![c] = [pc |-> "ask", asks |-> asks, right |-> right]]
        BY <1>5 DEF Begin
    <2>2. CASE e = c
        BY <2>1, <2>2 DEF TypeOK
    <2>3. CASE e # c
        BY <1>1, <2>1, <2>3 DEF TypeOK
    <2> QED
        BY <2>2, <2>3
<1>6. ASSUME NEW c \in Calls, Ensure(c)
      PROVE /\ call'[e].right => call'[e].asks
            /\ ~call'[e].asks => call'[e].pc \in {"idle", "ask", "adopt", "lock"}
            /\ call'[e].pc \in {"idle", "lock"} => ~call'[e].asks
    <2>1. CASE Ask(c)
        BY <1>1, <1>2, <1>3, <1>4, <2>1 DEF Ask
    <2>2. CASE Spawn(c)
        BY <1>3, <2>2 DEF Spawn, At, Quiet
    <2>3. CASE Poll(c)
        BY <1>3, <2>3 DEF Poll, At, Quiet
    <2>4. CASE AskAgain(c)
        BY <1>3, <2>4 DEF AskAgain, At, Quiet
    <2>5. CASE Unlock(c)
        BY <1>1, <1>2, <1>3, <1>4, <2>5 DEF Unlock, At, Quiet
    <2>6. CASE AskFresh(c)
        BY <1>3, <2>6 DEF AskFresh, At, Quiet
    <2>7. CASE Derive(c)
        BY <1>1, <1>2, <1>3, <1>4, <2>7 DEF Derive, At, Quiet
    <2>8. CASE Adopt(c)
        BY <1>1, <1>2, <1>4, <2>8 DEF Adopt
    <2> QED
        BY <1>6, <2>1, <2>2, <2>3, <2>4, <2>5, <2>6, <2>7, <2>8 DEF Ensure
<1>7. ASSUME NEW c \in Calls, BeginLock(c)
      PROVE /\ call'[e].right => call'[e].asks
            /\ ~call'[e].asks => call'[e].pc \in {"idle", "ask", "adopt", "lock"}
            /\ call'[e].pc \in {"idle", "lock"} => ~call'[e].asks
    BY <1>3, <1>7 DEF BeginLock, At, Quiet
<1>8. ASSUME NEW c \in Calls, Lock(c)
      PROVE call'[e] = call[e] \/ call'[e] = AtRest
    BY <1>8 DEF Lock, TypeOK
<1>9. ASSUME NEW d \in Daemons, Daemon(d) PROVE call'[e] = call[e]
    BY <1>9 DEF Daemon, Starting, Probe, Remove, Bind, Expire, Idle, Close, Kill
<1> QED
    BY <1>1, <1>2, <1>5, <1>6, <1>7, <1>8, <1>9 DEF Next, vars

(* No daemon comes by the key of itself, and none that has it is reached.  *)
LEMMA DaemonsStayShut ==
    ASSUME TypeOK, NEW d \in Daemons, Daemon(d)
    PROVE /\ ~Unlocked => ~Unlocked'
          /\ \A e \in Daemons : daemon'[e].master => daemon[e].master
          /\ UNCHANGED <<held, call, locked, faults>>
<1>1. UNCHANGED <<held, call, locked, faults>>
    BY DEF Daemon, Starting, Probe, Remove, Bind, Expire, Idle, Close, Kill
<1>2. \A e \in Daemons : daemon'[e].master => daemon[e].master
    BY DEF Daemon, Starting, Probe, Remove, Bind, Expire, Locked, Idle, Close, Kill, TypeOK
<1>3. ASSUME UNCHANGED socket, Unlocked' PROVE Unlocked
    <2>1. socket \in Daemons /\ daemon'[socket].pc = "serving" /\ daemon'[socket].master
        BY <1>3, NoDaemonAssumption DEF Unlocked, Listening, Serving, TypeOK
    <2>2. daemon[socket].master
        BY <1>2, <2>1
    <2> QED
        BY <2>1, <2>2, NoDaemonAssumption DEF TypeOK, Unlocked, Listening, Serving
<1>4. ASSUME socket' = NoDaemon PROVE ~Unlocked'
    BY <1>4 DEF Unlocked, Listening, Serving
<1>5. ASSUME Bind(d), socket' = d PROVE ~Unlocked'
    <2>1. ~daemon[d].master
        BY <1>5 DEF Bind, TypeOK
    <2> QED
        BY <1>2, <1>5, <2>1 DEF Unlocked
<1>6. \/ UNCHANGED socket
      \/ socket' = NoDaemon
      \/ Bind(d) /\ socket' = d
    BY DEF Daemon, Starting, Probe, Remove, Bind, Expire, Idle, Close, Kill
<1> QED
    BY <1>1, <1>2, <1>3, <1>4, <1>5, <1>6

LEMMA ShutStep ==
    ASSUME OneCallEach, TypeOK, OneSocket, Quiet, Shut, [Next]_vars
    PROVE Shut'
<1>1. ASSUME NEW d \in Daemons, Daemon(d) PROVE Shut'
    BY <1>1, DaemonsStayShut DEF Shut, NoKill
<1>2. ASSUME NEW c \in Calls, Begin(c) PROVE Shut'
    <2>1. PICK asks, right \in BOOLEAN :
            /\ right => asks
            /\ call' = [call EXCEPT ![c] = [pc |-> "ask", asks |-> asks, right |-> right]]
            /\ locked' = IF asks THEN {} ELSE locked
        BY <1>2 DEF Begin
    <2>2. \A e \in Calls : call'[e] = call[e] \/ call'[e] = [pc |-> "ask", asks |-> asks, right |-> right]
        BY <2>1 DEF TypeOK
    <2>3. UNCHANGED <<socket, daemon, held, faults>> /\ (Unlocked' <=> Unlocked)
        BY <1>2 DEF Begin, Unlocked, Listening, Serving
    <2>4. CASE asks
        BY <2>1, <2>2, <2>3, <2>4 DEF Shut
    <2>5. CASE ~asks
        BY <2>1, <2>2, <2>3, <2>5 DEF Shut, NoKill
    <2> QED
        BY <2>4, <2>5
<1>3. ASSUME NEW c \in Calls, Ensure(c) PROVE Shut'
    <2>1. /\ locked' = locked /\ faults' = faults
          /\ \A e \in Calls \ {c} : call'[e] = call[e]
          /\ call'[c].pc # "lock" /\ call[c].pc \notin {"idle", "lock"}
          /\ ~call[c].asks => ~call'[c].asks
        BY <1>3 DEF Ensure, Ask, Spawn, Poll, AskAgain, Unlock, AskFresh, Derive, Adopt,
                    At, Goto, Return, AtRest, TypeOK
    <2>2. \A e \in Calls \ {c} : held'[Home[e]] = held[Home[e]]
        <3>1. \A e \in Calls \ {c} : Home[e] # Home[c]
            BY DEF OneCallEach
        <3>2. held' = held \/ \E key \in BOOLEAN : Return(c, key)
            BY <1>3 DEF Ensure, Ask, Spawn, Poll, AskAgain, Unlock, AskFresh, Derive, Adopt
        <3> QED
            BY <3>1, <3>2, HomeAssumption DEF Return, TypeOK
    <2>3. CASE locked = {}
        BY <2>1, <2>2, <2>3 DEF Shut
    <2>4. CASE locked # {}
        <3>1. ~Unlocked /\ ~call[c].asks /\ ~call[c].right
            BY <2>4 DEF Shut, Quiet
        <3>2. call[c].pc \in {"ask", "adopt"}
            BY <2>1, <3>1 DEF Quiet
        <3>3. Ask(c) \/ Adopt(c)
            BY <1>3, <3>2 DEF Ensure, Ask, Spawn, Poll, AskAgain, Unlock, AskFresh, Derive, At
        <3>4. UNCHANGED <<socket, daemon>> /\ (Unlocked' <=> Unlocked)
            BY <3>3 DEF Ask, Adopt, Unlocked, Listening, Serving
        <3>5. PICK key \in BOOLEAN : Return(c, key) /\ (Ask(c) => ~key)
            BY <3>1, <3>3 DEF Ask, Adopt
        <3>6. Home[c] \in locked => Ask(c)
            BY <3>2, <3>3 DEF Shut, Adopt
        <3>7. call'[c] = AtRest
            BY <3>5 DEF Return, TypeOK
        <3>8. \A p \in Processes : held'[p] => held[p] \/ (p = Home[c] /\ key)
            BY <3>5 DEF Return, TypeOK
        <3>9. \A p \in locked : ~held'[p]
            BY <3>5, <3>6, <3>8 DEF Shut, TypeOK
        <3> QED
            BY <2>1, <2>2, <3>4, <3>7, <3>9 DEF Shut, AtRest, NoKill
    <2> QED
        BY <2>3, <2>4
<1>4. ASSUME NEW c \in Calls, BeginLock(c) PROVE Shut'
    <2>1. /\ UNCHANGED <<socket, daemon, locked, faults>>
          /\ held' = [held EXCEPT ![Home[c]] = FALSE]
          /\ call' = [call EXCEPT ![c].pc = "lock"]
        BY <1>4 DEF BeginLock, Goto
    <2>2. /\ \A p \in Processes : held'[p] => held[p]
          /\ ~held'[Home[c]]
          /\ \A e \in Calls : call'[e].asks = call[e].asks
          /\ \A e \in Calls : call'[e].pc = call[e].pc \/ (e = c /\ call'[e].pc = "lock")
        BY <2>1, HomeAssumption DEF TypeOK
    <2>3. Unlocked' <=> Unlocked
        BY <2>1 DEF Unlocked, Listening, Serving
    <2> QED
        BY <2>1, <2>2, <2>3, HomeAssumption DEF Shut, NoKill, TypeOK
<1>5. ASSUME NEW c \in Calls, Lock(c) PROVE Shut'
    <2>1. /\ UNCHANGED <<socket, held, faults>>
          /\ call'[c] = AtRest /\ \A e \in Calls \ {c} : call'[e] = call[e]
          /\ At(c, "lock")
        BY <1>5 DEF Lock, TypeOK
    <2>2. ~Unlocked'
        <3>1. CASE Listening
            BY <1>5, <3>1, AnswersIs DEF Lock, Locked, Unlocked, TypeOK
        <3>2. CASE ~Listening
            BY <1>5, <3>2 DEF Lock, Unlocked, Listening, Serving
        <3> QED
            BY <3>1, <3>2
    <2>3. NoKill => \A d \in Daemons : ~daemon'[d].master
        <3> SUFFICES ASSUME NoKill, NEW d \in Daemons, daemon'[d].master PROVE FALSE
            OBVIOUS
        <3>1. CASE Listening
            <4>1. daemon' = Locked(socket)
                BY <1>5, <3>1 DEF Lock
            <4>2. d # socket /\ daemon'[d] = daemon[d]
                BY <4>1 DEF Locked, TypeOK
            <4>3. Serving(d)
                BY <4>2, NoDaemonAssumption DEF Serving, TypeOK
            <4> QED
                BY <4>2, <4>3 DEF OneSocket
        <3>2. CASE ~Listening
            <4>1. Serving(d)
                BY <1>5, <3>2, NoDaemonAssumption DEF Lock, Serving, TypeOK
            <4> QED
                BY <3>2, <4>1 DEF OneSocket, Listening
        <3> QED
            BY <3>1, <3>2
    <2>4. ~held[Home[c]]
        BY <2>1 DEF Shut, At
    <2>5. CASE \E other \in Calls : call[other].asks
        <3>1. locked' = {}
            BY <1>5, <2>5 DEF Lock
        <3> QED
            BY <2>1, <3>1 DEF Shut, AtRest
    <2>6. CASE ~\E other \in Calls : call[other].asks
        <3>1. locked' = locked \cup {Home[c]}
            BY <1>5, <2>6 DEF Lock
        <3>2. \A e \in Calls : ~call'[e].asks
            BY <2>1, <2>6 DEF AtRest
        <3>3. \A e \in Calls : Home[e] \in locked' => call'[e].pc \in {"idle", "ask", "lock"}
            BY <2>1, <3>1 DEF Shut, OneCallEach, AtRest
        <3>4. \A e \in Calls : call'[e].pc = "lock" => ~held'[Home[e]]
            BY <2>1 DEF Shut, AtRest
        <3>5. \A p \in locked' : ~held'[p]
            BY <2>1, <2>4, <3>1 DEF Shut
        <3>6. NoKill' = NoKill
            BY <2>1 DEF NoKill
        <3> QED
            BY <2>2, <2>3, <3>2, <3>3, <3>4, <3>5, <3>6 DEF Shut
    <2> QED
        BY <2>5, <2>6
<1>6. CASE UNCHANGED vars
    BY <1>6 DEF vars, Shut, Unlocked, Listening, Serving, NoKill
<1> QED
    BY <1>1, <1>2, <1>3, <1>4, <1>5, <1>6 DEF Next

-------------------------------------------------------------------------------

LEMMA BaseInit == Init => Base
<1> SUFFICES ASSUME Init PROVE Base
    OBVIOUS
<1>1. \A d \in Daemons : daemon[d] = [pc |-> "off", master |-> FALSE, closing |-> FALSE]
    BY DEF Init
<1> QED
    BY <1>1, TypeInit
    DEF Init, Base, OneSocket, Announced, Fresh, SessionStays, Quiet, Serving, AtRest

LEMMA BaseStep == Base /\ [Next]_vars => Base'
<1> SUFFICES ASSUME Base, [Next]_vars PROVE Base'
    OBVIOUS
<1>1. TypeOK' /\ OneSocket' /\ Quiet' /\ faults' = faults
    BY TypeStep, OneSocketStep, QuietStep, FaultsStay DEF Base
<1>2. "window" \notin faults => Fresh'
    BY FreshStep DEF Base, Announced
<1>3. SessionStays'
    <2> SUFFICES ASSUME faults \cap {"window", "kill"} = {} PROVE session' => Unlocked'
        BY <1>1 DEF SessionStays
    <2>1. Fresh /\ (session => Unlocked)
        BY DEF Base, Announced, SessionStays
    <2> QED
        BY <2>1, SessionStep DEF Base
<1> QED
    BY <1>1, <1>2, <1>3 DEF Base, Announced

LEMMA BaseHolds == Spec => []Base
BY BaseInit, BaseStep, PTL DEF Spec

(* Whatever daemons are started, and however often, the socket file of one that
   answers is not taken away by another, unless one was killed
   (clearStaleSocket).                                                     *)
THEOREM LiveSocketStays == Spec => NoHijack
<1>1. Base /\ [Next]_vars =>
        [Listening /\ socket' # socket =>
             "kill" \in faults \/ daemon'[socket].pc = "dead"]_vars
    BY NoHijackStep DEF Base
<1> QED
    BY <1>1, BaseHolds, PTL DEF Spec, NoHijack

(* An unlock that was reported leaves a session, for any number of callers
   (ensureVaultUnlocked, watchForIdle).                                    *)
THEOREM AnnouncedSessionStays == Spec => []SessionStays
BY BaseHolds, PTL DEF Base, Announced

(* A lock forgets, here and in every daemon, where each process makes one call
   at a time (lockKeyring).                                                *)
THEOREM LockIsKept == ASSUME OneCallEach PROVE Spec => []LockForgets
<1>1. Init => Shut
    BY DEF Init, Shut, AtRest
<1>2. Base /\ Shut /\ [Next]_vars => Shut'
    BY OneCallEach, ShutStep DEF Base
<1>3. Base /\ Shut => LockForgets
    BY DEF Base, Shut, LockForgets, NoKill
<1> QED
    BY <1>1, <1>2, <1>3, BaseHolds, PTL DEF Spec

=============================================================================
