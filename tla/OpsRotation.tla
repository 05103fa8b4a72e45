----------------------------- MODULE OpsRotation -----------------------------
(***************************************************************************)
(* Replacing the key vops logs in with on every host of the fleet:         *)
(* VopsOpsRotationService.rotate, the key files it promotes and the        *)
(* authorized_keys files it rewrites over ssh.                             *)
(*                                                                         *)
(* A key is its generation.  The key files are three slots, each a private *)
(* and a public half under names of their own.  A host's authorized_keys   *)
(* is the line tagged for the current key, the line tagged for the next    *)
(* one, and the lines vops did not write; only a rotation writes to it     *)
(* here.  A session is the path of a key file: what is in the file counts  *)
(* at each connection, since no connection is shared.                      *)
(***************************************************************************)
EXTENDS Naturals, FiniteSets

CONSTANTS
    Hosts,      \* hosts with opsKeyInstalled
    Callers,    \* processes that may run rotate
    MaxKey,     \* bound: generations of the key
    UserKey,    \* the operator's own key is on this machine
    Faults      \* what may happen besides: "blip", a remote command fails,
                \* having run or not; "cut", authorized_keys reads as empty;
                \* "crash" anywhere but among the renames, "crashMove" among
                \* them; "force", rotate is called with --force

ASSUME HostsAssumption == Hosts # {}
ASSUME MaxKeyAssumption == MaxKey \in Nat \ {0}
ASSUME UserKeyAssumption == UserKey \in BOOLEAN

VARIABLES
    key,        \* key files: half and slot to the generation there, 0 for none
    made,       \* generations made so far
    lock,       \* rotate-ops.lock exists
    refuses,    \* hosts whose sshd takes no key but the first
    authorized, \* authorized_keys of each host
    run,        \* local state of each call of rotate
    faults      \* those of Faults that may happen

vars == <<key, made, lock, refuses, authorized, run, faults>>

Modes == {"plain", "dry", "force"}

Keys == 0 .. MaxKey
Slots == {"ops", "next", "prev"}
Halves == {"private", "public"}
Session == Slots \cup {"user"}

Content == [own : BOOLEAN, ops : Keys, next : Keys]
Empty == [own |-> FALSE, ops |-> 0, next |-> 0]

Pc == {"idle", "lock", "loop", "read", "append", "verify", "clean", "swap",
       "reverify", "restore", "moveOps", "moveOpsPub", "moveNext", "moveNextPub",
       "release"}

Moving == {"moveOps", "moveOpsPub", "moveNext", "moveNextPub"}

Rotation == [pc : Pc, mode : Modes, todo : SUBSET Hosts, host : Hosts, next : Keys,
             session : Session, original : Content, failed : BOOLEAN]

TypeOK ==
    /\ key \in [Halves -> [Slots -> Keys]]
    /\ made \in 1 .. MaxKey
    /\ lock \in BOOLEAN
    /\ refuses \subseteq Hosts
    /\ faults \subseteq Faults
    /\ authorized \in [Hosts -> Content]
    /\ run \in [Callers -> Rotation]

AtRest == [pc |-> "idle", mode |-> "plain", todo |-> {},
           host |-> CHOOSE h \in Hosts : TRUE, next |-> 0, session |-> "ops",
           original |-> Empty, failed |-> FALSE]

Init ==
    /\ key = [half \in Halves |-> [slot \in Slots |-> IF slot = "ops" THEN 1 ELSE 0]]
    /\ made = 1
    /\ lock = FALSE
    /\ refuses \in SUBSET Hosts
    /\ authorized \in [Hosts -> [own : BOOLEAN, ops : {1}, next : {0}]]
    /\ run = [c \in Callers |-> AtRest]
    /\ faults \in SUBSET Faults

At(c, pc) == run[c].pc = pc
Goto(c, pc) == run' = [run EXCEPT ![c].pc = pc]
Host(c) == run[c].host
InLock(c) == run[c].pc \notin {"idle", "lock"}

local == <<made, lock, refuses, faults>>

-----------------------------------------------------------------------------
(* Logging in, reading and writing *)

(* sshd lets key k in. *)
Accepts(h, k) ==
    /\ k # 0
    /\ k \in {authorized[h].ops, authorized[h].next}
    /\ h \in refuses => k = 1

(* A session with what is in slot s now, or with the operator's key. *)
Opens(h, s) ==
    IF s = "user" THEN UserKey /\ authorized[h].own
                  ELSE Accepts(h, key["private"][s])

(* opsLadder, and the user key after it: what a session is tried with. *)
Ladder == {s \in Slots : key["public"][s] # 0 /\ key["private"][s] # 0} \cup {"user"}

(* What readAuthorizedKeys returns: the exit code of its `cat` is not looked at,
   so that a connection lost there reads as an empty file. *)
Readings(h) == {authorized[h]} \cup (IF "cut" \in faults THEN {Empty} ELSE {})

(* putFile: all of f, or an error; after an error f may be there, or not. *)
Put(c, f, done, failed) ==
    LET h == Host(c) IN
    \/ /\ Opens(h, run[c].session)
       /\ authorized' = [authorized EXCEPT ![h] = f]
       /\ run' = [run EXCEPT ![c].pc = done, ![c].failed = @ \/ failed]
    \/ /\ "blip" \in faults \/ ~Opens(h, run[c].session)
       /\ \/ authorized' = authorized
          \/ Opens(h, run[c].session) /\ authorized' = [authorized EXCEPT ![h] = f]
       /\ Goto(c, "release")

-----------------------------------------------------------------------------
(* rotate *)

(* ensureNextOpsKey: the next key, made unless its public half is there.  It is
   looked up before the lock is taken. *)
Begin(c) ==
    /\ At(c, "idle")
    /\ \E mode \in {"plain", "dry"} \cup ({"force"} \cap faults) :
         \/ /\ key["public"]["next"] # 0
            /\ run' = [run EXCEPT ![c] = [AtRest EXCEPT !.pc = "lock", !.mode = mode,
                                            !.next = key["public"]["next"]]]
            /\ UNCHANGED <<key, made>>
         \/ /\ key["public"]["next"] = 0
            /\ key["private"]["next"] = 0
            /\ made < MaxKey
            /\ made' = made + 1
            /\ key' = [half \in Halves |-> [key[half] EXCEPT !["next"] = made']]
            /\ run' = [run EXCEPT ![c] = [AtRest EXCEPT !.pc = "lock", !.mode = mode,
                                            !.next = made']]
    /\ UNCHANGED <<lock, refuses, faults, authorized>>

(* acquireLock: refused while the file is there. *)
Lock(c) ==
    /\ At(c, "lock")
    /\ lock' = TRUE
    /\ run' = IF lock THEN [run EXCEPT ![c] = AtRest]
                      ELSE [run EXCEPT ![c].pc = "loop", ![c].todo = Hosts]
    /\ UNCHANGED <<key, made, refuses, faults, authorized>>

(* pickWorkingTarget: the next host, and a key that opens it. *)
Pick(c) ==
    /\ At(c, "loop")
    /\ \E h \in run[c].todo :
         \/ \E s \in Ladder :
              /\ Opens(h, s)
              /\ run' = [run EXCEPT ![c].pc = "read", ![c].host = h,
                           ![c].session = s, ![c].todo = @ \ {h}]
         \/ run' = [run EXCEPT ![c].todo = @ \ {h}, ![c].failed = TRUE]
    /\ UNCHANGED <<key, local, authorized>>

(* readAuthorizedKeys and classifyRotation: done, mid, or old and absent. *)
Read(c) ==
    /\ At(c, "read")
    /\ \/ \E f \in Readings(Host(c)) :
            run' = [run EXCEPT ![c].original = f,
                      ![c].pc = IF f.ops = run[c].next \/ run[c].mode = "dry" THEN "loop"
                                ELSE IF f.next # 0 THEN "verify" ELSE "append"]
       \/ "blip" \in faults /\ Goto(c, "release")
    /\ UNCHANGED <<key, local, authorized>>

Append(c) ==
    /\ At(c, "append")
    /\ Put(c, [run[c].original EXCEPT !.next = run[c].next], "verify", FALSE)
    /\ UNCHANGED <<key, local>>

(* Variant: the appended line is taken to work. *)
VerifyTrusts(c) ==
    /\ At(c, "verify")
    /\ Goto(c, "swap")
    /\ UNCHANGED <<key, local, authorized>>

(* A login with the next key, over a connection of its own. *)
NextLogin(c, yes, no) ==
    \/ Opens(Host(c), "next") /\ Goto(c, yes)
    \/ ("blip" \in faults \/ ~Opens(Host(c), "next")) /\ Goto(c, no)

Verify(c) ==
    /\ At(c, "verify")
    /\ NextLogin(c, "swap", "clean")
    /\ UNCHANGED <<key, local, authorized>>

(* The temporary line is taken out, of the file as it is now. *)
Clean(c) ==
    /\ At(c, "clean")
    /\ \/ \E f \in Readings(Host(c)) : Put(c, [f EXCEPT !.next = 0], "loop", TRUE)
       \/ "blip" \in faults /\ Goto(c, "release") /\ UNCHANGED authorized
    /\ UNCHANGED <<key, local>>

(* Variant: the file is written anew, with the one line. *)
SwapAlone(c) ==
    /\ At(c, "swap")
    /\ Put(c, [Empty EXCEPT !.ops = run[c].next], "reverify", FALSE)
    /\ UNCHANGED <<key, local>>

(* swapToCanonical: neither of the tagged lines, and the new one. *)
Swap(c) ==
    /\ At(c, "swap")
    /\ \/ \E f \in Readings(Host(c)) :
            Put(c, [f EXCEPT !.next = 0, !.ops = run[c].next], "reverify", FALSE)
       \/ "blip" \in faults /\ Goto(c, "release") /\ UNCHANGED authorized
    /\ UNCHANGED <<key, local>>

Reverify(c) ==
    /\ At(c, "reverify")
    /\ NextLogin(c, "loop", "restore")
    /\ UNCHANGED <<key, local, authorized>>

(* The file as it was first read, over the session of before the swap. *)
Restore(c) ==
    /\ At(c, "restore")
    /\ Put(c, run[c].original, "loop", TRUE)
    /\ UNCHANGED <<key, local>>

(* Variant: what failed is not looked at. *)
EndOfLoopForces(c) ==
    /\ At(c, "loop")
    /\ run[c].todo = {}
    /\ Goto(c, IF run[c].mode = "dry" THEN "release" ELSE "moveOps")
    /\ UNCHANGED <<key, local, authorized>>

(* Promote unless this was a dry run or, without force, a host has failed. *)
EndOfLoop(c) ==
    /\ At(c, "loop")
    /\ run[c].todo = {}
    /\ Goto(c, IF run[c].mode = "dry" \/ (run[c].failed /\ run[c].mode # "force")
               THEN "release" ELSE "moveOps")
    /\ UNCHANGED <<key, local, authorized>>

(* One rename of promoteNextOpsKey, of a file that exists. *)
Renamed(half, from, to) ==
    IF key[half][from] = 0 THEN key
    ELSE [key EXCEPT ![half][to] = key[half][from], ![half][from] = 0]

(* promoteNextOpsKey: ops to prev, if there is a private half, then next to ops;
   of each the private half first. *)
Move(c) ==
    /\ \/ At(c, "moveOps")
          /\ Goto(c, IF key["private"]["ops"] = 0 THEN "moveNext" ELSE "moveOpsPub")
          /\ key' = Renamed("private", "ops", "prev")
       \/ At(c, "moveOpsPub") /\ Goto(c, "moveNext")
          /\ key' = Renamed("public", "ops", "prev")
       \/ At(c, "moveNext") /\ Goto(c, "moveNextPub")
          /\ key' = Renamed("private", "next", "ops")
       \/ At(c, "moveNextPub") /\ Goto(c, "release")
          /\ key' = Renamed("public", "next", "ops")
    /\ UNCHANGED <<local, authorized>>

(* releaseLock, whatever was thrown. *)
Release(c) ==
    /\ At(c, "release")
    /\ lock' = FALSE
    /\ run' = [run EXCEPT ![c] = AtRest]
    /\ UNCHANGED <<key, made, refuses, faults, authorized>>

(* The process is interrupted; a lock it holds stays. *)
Crash(c) ==
    /\ ~At(c, "idle")
    /\ (IF run[c].pc \in Moving THEN "crashMove" ELSE "crash") \in faults
    /\ run' = [run EXCEPT ![c] = AtRest]
    /\ UNCHANGED <<key, local, authorized>>

(* "Remove it if stale": the operator does, when no rotation is running. *)
RemoveStale ==
    /\ lock
    /\ \A c \in Callers : ~InLock(c)
    /\ lock' = FALSE
    /\ UNCHANGED <<key, made, refuses, faults, authorized, run>>

Rotate(c) ==
    \/ Begin(c) \/ Lock(c) \/ Pick(c) \/ Read(c) \/ Append(c) \/ Verify(c)
    \/ Clean(c) \/ Swap(c) \/ Reverify(c) \/ Restore(c) \/ EndOfLoop(c) \/ Move(c)
    \/ Release(c) \/ Crash(c)

Next == RemoveStale \/ \E c \in Callers : Rotate(c)

Spec == Init /\ [][Next]_vars

-----------------------------------------------------------------------------
(* What is claimed *)

(* "Without ever removing the last working access path": some key of the ladder,
   or the operator's own, opens every host.  (Between two renames of a promotion
   the ladder may be short of a key for a moment.)  Remote commands may fail and
   a rotation may be interrupted, but not among the renames; nobody forces one. *)
NoLockout ==
    /\ faults \subseteq {"blip", "crash"}
    /\ \A c \in Callers : run[c].pc \notin Moving
    => \A h \in Hosts : \E s \in Ladder : Opens(h, s)

(* Lines vops did not write are never removed from authorized_keys, as long as
   what is read from there is what is in it. *)
OwnKept ==
    [][\A h \in Hosts : "cut" \notin faults /\ authorized[h].own
                            => authorized'[h].own]_vars

(* While no next key is pending the current key is whole and opens every host:
   "promoted only after every host succeeds", and "idempotent / crash-safe". *)
Settled ==
    /\ TypeOK
    /\ \/ ~(faults \subseteq {"blip", "crash"})
       \/ key["public"]["next"] # 0
       \/ \E c \in Callers : run[c].pc \in Moving
       \/ /\ key["private"]["ops"] = key["public"]["ops"]
          /\ \A h \in Hosts : Opens(h, "ops")

=============================================================================
