----------------------------- MODULE SshLockdown -----------------------------
(***************************************************************************)
(* Disabling SSH password login on a host without locking anybody out:     *)
(* VopsSshLockdownService.disable and the scripts it runs on the host.     *)
(*                                                                         *)
(* A call of vops and the host are two machines.  The apply script runs as *)
(* one root shell on the host and may go on, or die, after its connection  *)
(* is lost; every other remote call is short and either runs or does not.  *)
(* A timer on the host, the dead-man, undoes the change unless a call      *)
(* cancels it.  It outlives the calls, and fires whenever its minutes are  *)
(* up, also when the machine that runs vops was asleep meanwhile.          *)
(***************************************************************************)
EXTENDS Naturals

CONSTANTS
    Disablers,  \* processes that may run disable on this host
    Unit,       \* the transient systemd timer, one for the whole host
    Mishaps     \* what may go wrong on a host, beyond hosts out of reach and
                \* interrupted calls: "lost" answers, a timer left "unarmed"

ASSUME UnitAssumption == Unit \notin Disablers

VARIABLES
    host,       \* systemd: has systemd-run; included: sshd reads the drop-in;
                \* faults: those that may happen there
    dropin,     \* the drop-in says PasswordAuthentication no
    sshd,       \* the running sshd refuses passwords
    keyWorks,   \* the operator's own key logs in
    revert,     \* the revert script is on the host
    timers,     \* dead-men counting down: the unit, or a sleep per caller
    remote,     \* the apply script of each caller
    caller      \* local state of each disable call

lockVars == <<host, dropin, sshd, keyWorks, revert, timers, remote, caller>>

Remote == {"none", "script", "arm", "write", "validate", "reload",
           "applied", "failed"}

CallerPc == {"idle", "probe", "verify", "apply", "notApplied", "check",
             "recheck", "rollBack", "release"}

Outcome == {"none", "refused", "already", "not_applied", "rolled_back", "applied"}

LockTypeOK ==
    /\ host \in [systemd : BOOLEAN, included : BOOLEAN, faults : SUBSET Mishaps]
    /\ dropin \in BOOLEAN
    /\ sshd \in BOOLEAN
    /\ keyWorks \in BOOLEAN
    /\ revert \in BOOLEAN
    /\ timers \subseteq (IF host.systemd THEN {Unit} ELSE Disablers)
    /\ remote \in [Disablers -> Remote]
    /\ caller \in [Disablers -> [pc : CallerPc, pid : BOOLEAN, outcome : Outcome]]

LockInit ==
    /\ host \in [systemd : BOOLEAN, included : BOOLEAN, faults : SUBSET Mishaps]
    /\ dropin = FALSE
    /\ sshd = FALSE
    /\ keyWorks \in BOOLEAN
    /\ revert = FALSE
    /\ timers = {}
    /\ remote = [c \in Disablers |-> "none"]
    /\ caller = [c \in Disablers |-> [pc |-> "idle", pid |-> FALSE, outcome |-> "none"]]

(* What `sshd -T` prints is computed from the files, not from the daemon. *)
Effective == dropin /\ host.included

CallerAt(c, pc) == caller[c].pc = pc
CallerGoes(c, pc) == caller' = [caller EXCEPT ![c].pc = pc]
Return(c, outcome) ==
    caller' = [caller EXCEPT ![c].pc = "idle", ![c].outcome = outcome]

onHost == <<dropin, sshd, keyWorks, revert, timers, remote>>

-----------------------------------------------------------------------------
(* preflight *)

(* The script of an earlier call, a second's work, has ended by now. *)
BeginDisable(c) ==
    /\ CallerAt(c, "idle")
    /\ remote[c] = "none"
    /\ caller' = [caller EXCEPT ![c] = [pc |-> "probe", pid |-> FALSE, outcome |-> "none"]]
    /\ UNCHANGED <<host, onHost>>

(* assertReady and the signal probe; a host that cannot be reached or read, or
   where sudo or recent password logins stand in the way, is refused. *)
Probe(c) ==
    /\ CallerAt(c, "probe")
    /\ \/ Return(c, "refused")
       \/ Effective /\ Return(c, "already")
       \/ ~Effective /\ CallerGoes(c, "verify")
    /\ UNCHANGED <<host, onHost>>

(* verifyUserKey, and on to the apply script when nothing blocks. *)
VerifyUserKey(c) ==
    /\ CallerAt(c, "verify")
    /\ \/ Return(c, "refused") /\ UNCHANGED remote
       \/ /\ keyWorks
          /\ CallerGoes(c, "apply")
          /\ remote' = [remote EXCEPT ![c] = "script"]
    /\ UNCHANGED <<host, dropin, sshd, keyWorks, revert, timers>>

-----------------------------------------------------------------------------
(* The apply script, on the host *)

Runs(c, step) == remote[c] = step
Proceed(c, step) == remote' = [remote EXCEPT ![c] = step]

WriteRevert(c) ==
    /\ Runs(c, "script")
    /\ revert' = TRUE
    /\ Proceed(c, "arm")
    /\ UNCHANGED <<host, dropin, sshd, keyWorks, timers, caller>>

(* The unit is stopped and started anew; `systemd-run ... && echo` does not end
   the script when it fails, in spite of `set -e`.  Without systemd, one more
   sleep in the background. *)
Arm(c) ==
    /\ Runs(c, "arm")
    /\ \/ timers' = IF host.systemd THEN {Unit} ELSE timers \cup {c}
       \/ "unarmed" \in host.faults /\ host.systemd /\ timers' = {}
    /\ Proceed(c, "write")
    /\ UNCHANGED <<host, dropin, sshd, keyWorks, revert, caller>>

WriteDropin(c) ==
    /\ Runs(c, "write")
    /\ dropin' = TRUE
    /\ Proceed(c, "validate")
    /\ UNCHANGED <<host, sshd, keyWorks, revert, timers, caller>>

(* sshd -t; a rejected drop-in is stripped again. *)
Validate(c) ==
    /\ Runs(c, "validate")
    /\ \E ok \in BOOLEAN :
         /\ Proceed(c, IF ok THEN "reload" ELSE "failed")
         /\ dropin' = (dropin /\ ok)
    /\ UNCHANGED <<host, sshd, keyWorks, revert, timers, caller>>

(* The verified reload.  It loads whatever else has changed in the config since
   the last one, so that the operator's key may stop working, or start. *)
Reload(c) ==
    /\ Runs(c, "reload")
    /\ \/ /\ sshd' = Effective
          /\ keyWorks' \in BOOLEAN
          /\ Proceed(c, "applied")
          /\ UNCHANGED dropin
       \/ /\ dropin' = FALSE
          /\ Proceed(c, "failed")
          /\ UNCHANGED <<sshd, keyWorks>>
    /\ UNCHANGED <<host, revert, timers, caller>>

(* Nobody is connected to the script any more, and it dies of that. *)
Die(c) ==
    /\ remote[c] # "none"
    /\ ~CallerAt(c, "apply")
    /\ Proceed(c, "none")
    /\ UNCHANGED <<host, dropin, sshd, keyWorks, revert, timers, caller>>

(* Variant: the revert script strips the drop-in and sshd is not reloaded. *)
FireSilently(t) ==
    /\ t \in timers
    /\ \A c \in Disablers :
         remote[c] \in {"write", "validate", "reload"} => t \notin {Unit, c}
    /\ timers' = timers \ {t}
    /\ dropin' = (dropin /\ ~revert)
    /\ UNCHANGED <<host, sshd, keyWorks, revert, remote, caller>>

(* The dead-man's minutes are up: the revert script, if it is still there.  The
   script that armed it is through by then: it has work for a second. *)
Fire(t) ==
    /\ t \in timers
    /\ \A c \in Disablers :
         remote[c] \in {"write", "validate", "reload"} => t \notin {Unit, c}
    /\ timers' = timers \ {t}
    /\ dropin' = (dropin /\ ~revert)
    /\ sshd' = (sshd /\ ~revert)
    /\ UNCHANGED <<host, keyWorks, revert, remote, caller>>

-----------------------------------------------------------------------------
(* disable, after the script was sent *)

(* cancelDeadmanScript: stops the unit, kills the sleep whose pid the caller
   was told, and removes the revert script. *)
Cancelled(c) ==
    /\ timers' = timers \ ({Unit} \cup IF caller[c].pid THEN {c} ELSE {})
    /\ revert' = FALSE

(* The script ended and its output arrived. *)
Answer(c) ==
    /\ CallerAt(c, "apply")
    /\ remote[c] \in {"applied", "failed"}
    /\ caller' = [caller EXCEPT
                    ![c].pc = IF Runs(c, "applied") THEN "check" ELSE "notApplied",
                    ![c].pid = c \in timers]
    /\ Proceed(c, "none")
    /\ UNCHANGED <<host, dropin, sshd, keyWorks, revert, timers>>

(* The connection broke, or the 120 seconds were over: exit code 255 and as
   much of the output as had arrived. *)
AnswerLost(c) ==
    /\ CallerAt(c, "apply")
    /\ "lost" \in host.faults
    /\ \E told \in BOOLEAN :
         caller' = [caller EXCEPT ![c].pc = "notApplied", ![c].pid = told /\ c \in timers]
    /\ UNCHANGED <<host, onHost>>

(* The apply did not report success: the dead-man is cancelled, if the host can
   be reached, and the caller is told that nothing changed. *)
GiveUp(c) ==
    /\ CallerAt(c, "notApplied")
    /\ Cancelled(c) \/ UNCHANGED <<timers, revert>>
    /\ Return(c, "not_applied")
    /\ UNCHANGED <<host, dropin, sshd, keyWorks, remote>>

(* Variant: it is enough that the apply went through. *)
CheckTrusts(c) ==
    /\ CallerAt(c, "check")
    /\ CallerGoes(c, "recheck")
    /\ UNCHANGED <<host, onHost>>

(* Variant: the dead-man is cancelled as soon as the apply went through. *)
CheckDisarms(c) ==
    /\ CallerAt(c, "check")
    /\ Cancelled(c)
    /\ \/ keyWorks /\ CallerGoes(c, "recheck")
       \/ CallerGoes(c, "rollBack")
    /\ UNCHANGED <<host, dropin, sshd, keyWorks, remote>>

(* verifyApplied: the operator's key must still log in ... *)
Check(c) ==
    /\ CallerAt(c, "check")
    /\ \/ keyWorks /\ CallerGoes(c, "recheck")
       \/ CallerGoes(c, "rollBack")
    /\ UNCHANGED <<host, onHost>>

(* ... and sshd -T must show the directive. *)
Recheck(c) ==
    /\ CallerAt(c, "recheck")
    /\ \/ Effective /\ CallerGoes(c, "release")
       \/ CallerGoes(c, "rollBack")
    /\ UNCHANGED <<host, onHost>>

(* Variant: the dead-man is cancelled first, and its script is gone. *)
RollBackLate(c) ==
    /\ CallerAt(c, "rollBack")
    /\ Cancelled(c) \/ UNCHANGED <<timers, revert>>
    /\ Return(c, "rolled_back")
    /\ UNCHANGED <<host, dropin, sshd, keyWorks, remote>>

(* revertNowScript: the revert script if it is there, then the cancel.  Whether
   it ran is not looked at. *)
RollBack(c) ==
    /\ CallerAt(c, "rollBack")
    /\ \/ /\ dropin' = (dropin /\ ~revert)
          /\ sshd' = (sshd /\ ~revert)
          /\ Cancelled(c)
       \/ UNCHANGED <<dropin, sshd, timers, revert>>
    /\ Return(c, "rolled_back")
    /\ UNCHANGED <<host, keyWorks, remote>>

(* The change is verified: cancel the dead-man.  Whether that ran is not looked
   at either. *)
CancelDeadman(c) ==
    /\ CallerAt(c, "release")
    /\ Cancelled(c) \/ UNCHANGED <<timers, revert>>
    /\ Return(c, "applied")
    /\ UNCHANGED <<host, dropin, sshd, keyWorks, remote>>

(* The process is interrupted; what it started on the host goes on. *)
Interrupt(c) ==
    /\ ~CallerAt(c, "idle")
    /\ Return(c, "none")
    /\ UNCHANGED <<host, onHost>>

-----------------------------------------------------------------------------

Script(c) ==
    WriteRevert(c) \/ Arm(c) \/ WriteDropin(c) \/ Validate(c) \/ Reload(c) \/ Die(c)

Disable(c) ==
    \/ BeginDisable(c) \/ Probe(c) \/ VerifyUserKey(c) \/ Answer(c) \/ AnswerLost(c) \/ GiveUp(c)
    \/ Check(c) \/ Recheck(c) \/ RollBack(c) \/ CancelDeadman(c) \/ Interrupt(c)

LockNext ==
    \/ \E c \in Disablers : Script(c) \/ Disable(c)
    \/ \E t \in Disablers \cup {Unit} : Fire(t)

LockSpec == LockInit /\ [][LockNext]_lockVars

(* A timer that is armed goes off one day: systemd and sleep see to it.  No
   call has to be made, and none that was made has to end. *)
LockFairSpec == LockSpec /\ \A t \in Disablers \cup {Unit} : WF_lockVars(Fire(t))

-----------------------------------------------------------------------------
(* What is claimed *)

(* Nobody gets in: passwords are refused and the operator's key is too. *)
LockedOut == sshd /\ ~keyWorks

Faultless == host.faults = {}

(* Whenever the operator is locked out the dead-man is armed and has its script:
   at no moment does the way back depend on vops (the header of ssh-lockdown.ts:
   armed before sshd is touched, cancelled after a verified login only).  The
   timer has to be armed and the script's answer to arrive. *)
DeadManGuards == Faultless /\ LockedOut => timers # {} /\ revert

(* A host that locked the operator out heals by itself, whatever becomes of the
   calls: "if we lock ourselves out, the box self-heals". *)
HealsItself == Faultless /\ LockedOut ~> ~LockedOut

(* "Nothing changed": where a call reports that hardening was not applied, sshd
   accepts passwords and the drop-in is clean, until another call begins. *)
NothingChanged ==
    \A c \in Disablers : caller[c].outcome = "not_applied" => ~sshd /\ ~dropin

(* Where a call reports a roll-back, passwords are accepted again: at once, or
   when the dead-man does what the call could not. *)
RolledBackOpens ==
    \A c \in Disablers : Faultless /\ caller[c].outcome = "rolled_back" ~> ~sshd

(* Reports are true of the host.  "Not applied" is, where answers arrive, whether
   or not the dead-man was armed; a call that reports success has seen the
   operator's key log in after the last reload, whatever else went wrong. *)
ReportsAreTrue ==
    /\ LockTypeOK
    /\ "lost" \notin host.faults => NothingChanged
    /\ \A c \in Disablers : caller[c].outcome = "applied" => keyWorks

=============================================================================
