-------------------------- MODULE CommandExecution --------------------------
(***************************************************************************)
(* What a signed remote command is promised, whatever the relay, the link  *)
(* and the store do on the way: it runs at most once, two commands signed  *)
(* with one nonce never both run, and the phone reads "executed" only of a *)
(* command that ran to its end.                                            *)
(*                                                                         *)
(* RemoteCommands implements this specification.                           *)
(***************************************************************************)
EXTENDS Naturals

CONSTANTS
    Commands,   \* the signed commands, by command id
    Nonce       \* the nonce each of them was signed with

VARIABLES
    runs,       \* how often each command was handed to the control plane
    outcome,    \* how its run ended
    told        \* the commands whose phone was answered "executed"

vars == <<runs, outcome, told>>

Init ==
    /\ runs = [c \in Commands |-> 0]
    /\ outcome = [c \in Commands |-> "none"]
    /\ told = {}

Run(c) ==
    /\ \A other \in Commands : Nonce[other] = Nonce[c] => runs[other] = 0
    /\ runs' = [runs EXCEPT ![c] = 1]
    /\ UNCHANGED <<outcome, told>>

End(c, how) ==
    /\ runs[c] = 1
    /\ outcome[c] = "none"
    /\ outcome' = [outcome EXCEPT ![c] = how]
    /\ UNCHANGED <<runs, told>>

Tell(c) ==
    /\ outcome[c] = "done"
    /\ told' = told \cup {c}
    /\ UNCHANGED <<runs, outcome>>

Next == \E c \in Commands :
    \/ Run(c)
    \/ \E how \in {"done", "threw"} : End(c, how)
    \/ Tell(c)

Spec == Init /\ [][Next]_vars
=============================================================================
