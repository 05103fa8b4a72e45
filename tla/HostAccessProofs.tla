--------------------------- MODULE HostAccessProofs ---------------------------
(***************************************************************************)
(* Proofs about who can log in to a host: the rotation of the ops key      *)
(* (OpsRotation), for any fleet and any number of generations of the key,  *)
(* and the end of password logins (SshLockdown), for any host.             *)
(*                                                                         *)
(*   Whole     both halves of a key are there, outside a promotion, and    *)
(*             the next key is not the first;                              *)
(*   Sane      a host's tagged line is of the current or of the next key,  *)
(*             the temporary one of the next; a host whose sshd takes no   *)
(*             other key still has the first;                              *)
(*   Sound     what a rotation goes by is still so: the next key it was    *)
(*             started with, the file it read, and the hosts behind it,    *)
(*             which have the next key unless one has failed.              *)
(*                                                                         *)
(* These hold for one rotation at a time.  Two that overlap may promote a  *)
(* key of which one half is missing, for the next key is looked up before  *)
(* the lock is taken.  That the lines of others are kept does not depend   *)
(* on it.                                                                  *)
(*                                                                         *)
(* Of a lockdown, for one call at a time:                                  *)
(*                                                                         *)
(*   Attended  a script that may still be running has a call that waits    *)
(*             for it, or that was given up;                               *)
(*   Sees      what a call has found out is still so;                      *)
(*   Laid      until sshd is reloaded the operator's key works, and by     *)
(*             then the dead-man is armed and has its script.              *)
(***************************************************************************)
EXTENDS OpsRotation, SshLockdown, TLAPS

(* One process rotates, again and again.                                   *)
OneRotation == \A a, b \in Callers : a = b

-------------------------------------------------------------------------------
(* Types *)

LEMMA ResetTyped == AtRest \in Rotation
<1>1. (CHOOSE h \in Hosts : TRUE) \in Hosts
    BY HostsAssumption
<1>2. Empty \in Content
    BY MaxKeyAssumption DEF Empty, Content, Keys
<1> QED
    BY <1>1, <1>2, MaxKeyAssumption
    DEF AtRest, Rotation, Pc, Modes, Session, Slots, Keys

LEMMA TypeInit == Init => TypeOK
<1> SUFFICES ASSUME Init PROVE TypeOK
    OBVIOUS
<1>1. run \in [Callers -> Rotation]
    BY ResetTyped DEF Init
<1>2. 0 \in Keys /\ 1 \in Keys
    BY MaxKeyAssumption DEF Keys
<1>3. authorized \in [Hosts -> Content]
    BY MaxKeyAssumption DEF Init, Content, Keys
<1>4. key \in [Halves -> [Slots -> Keys]]
    BY <1>2 DEF Init
<1>5. made \in 1 .. MaxKey /\ lock \in BOOLEAN /\ refuses \subseteq Hosts /\ faults \subseteq Faults
    <2>1. made = 1 /\ lock = FALSE /\ refuses \in SUBSET Hosts /\ faults \in SUBSET Faults
        BY DEF Init
    <2>2. made \in 1 .. MaxKey
        BY <2>1, MaxKeyAssumption
    <2> QED
        BY <2>1, <2>2
<1> QED
    BY <1>1, <1>3, <1>4, <1>5 DEF TypeOK

(* A rotation that goes on is one.                                         *)
LEMMA GotoTyped ==
    ASSUME TypeOK, NEW c \in Callers, NEW pc \in Pc, Goto(c, pc)
    PROVE run' \in [Callers -> Rotation]
BY DEF Goto, TypeOK, Rotation

(* Writing a file leaves contents and rotations of their types.            *)
LEMMA PutTyped ==
    ASSUME TypeOK, NEW c \in Callers, NEW f \in Content, NEW done \in Pc,
           NEW failed \in BOOLEAN, Put(c, f, done, failed)
    PROVE authorized' \in [Hosts -> Content] /\ run' \in [Callers -> Rotation]
<1>1. authorized' = authorized \/ authorized' = [authorized EXCEPT ![run[c].host] = f]
    BY DEF Put, Host
<1>2. \/ Goto(c, "release")
      \/ run' = [run EXCEPT ![c].pc = done, ![c].failed = @ \/ failed]
    BY DEF Put
<1>3. "release" \in Pc
    BY DEF Pc
<1>4. run' \in [Callers -> Rotation]
    BY <1>2, <1>3, GotoTyped DEF TypeOK, Rotation
<1> QED
    BY <1>1, <1>4 DEF TypeOK

(* What is read is a file.                                                 *)
LEMMA ReadingTyped ==
    ASSUME TypeOK, NEW c \in Callers PROVE Readings(Host(c)) \subseteq Content
<1>1. Empty \in Content
    BY MaxKeyAssumption DEF Empty, Content, Keys
<1> QED
    BY <1>1 DEF Readings, Host, TypeOK, Rotation

LEMMA TypeStep == TypeOK /\ [Next]_vars => TypeOK'
<1> SUFFICES ASSUME TypeOK, [Next]_vars PROVE TypeOK'
    OBVIOUS
<1>1. ASSUME NEW c \in Callers, Begin(c) PROVE TypeOK'
    <2>1. PICK mode \in {"plain", "dry"} \cup ({"force"} \cap faults) :
            \/ /\ run' = [run EXCEPT ![c] = [AtRest EXCEPT !.pc = "lock", !.mode = mode,
                                               !.next = key["public"]["next"]]]
               /\ UNCHANGED <<key, made>>
            \/ /\ made < MaxKey
               /\ made' = made + 1
               /\ key' = [half \in Halves |-> [key[half] EXCEPT !["next"] = made']]
               /\ run' = [run EXCEPT ![c] = [AtRest EXCEPT !.pc = "lock", !.mode = mode,
                                               !.next = made']]
        BY <1>1 DEF Begin
    <2>2. mode \in Modes /\ key["public"]["next"] \in Keys /\ "lock" \in Pc
        BY DEF Modes, TypeOK, Halves, Slots, Pc
    <2>3. UNCHANGED <<lock, refuses, faults, authorized>>
        BY <1>1 DEF Begin
    <2>4. CASE UNCHANGED <<key, made>>
               /\ run' = [run EXCEPT ![c] = [AtRest EXCEPT !.pc = "lock", !.mode = mode,
                                               !.next = key["public"]["next"]]]
        <3>1. run' \in [Callers -> Rotation]
            BY <2>2, <2>4, ResetTyped DEF TypeOK, Rotation
        <3> QED
            BY <2>3, <2>4, <3>1 DEF TypeOK
    <2>5. CASE /\ made < MaxKey
               /\ made' = made + 1
               /\ key' = [half \in Halves |-> [key[half] EXCEPT !["next"] = made']]
               /\ run' = [run EXCEPT ![c] = [AtRest EXCEPT !.pc = "lock", !.mode = mode,
                                               !.next = made']]
        <3>1. made' \in Keys /\ made' \in 1 .. MaxKey
            BY <2>5, MaxKeyAssumption DEF TypeOK, Keys
        <3>2. run' \in [Callers -> Rotation]
            BY <2>2, <2>5, <3>1, ResetTyped DEF TypeOK, Rotation
        <3>3. key' \in [Halves -> [Slots -> Keys]]
            BY <2>5, <3>1 DEF TypeOK
        <3> QED
            BY <2>3, <3>1, <3>2, <3>3 DEF TypeOK
    <2> QED
        BY <2>1, <2>4, <2>5
<1>2. ASSUME NEW c \in Callers, Lock(c) PROVE TypeOK'
    <2>1. run' \in [Callers -> Rotation]
        BY <1>2, ResetTyped DEF Lock, TypeOK, Rotation, Pc
    <2> QED
        BY <1>2, <2>1 DEF Lock, TypeOK
<1>3. ASSUME NEW c \in Callers, Pick(c) PROVE TypeOK'
    <2>0. {"read", "loop"} \subseteq Pc /\ Ladder \subseteq Session
        BY DEF Pc, Ladder, Session
    <2>1. run' \in [Callers -> Rotation]
        <3>1. ASSUME NEW h \in run[c].todo, NEW s \in Session,
                     run' = [run EXCEPT ![c].pc = "read", ![c].host = h,
                               ![c].session = s, ![c].todo = @ \ {h}]
              PROVE run' \in [Callers -> Rotation]
            BY <2>0, <3>1 DEF TypeOK, Rotation
        <3>2. ASSUME NEW h \in run[c].todo,
                     run' = [run EXCEPT ![c].todo = @ \ {h}, ![c].failed = TRUE]
              PROVE run' \in [Callers -> Rotation]
            BY <2>0, <3>2 DEF TypeOK, Rotation
        <3> QED
            BY <1>3, <2>0, <3>1, <3>2 DEF Pick
    <2> QED
        BY <1>3, <2>1 DEF Pick, local, TypeOK
<1>4. ASSUME NEW c \in Callers, Read(c) PROVE TypeOK'
    <2>1. CASE Goto(c, "release")
        BY <1>4, <2>1, GotoTyped DEF Read, local, TypeOK, Pc
    <2>2. ASSUME NEW f \in Readings(Host(c)), NEW pc \in {"loop", "verify", "append"},
                 run' = [run EXCEPT ![c].original = f, ![c].pc = pc]
          PROVE TypeOK'
        <3>0. f \in Content /\ pc \in Pc
            BY ReadingTyped DEF Pc
        <3>1. run' \in [Callers -> Rotation]
            BY <2>2, <3>0 DEF TypeOK, Rotation
        <3> QED
            BY <1>4, <3>1 DEF Read, local, TypeOK
    <2> QED
        BY <1>4, <2>1, <2>2 DEF Read
<1>5. ASSUME NEW c \in Callers, Verify(c) \/ Reverify(c) PROVE TypeOK'
    <2>1. \E pc \in Pc : Goto(c, pc)
        BY <1>5 DEF Verify, Reverify, NextLogin, Pc
    <2> QED
        BY <1>5, <2>1, GotoTyped DEF Verify, Reverify, local, TypeOK
<1>6. ASSUME NEW c \in Callers, NEW f \in Content, NEW done \in Pc, NEW failed \in BOOLEAN,
             Put(c, f, done, failed), UNCHANGED <<key, local>>
      PROVE TypeOK'
    BY <1>6, PutTyped DEF local, TypeOK
<1>7. ASSUME NEW c \in Callers, Append(c) \/ Restore(c) PROVE TypeOK'
    <2>1. run[c].original \in Content /\ run[c].next \in Keys
        BY DEF TypeOK, Rotation
    <2>2. [run[c].original EXCEPT !.next = run[c].next] \in Content
        BY <2>1 DEF Content
    <2> QED
        BY <1>6, <1>7, <2>1, <2>2 DEF Append, Restore, Pc
<1>8. ASSUME NEW c \in Callers, Clean(c) \/ Swap(c) PROVE TypeOK'
    <2>1. CASE Goto(c, "release") /\ UNCHANGED authorized
        BY <1>8, <2>1, GotoTyped DEF Clean, Swap, local, TypeOK, Pc
    <2>2. ASSUME NEW f \in Readings(Host(c))
          PROVE /\ [f EXCEPT !.next = 0] \in Content
                /\ [f EXCEPT !.next = 0, !.ops = run[c].next] \in Content
        <3>1. f \in Content /\ run[c].next \in Keys /\ 0 \in Keys
            BY ReadingTyped, MaxKeyAssumption DEF TypeOK, Rotation, Keys
        <3> QED
            BY <3>1 DEF Content
    <2> QED
        BY <1>6, <1>8, <2>1, <2>2 DEF Clean, Swap, Pc
<1>9. ASSUME NEW c \in Callers, EndOfLoop(c) PROVE TypeOK'
    BY <1>9, GotoTyped DEF EndOfLoop, local, TypeOK, Pc
<1>10. ASSUME NEW c \in Callers, Move(c) PROVE TypeOK'
    <2>1. ASSUME NEW half \in Halves, NEW from \in Slots, NEW to \in Slots
          PROVE Renamed(half, from, to) \in [Halves -> [Slots -> Keys]]
        <3>1. key \in [Halves -> [Slots -> Keys]] /\ 0 \in Keys
            BY MaxKeyAssumption DEF TypeOK, Keys
        <3> QED
            BY <3>1 DEF Renamed
    <2>2. key' \in [Halves -> [Slots -> Keys]]
        BY <1>10, <2>1 DEF Move, Halves, Slots
    <2>3. run' \in [Callers -> Rotation]
        BY <1>10, GotoTyped DEF Move, Pc
    <2> QED
        BY <1>10, <2>2, <2>3 DEF Move, local, TypeOK
<1>11. ASSUME NEW c \in Callers, Release(c) \/ Crash(c) PROVE TypeOK'
    <2>1. run' \in [Callers -> Rotation]
        BY <1>11, ResetTyped DEF Release, Crash, TypeOK
    <2> QED
        BY <1>11, <2>1 DEF Release, Crash, local, TypeOK
<1>12. CASE RemoveStale \/ UNCHANGED vars
    BY <1>12 DEF RemoveStale, vars, TypeOK
<1> QED
    BY <1>1, <1>2, <1>3, <1>4, <1>5, <1>7, <1>8, <1>9, <1>10, <1>11, <1>12 DEF Next, Rotate

-------------------------------------------------------------------------------
(* The lines of others, for any number of overlapping rotations *)

Holding == {"append", "verify", "clean", "swap", "reverify", "restore"}

(* What a rotation may write back has the lines of others in it.           *)
OwnHeld ==
    "cut" \notin faults =>
        \A c \in Callers : run[c].pc \in Holding =>
            run[c].original.own = authorized[run[c].host].own

OwnSame == \A h \in Hosts : authorized'[h].own = authorized[h].own

(* A file that is written has them, if what it was made of had.            *)
LEMMA PutKeepsOwn ==
    ASSUME TypeOK, NEW c \in Callers, NEW f \in Content, NEW done, NEW failed,
           Put(c, f, done, failed), f.own = authorized[run[c].host].own
    PROVE OwnSame
<1>1. authorized' = authorized \/ authorized' = [authorized EXCEPT ![run[c].host] = f]
    BY DEF Put, Host
<1> QED
    BY <1>1 DEF OwnSame, TypeOK

(* A rotation that keeps its host and what it read, or lets go of it.      *)
LEMMA HeldStays ==
    ASSUME TypeOK, "cut" \notin faults, OwnHeld, OwnSame, NEW c \in Callers,
           \A e \in Callers \ {c} : run'[e] = run[e],
           run'[c].pc \in Holding =>
               /\ run[c].pc \in Holding
               /\ run'[c].host = run[c].host /\ run'[c].original = run[c].original
    PROVE OwnHeld'
<1> SUFFICES ASSUME NEW e \in Callers, run'[e].pc \in Holding
             PROVE run'[e].original.own = authorized'[run'[e].host].own
    BY DEF OwnHeld
<1>1. /\ run[e].pc \in Holding
      /\ run'[e].host = run[e].host /\ run'[e].original = run[e].original
    OBVIOUS
<1>2. run[e].host \in Hosts
    BY DEF TypeOK, Rotation
<1> QED
    BY <1>1, <1>2 DEF OwnHeld, OwnSame

(* Every write is of a file that was read, with the tagged lines changed.  *)
LEMMA OwnStep ==
    ASSUME TypeOK, OwnHeld, [Next]_vars, "cut" \notin faults
    PROVE OwnSame /\ OwnHeld'
<1>1. ASSUME UNCHANGED authorized PROVE OwnSame
    BY <1>1 DEF OwnSame
<1>2. ASSUME NEW c \in Callers, NEW pc, Goto(c, pc)
      PROVE /\ \A e \in Callers \ {c} : run'[e] = run[e]
            /\ run'[c].host = run[c].host /\ run'[c].original = run[c].original
            /\ run'[c].pc = pc
    BY <1>2 DEF Goto, TypeOK, Rotation
<1>3. ASSUME NEW c \in Callers, NEW f, NEW done, NEW failed, Put(c, f, done, failed)
      PROVE /\ \A e \in Callers \ {c} : run'[e] = run[e]
            /\ run'[c].host = run[c].host /\ run'[c].original = run[c].original
    BY <1>2, <1>3 DEF Put, TypeOK, Rotation
<1>4. ASSUME NEW c \in Callers,
             Append(c) \/ Clean(c) \/ Swap(c) \/ Restore(c)
      PROVE OwnSame /\ OwnHeld'
    <2>1. run[c].pc \in Holding
        BY <1>4 DEF Append, Clean, Swap, Restore, At, Holding
    <2>2. /\ \A e \in Callers \ {c} : run'[e] = run[e]
          /\ run'[c].host = run[c].host /\ run'[c].original = run[c].original
        BY <1>2, <1>3, <1>4 DEF Append, Clean, Swap, Restore
    <2>3. run[c].original \in Content /\ run[c].next \in Keys /\ 0 \in Keys
        BY MaxKeyAssumption DEF TypeOK, Rotation, Keys
    <2>4. run[c].original.own = authorized[run[c].host].own
        BY <2>1 DEF OwnHeld
    <2>5. \A f \in Readings(Host(c)) : f \in Content /\ f.own = authorized[run[c].host].own
        BY ReadingTyped DEF Readings, Host
    <2>6. OwnSame
        <3>1. CASE Append(c)
            <4> DEFINE f == [run[c].original EXCEPT !.next = run[c].next]
            <4>1. f \in Content /\ f.own = run[c].original.own
                BY <2>3 DEF Content
            <4> QED
                BY <2>4, <3>1, <4>1, PutKeepsOwn DEF Append
        <3>2. CASE Restore(c)
            BY <2>3, <2>4, <3>2, PutKeepsOwn DEF Restore
        <3>3. CASE Clean(c)
            <4>1. \A f \in Content : /\ [f EXCEPT !.next = 0] \in Content
                                     /\ [f EXCEPT !.next = 0].own = f.own
                BY <2>3 DEF Content
            <4> QED
                BY <1>1, <2>5, <3>3, <4>1, PutKeepsOwn DEF Clean
        <3>4. CASE Swap(c)
            <4>1. \A f \in Content :
                     /\ [f EXCEPT !.next = 0, !.ops = run[c].next] \in Content
                     /\ [f EXCEPT !.next = 0, !.ops = run[c].next].own = f.own
                BY <2>3 DEF Content
            <4> QED
                BY <1>1, <2>5, <3>4, <4>1, PutKeepsOwn DEF Swap
        <3> QED
            BY <1>4, <3>1, <3>2, <3>3, <3>4
    <2> QED
        BY <2>1, <2>2, <2>6, HeldStays
<1>5. ASSUME NEW c \in Callers, Read(c) PROVE OwnSame /\ OwnHeld'
    <2>1. OwnSame
        BY <1>1, <1>5 DEF Read
    <2>2. CASE Goto(c, "release")
        BY <1>2, <2>1, <2>2, HeldStays DEF Holding
    <2>3. ASSUME NEW f \in Readings(Host(c)), NEW pc,
                 run' = [run EXCEPT ![c].original = f, ![c].pc = pc]
          PROVE OwnHeld'
        <3>1. f = authorized[run[c].host]
            BY DEF Readings, Host
        <3>2. /\ run'[c].original = f /\ run'[c].host = run[c].host
              /\ \A e \in Callers \ {c} : run'[e] = run[e]
            BY <2>3 DEF TypeOK, Rotation
        <3>3. authorized' = authorized
            BY <1>5 DEF Read
        <3> QED
            BY <3>1, <3>2, <3>3 DEF OwnHeld
    <2> QED
        BY <1>5, <2>1, <2>2, <2>3 DEF Read
<1>6. ASSUME NEW c \in Callers, Verify(c) \/ Reverify(c) PROVE OwnSame /\ OwnHeld'
    <2>1. OwnSame /\ run[c].pc \in Holding
        BY <1>1, <1>6 DEF Verify, Reverify, At, Holding
    <2>2. \E pc \in Pc : Goto(c, pc)
        BY <1>6 DEF Verify, Reverify, NextLogin, Pc
    <2> QED
        BY <1>2, <2>1, <2>2, HeldStays
<1>7. ASSUME NEW c \in Callers, EndOfLoop(c) \/ Move(c) PROVE OwnSame /\ OwnHeld'
    <2>1. OwnSame
        BY <1>1, <1>7 DEF EndOfLoop, Move
    <2>2. \E pc \in Pc \ Holding : Goto(c, pc)
        BY <1>7 DEF EndOfLoop, Move, Pc, Holding
    <2> QED
        BY <1>2, <2>1, <2>2, HeldStays
<1>8. ASSUME NEW c \in Callers,
             Begin(c) \/ Lock(c) \/ Pick(c) \/ Release(c) \/ Crash(c)
      PROVE OwnSame /\ OwnHeld'
    <2>1. OwnSame
        BY <1>1, <1>8 DEF Begin, Lock, Pick, Release, Crash
    <2>2. \A e \in Callers \ {c} : run'[e] = run[e]
        BY <1>8 DEF Begin, Lock, Pick, Release, Crash, TypeOK
    <2>3. run'[c].pc \notin Holding
        <3>1. CASE Begin(c)
            <4>1. \E mode, k : run' = [run EXCEPT ![c] =
                      [AtRest EXCEPT !.pc = "lock", !.mode = mode, !.next = k]]
                BY <3>1 DEF Begin
            <4>2. run'[c].pc = "lock"
                BY <4>1 DEF AtRest, TypeOK
            <4> QED
                BY <4>2 DEF Holding
        <3>2. CASE Lock(c) \/ Release(c) \/ Crash(c)
            BY <3>2 DEF Lock, Release, Crash, AtRest, TypeOK, Rotation, Holding
        <3>3. CASE Pick(c)
            <4>1. ASSUME NEW h, NEW z,
                         run' = [run EXCEPT ![c].pc = "read", ![c].host = h,
                                   ![c].session = z, ![c].todo = @ \ {h}]
                  PROVE run'[c].pc = "read"
                BY <4>1 DEF TypeOK, Rotation
            <4>2. ASSUME NEW h,
                         run' = [run EXCEPT ![c].todo = @ \ {h}, ![c].failed = TRUE]
                  PROVE run'[c].pc = run[c].pc
                BY <4>2 DEF TypeOK, Rotation
            <4>3. run'[c].pc \in {"read", "loop"}
                BY <3>3, <4>1, <4>2 DEF Pick, At
            <4> QED
                BY <4>3 DEF Holding
        <3> QED
            BY <1>8, <3>1, <3>2, <3>3
    <2> QED
        BY <2>1, <2>2, <2>3, HeldStays
<1>9. CASE RemoveStale \/ UNCHANGED vars
    BY <1>9 DEF RemoveStale, vars, OwnSame, OwnHeld
<1> QED
    BY <1>4, <1>5, <1>6, <1>7, <1>8, <1>9 DEF Next, Rotate

(* Faults that may happen are decided at the start.                        *)
LEMMA FaultsStay == [Next]_vars => faults' = faults
<1> SUFFICES ASSUME [Next]_vars PROVE faults' = faults
    OBVIOUS
<1>1. ASSUME NEW c \in Callers, Rotate(c) PROVE faults' = faults
    BY <1>1 DEF Rotate, Begin, Lock, Pick, Read, Append, Verify, Clean, Swap, Reverify,
                Restore, EndOfLoop, Move, Release, Crash, local
<1> QED
    BY <1>1 DEF Next, RemoveStale, vars

(* The lines that vops did not write stay in authorized_keys through every
   rotation, however many overlap, are interrupted or fail (removeOpsLine,
   upsertOpsLine and what they are given).                                 *)
THEOREM OthersAreKept == Spec => OwnKept
<1> DEFINE Own == "cut" \notin faults => OwnSame
<1>1. Init => TypeOK /\ OwnHeld
    BY TypeInit DEF Init, OwnHeld, AtRest, Holding
<1>2. TypeOK /\ OwnHeld /\ [Next]_vars => TypeOK' /\ OwnHeld' /\ Own
    <2> SUFFICES ASSUME TypeOK, OwnHeld, [Next]_vars PROVE TypeOK' /\ OwnHeld' /\ Own
        OBVIOUS
    <2>1. TypeOK' /\ faults' = faults
        BY TypeStep, FaultsStay
    <2>2. CASE "cut" \in faults
        BY <2>1, <2>2 DEF OwnHeld
    <2>3. CASE "cut" \notin faults
        BY <2>1, <2>3, OwnStep
    <2> QED
        BY <2>2, <2>3
<1>3. Own => [\A h \in Hosts : "cut" \notin faults /\ authorized[h].own
                               => authorized'[h].own]_vars
    BY DEF OwnSame
<1> QED
    BY <1>1, <1>2, <1>3, PTL DEF Spec, OwnKept

-------------------------------------------------------------------------------
(* No host is locked out, one rotation at a time *)

Calm == faults \subseteq {"blip", "crash"}

KeyOf(slot) == key["public"][slot]

Late == {"moveOpsPub", "moveNext", "moveNextPub"}
Working == Holding \cup {"loop", "read"}

Whole ==
    /\ \A slot \in {"ops", "next"} : key["private"][slot] = key["public"][slot]
    /\ KeyOf("ops") \in 1 .. made
    /\ KeyOf("next") \in {0} \cup 2 .. made
    /\ KeyOf("ops") # KeyOf("next")

Sane(h, f) ==
    /\ f.ops \in {KeyOf("ops"), KeyOf("next")} /\ f.ops # 0
    /\ f.next \in {0, KeyOf("next")}
    /\ f.ops = KeyOf("next") => f.next = 0
    /\ h \in refuses => f.ops = 1

Switched(n) ==
    /\ n \in 2 .. made
    /\ \A h \in Hosts : authorized[h].ops = n /\ authorized[h].next = 0 /\ h \notin refuses

(* What a rotation goes by.                                                *)
Sound(c) ==
    LET r == run[c] IN
    /\ r.mode # "force"
    /\ r.pc \in Working \cup {"lock", "moveOps"} => r.next = KeyOf("next") /\ r.next # 0
    /\ r.pc \in Holding => Sane(r.host, r.original) /\ r.original.ops # r.next
    /\ r.pc \in {"swap", "reverify", "restore"} => r.host \notin refuses
    /\ r.pc = "reverify" => authorized[r.host].ops = r.next
    /\ r.pc \in Working /\ ~r.failed /\ r.mode = "plain" =>
           \A h \in Hosts \ r.todo :
               authorized[h].ops = r.next \/ (r.pc # "loop" /\ h = r.host)
    /\ r.pc \in Moving => Switched(r.next)
    /\ r.pc \in {"moveOpsPub", "moveNext"} =>
           key["private"]["ops"] = 0 /\ key["private"]["next"] = r.next
    /\ r.pc \in Late => KeyOf("next") = r.next
    /\ r.pc = "moveNext" => KeyOf("ops") = 0
    /\ r.pc = "moveNextPub" => key["private"]["ops"] = r.next /\ key["private"]["next"] = 0

Good ==
    Calm =>
        /\ (\A c \in Callers : run[c].pc \notin Late) =>
               Whole /\ \A h \in Hosts : Sane(h, authorized[h])
        /\ \A c \in Callers : Sound(c)

LEMMA GoodInit == Init => Good
<1> SUFFICES ASSUME Init PROVE Good
    OBVIOUS
<1>1. KeyOf("ops") = 1 /\ KeyOf("next") = 0 /\ made = 1 /\ Whole
    BY DEF Init, KeyOf, Whole, Slots, Halves
<1>2. \A h \in Hosts : authorized[h].ops = 1 /\ authorized[h].next = 0
    BY DEF Init
<1>3. \A h \in Hosts : Sane(h, authorized[h])
    BY <1>1, <1>2 DEF Sane
<1>4. \A c \in Callers : Sound(c)
    BY DEF Init, Sound, AtRest, Working, Holding, Moving, Late
<1> QED
    BY <1>1, <1>3, <1>4 DEF Good

(* An interruption, a refusal or the end lets go of everything.            *)
LEMMA AtRestSound ==
    ASSUME NEW c \in Callers, run'[c] = AtRest PROVE Sound(c)'
BY DEF Sound, AtRest, Working, Holding, Moving, Late

(* What is to be shown of a step of the one rotation there is.             *)
LEMMA Assemble ==
    ASSUME OneRotation, NEW c \in Callers, Sound(c)',
           run'[c].pc \notin Late => Whole' /\ \A h \in Hosts : Sane(h, authorized[h])'
    PROVE Good'
<1>1. \A e \in Callers : e = c
    BY DEF OneRotation
<1> QED
    BY <1>1 DEF Good

(* The fields of a rotation that goes on.                                  *)
LEMMA GotoFields ==
    ASSUME TypeOK, NEW c \in Callers, NEW pc, Goto(c, pc)
    PROVE /\ run'[c].pc = pc
          /\ run'[c].mode = run[c].mode /\ run'[c].todo = run[c].todo
          /\ run'[c].host = run[c].host /\ run'[c].next = run[c].next
          /\ run'[c].original = run[c].original /\ run'[c].failed = run[c].failed
BY DEF Goto, TypeOK, Rotation

(* While keys and hosts are as they were, so is what is said of them.      *)
LEMMA KeptWorld ==
    ASSUME UNCHANGED <<key, made, refuses, authorized>>
    PROVE /\ Whole => Whole'
          /\ \A h \in Hosts : Sane(h, authorized[h]) => Sane(h, authorized[h])'
          /\ \A n : Switched(n) => Switched(n)'
BY DEF Whole, Sane, Switched, KeyOf

(* A step that ends in release, or where the next key is looked up again.  *)
LEMMA Released ==
    ASSUME NEW c \in Callers, run[c].mode # "force", run'[c].mode = run[c].mode,
           run'[c].pc = "release"
    PROVE Sound(c)'
BY DEF Sound, Working, Holding, Moving, Late

LEMMA GoodBegin ==
    ASSUME OneRotation, TypeOK, Good, Calm, NEW c \in Callers, Begin(c)
    PROVE Good'
<1>1. \A e \in Callers : run[e].pc \notin Late
    BY DEF OneRotation, Begin, At, Late
<1>2. Whole /\ \A h \in Hosts : Sane(h, authorized[h])
    BY <1>1 DEF Good
<1>3. "force" \notin faults
    BY DEF Calm
<1>4. ASSUME NEW mode \in {"plain", "dry"}, NEW n, n = KeyOf("next")', n # 0,
             run' = [run EXCEPT ![c] = [AtRest EXCEPT !.pc = "lock", !.mode = mode, !.next = n]]
      PROVE Sound(c)'
    <2>1. run'[c].pc = "lock" /\ run'[c].mode = mode /\ run'[c].next = n
        BY <1>4 DEF TypeOK, AtRest
    <2> QED
        BY <1>4, <2>1 DEF Sound, Working, Holding, Moving, Late
<1>5. CASE /\ key["public"]["next"] # 0
           /\ UNCHANGED <<key, made>>
           /\ \E mode \in {"plain", "dry"} : run' = [run EXCEPT ![c] =
                  [AtRest EXCEPT !.pc = "lock", !.mode = mode, !.next = key["public"]["next"]]]
    <2>1. Sound(c)'
        BY <1>4, <1>5 DEF KeyOf
    <2>2. UNCHANGED <<key, made, refuses, authorized>>
        BY <1>5 DEF Begin
    <2> QED
        BY <1>2, <2>1, <2>2, KeptWorld, Assemble
<1>6. CASE /\ key["public"]["next"] = 0
           /\ made' = made + 1
           /\ key' = [half \in Halves |-> [key[half] EXCEPT !["next"] = made']]
           /\ \E mode \in {"plain", "dry"} : run' = [run EXCEPT ![c] =
                  [AtRest EXCEPT !.pc = "lock", !.mode = mode, !.next = made']]
    <2>1. \A half \in Halves : key'[half]["next"] = made' /\ key'[half]["ops"] = key[half]["ops"]
        BY <1>6 DEF TypeOK, Slots
    <2>2. KeyOf("next")' = made' /\ KeyOf("ops")' = KeyOf("ops") /\ made \in 1 .. MaxKey
        BY <2>1 DEF KeyOf, Halves, TypeOK
    <2>3. Sound(c)'
        <3>1. made' # 0
            BY <1>6, <2>2, MaxKeyAssumption
        <3> QED
            BY <1>4, <1>6, <2>2, <3>1
    <2>4. Whole'
        <3>1. \A slot \in {"ops", "next"} : key'["private"][slot] = key'["public"][slot]
            BY <1>2, <2>1 DEF Halves, Whole
        <3> QED
            BY <1>2, <1>6, <2>2, <3>1, MaxKeyAssumption DEF Whole
    <2>5. ASSUME NEW h \in Hosts PROVE Sane(h, authorized[h])'
        <3>1. authorized'[h] = authorized[h] /\ refuses' = refuses
            BY DEF Begin
        <3>2. /\ authorized[h].ops = KeyOf("ops") /\ authorized[h].next = 0
              /\ h \in refuses => authorized[h].ops = 1
            BY <1>2, <1>6 DEF Sane, KeyOf
        <3>3. KeyOf("ops") # made' /\ KeyOf("ops") # 0
            BY <1>2, <1>6, <2>2, MaxKeyAssumption DEF Whole
        <3> QED
            BY <2>2, <3>1, <3>2, <3>3 DEF Sane
    <2> QED
        BY <2>3, <2>4, <2>5, Assemble
<1> QED
    BY <1>3, <1>5, <1>6 DEF Begin

LEMMA GoodLook ==
    ASSUME OneRotation, TypeOK, Good, Calm, NEW c \in Callers,
           Lock(c) \/ Pick(c) \/ Read(c)
    PROVE Good'
<1>1. UNCHANGED <<key, made, refuses, authorized>>
    BY DEF Lock, Pick, Read, local
<1>2. run[c].pc \in {"lock", "loop", "read"}
    BY DEF Lock, Pick, Read, At
<1>3. Whole /\ \A h \in Hosts : Sane(h, authorized[h])
    BY <1>2 DEF OneRotation, Good, Late
<1>4. Sound(c)
    BY DEF Good
<1>5. KeyOf("next")' = KeyOf("next")
    BY <1>1 DEF KeyOf
<1>6. CASE Lock(c)
    <2>1. CASE run' = [run EXCEPT ![c] = AtRest]
        BY <1>1, <1>3, <2>1, KeptWorld, Assemble, AtRestSound DEF TypeOK
    <2>2. CASE run' = [run EXCEPT ![c].pc = "loop", ![c].todo = Hosts]
        <3>1. /\ run'[c].pc = "loop" /\ run'[c].todo = Hosts
              /\ run'[c].mode = run[c].mode /\ run'[c].next = run[c].next
            BY <2>2 DEF TypeOK, Rotation
        <3>2. Sound(c)'
            BY <1>4, <1>5, <1>6, <3>1 DEF Lock, At, Sound, Working, Holding, Moving, Late
        <3> QED
            BY <1>1, <1>3, <3>2, KeptWorld, Assemble
    <2> QED
        BY <1>6, <2>1, <2>2 DEF Lock
<1>7. CASE Pick(c)
    <2>1. ASSUME NEW h \in run[c].todo, NEW z,
                 run' = [run EXCEPT ![c].pc = "read", ![c].host = h,
                           ![c].session = z, ![c].todo = @ \ {h}]
          PROVE Sound(c)'
        <3>1. /\ run'[c].pc = "read" /\ run'[c].host = h /\ run'[c].todo = run[c].todo \ {h}
              /\ run'[c].mode = run[c].mode /\ run'[c].next = run[c].next
              /\ run'[c].failed = run[c].failed
            BY <2>1 DEF TypeOK, Rotation
        <3> QED
            BY <1>1, <1>4, <1>5, <1>7, <3>1 DEF Pick, At, Sound, Working, Holding, Moving, Late
    <2>2. ASSUME NEW h \in run[c].todo,
                 run' = [run EXCEPT ![c].todo = @ \ {h}, ![c].failed = TRUE]
          PROVE Sound(c)'
        <3>1. /\ run'[c].pc = run[c].pc /\ run'[c].failed
              /\ run'[c].mode = run[c].mode /\ run'[c].next = run[c].next
            BY <2>2 DEF TypeOK, Rotation
        <3> QED
            BY <1>4, <1>5, <1>7, <3>1 DEF Pick, At, Sound, Working, Holding, Moving, Late
    <2>3. Sound(c)'
        BY <1>7, <2>1, <2>2 DEF Pick
    <2> QED
        BY <1>1, <1>3, <2>3, KeptWorld, Assemble
<1>8. CASE Read(c)
    <2>1. CASE Goto(c, "release")
        <3>1. Sound(c)'
            BY <1>4, <2>1, GotoFields, Released DEF Sound
        <3> QED
            BY <1>1, <1>3, <3>1, KeptWorld, Assemble
    <2>2. CASE \E f \in Readings(Host(c)) :
                 run' = [run EXCEPT ![c].original = f,
                           ![c].pc = IF f.ops = run[c].next \/ run[c].mode = "dry" THEN "loop"
                                     ELSE IF f.next # 0 THEN "verify" ELSE "append"]
        <3>1. PICK f \in Readings(Host(c)) :
                 run' = [run EXCEPT ![c].original = f,
                           ![c].pc = IF f.ops = run[c].next \/ run[c].mode = "dry" THEN "loop"
                                     ELSE IF f.next # 0 THEN "verify" ELSE "append"]
            BY <2>2
        <3>0. PICK h \in Hosts : h = run[c].host
            BY DEF TypeOK, Rotation
        <3>2. f = authorized[h]
            BY <3>0 DEF Readings, Host, Calm
        <3>3. /\ run'[c].original = f /\ run'[c].host = run[c].host
              /\ run'[c].todo = run[c].todo /\ run'[c].failed = run[c].failed
              /\ run'[c].mode = run[c].mode /\ run'[c].next = run[c].next
              /\ run'[c].pc = IF f.ops = run[c].next \/ run[c].mode = "dry" THEN "loop"
                              ELSE IF f.next # 0 THEN "verify" ELSE "append"
            BY <3>1 DEF TypeOK, Rotation
        <3>4. Sane(h, f)'
            <4>1. Sane(h, authorized[h])' /\ f = authorized'[h]
                BY <1>1, <1>3, <3>2, KeptWorld
            <4> QED
                BY <4>1 DEF Sane
        <3>5. Sound(c)'
            <4>1. CASE f.ops = run[c].next \/ run[c].mode = "dry"
                BY <1>1, <1>4, <1>5, <1>8, <3>0, <3>2, <3>3, <4>1
                   DEF Read, At, Sound, Working, Holding, Moving, Late
            <4>2. CASE ~(f.ops = run[c].next \/ run[c].mode = "dry")
                <5>1. run'[c].pc \in {"verify", "append"}
                    BY <3>3, <4>2
                <5>2. Sane(run[c].host, run[c].original)'
                    BY <3>0, <3>3, <3>4 DEF Sane
                <5> QED
                    BY <1>1, <1>4, <1>5, <1>8, <3>3, <4>2, <5>1, <5>2
                       DEF Read, At, Sound, Working, Holding, Moving, Late
            <4> QED
                BY <4>1, <4>2
        <3> QED
            BY <1>1, <1>3, <3>5, KeptWorld, Assemble
    <2> QED
        BY <1>8, <2>1, <2>2 DEF Read
<1> QED
    BY <1>6, <1>7, <1>8

(* Logins with the next key, and the decision to promote.                  *)
LEMMA GoodGoto ==
    ASSUME OneRotation, TypeOK, Good, Calm, NEW c \in Callers,
           Verify(c) \/ Reverify(c) \/ EndOfLoop(c)
    PROVE Good'
<1>1. UNCHANGED <<key, made, refuses, authorized>>
    BY DEF Verify, Reverify, EndOfLoop, local
<1>2. run[c].pc \in {"verify", "reverify", "loop"}
    BY DEF Verify, Reverify, EndOfLoop, At
<1>3. Whole /\ \A h \in Hosts : Sane(h, authorized[h])
    BY <1>2 DEF OneRotation, Good, Late
<1>4. Sound(c)
    BY DEF Good
<1>5. KeyOf("next")' = KeyOf("next")
    BY <1>1 DEF KeyOf
<1>6. \A h, f : Sane(h, f) <=> Sane(h, f)'
    BY <1>1 DEF Sane, KeyOf
<1>7. Sound(c)'
    <2>1. CASE Verify(c)
        <3>1. CASE Goto(c, "clean")
            <4>1. Sane(run[c].host, run[c].original)'
                BY <1>4, <1>6, <2>1, <3>1, GotoFields DEF Verify, At, Sound, Holding
            <4> QED
                BY <1>1, <1>4, <1>5, <2>1, <3>1, <4>1, GotoFields
                   DEF Verify, At, Sound, Working, Holding, Moving, Late
        <3>2. CASE Opens(run[c].host, "next") /\ Goto(c, "swap")
            <4>1. Sane(run[c].host, run[c].original)'
                BY <1>4, <1>6, <2>1, <3>2, GotoFields DEF Verify, At, Sound, Holding
            <4>2. run[c].host \notin refuses
                <5>1. key["private"]["next"] = KeyOf("next")
                    BY <1>3 DEF Whole, KeyOf
                <5>2. KeyOf("next") # 1
                    BY <1>3, MaxKeyAssumption DEF Whole, TypeOK
                <5> QED
                    BY <3>2, <5>1, <5>2 DEF Opens, Accepts
            <4> QED
                BY <1>1, <1>4, <1>5, <2>1, <3>2, <4>1, <4>2, GotoFields
                   DEF Verify, At, Sound, Working, Holding, Moving, Late
        <3> QED
            BY <2>1, <3>1, <3>2 DEF Verify, NextLogin, Host
    <2>2. CASE Reverify(c)
        <3>1. Goto(c, "loop") \/ Goto(c, "restore")
            BY <2>2 DEF Reverify, NextLogin
        <3>2. Sane(run[c].host, run[c].original)'
            BY <1>4, <1>6, <2>2, <3>1, GotoFields DEF Reverify, At, Sound, Holding
        <3> QED
            BY <1>1, <1>4, <1>5, <2>2, <3>1, <3>2, GotoFields
               DEF Reverify, At, Sound, Working, Holding, Moving, Late
    <2>3. CASE EndOfLoop(c)
        <3>1. CASE Goto(c, "release")
            BY <1>4, <3>1, GotoFields, Released DEF Sound
        <3>2. CASE Goto(c, "moveOps") /\ run[c].mode = "plain" /\ ~run[c].failed
            <4>1. run[c].next = KeyOf("next") /\ run[c].next # 0
                BY <1>4, <2>3 DEF EndOfLoop, At, Sound, Working
            <4>2. run[c].next \in 2 .. made
                BY <1>3, <4>1 DEF Whole
            <4>3. \A h \in Hosts : authorized[h].ops = run[c].next
                BY <1>4, <2>3, <3>2 DEF EndOfLoop, At, Sound, Working
            <4>4. run[c].next # 1
                BY <4>2, MaxKeyAssumption DEF TypeOK
            <4>5. Switched(run[c].next)
                BY <1>3, <4>1, <4>2, <4>3, <4>4 DEF Switched, Sane
            <4>6. Switched(run[c].next)'
                <5>1. run'[c].next = run[c].next
                    BY <3>2, GotoFields
                <5> QED
                    BY <1>1, <4>5, <5>1 DEF Switched
            <4> QED
                BY <1>4, <1>5, <2>3, <3>2, <4>1, <4>6, GotoFields
                   DEF EndOfLoop, At, Sound, Working, Holding, Moving, Late
        <3> QED
            BY <1>4, <2>3, <3>1, <3>2 DEF EndOfLoop, Sound, TypeOK, Rotation, Modes
    <2> QED
        BY <2>1, <2>2, <2>3
<1> QED
    BY <1>1, <1>3, <1>7, KeptWorld, Assemble

(* A file that is put on a host in order leaves it so.                     *)
LEMMA PutWorld ==
    ASSUME OneRotation, TypeOK, Good, Calm, NEW c \in Callers, run[c].pc \in Holding,
           NEW f, Sane(run[c].host, f), UNCHANGED <<key, made, refuses>>,
           authorized' = authorized \/ authorized' = [authorized EXCEPT ![run[c].host] = f]
    PROVE Whole' /\ \A h \in Hosts : Sane(h, authorized[h])'
<1>1. Whole /\ \A h \in Hosts : Sane(h, authorized[h])
    BY DEF OneRotation, Good, Late, Holding
<1>2. \A h, g : Sane(h, g) <=> Sane(h, g)'
    BY DEF Sane, KeyOf
<1>3. ASSUME NEW h \in Hosts PROVE Sane(h, authorized[h])'
    <2>1. \/ authorized'[h] = authorized[h]
          \/ h = run[c].host /\ authorized'[h] = f
        BY DEF TypeOK
    <2> QED
        BY <1>1, <1>2, <2>1 DEF Sane
<1>4. Whole'
    BY <1>1 DEF Whole, KeyOf
<1> QED
    BY <1>3, <1>4

(* What a rotation writes: the file it read or the one there is now, with  *)
(* the next key where that has been seen to open the host.                 *)
LEMMA GoodPut ==
    ASSUME OneRotation, TypeOK, Good, Calm, NEW c \in Callers,
           Append(c) \/ Clean(c) \/ Swap(c) \/ Restore(c)
    PROVE Good'
<1>1. UNCHANGED <<key, made, refuses>>
    BY DEF Append, Clean, Swap, Restore, local
<1>2. run[c].pc \in {"append", "clean", "swap", "restore"}
    BY DEF Append, Clean, Swap, Restore, At
<1>3. Whole /\ \A h \in Hosts : Sane(h, authorized[h])
    BY <1>2 DEF OneRotation, Good, Late
<1>4. Sound(c)
    BY DEF Good
<1>5. KeyOf("next")' = KeyOf("next")
    BY <1>1 DEF KeyOf
<1>6. \A h, g : Sane(h, g) <=> Sane(h, g)'
    BY <1>1 DEF Sane, KeyOf
<1>7. PICK h \in Hosts : h = run[c].host
    BY DEF TypeOK, Rotation
<1>8. Sane(h, run[c].original) /\ run[c].original.ops # run[c].next /\ run[c].next = KeyOf("next")
      /\ run[c].next # 0 /\ run[c].original \in Content /\ run[c].next \in Keys
    BY <1>2, <1>4, <1>7 DEF Sound, Working, Holding, TypeOK, Rotation
<1>9. ASSUME NEW f, Sane(h, f), NEW done, NEW failed, Put(c, f, done, failed),
             ASSUME run'[c].pc = done,
                    run'[c].failed = (run[c].failed \/ failed),
                    run'[c].mode = run[c].mode, run'[c].todo = run[c].todo,
                    run'[c].host = run[c].host, run'[c].next = run[c].next,
                    run'[c].original = run[c].original,
                    authorized' = [authorized EXCEPT ![h] = f]
             PROVE Sound(c)'
      PROVE Good'
    <2>1. Whole' /\ \A e \in Hosts : Sane(e, authorized[e])'
        BY <1>1, <1>2, <1>7, <1>9, PutWorld DEF Put, Host, Holding
    <2>2. CASE Goto(c, "release")
        BY <1>4, <2>1, <2>2, GotoFields, Released, Assemble DEF Sound
    <2>3. CASE /\ authorized' = [authorized EXCEPT ![h] = f]
               /\ run' = [run EXCEPT ![c].pc = done, ![c].failed = @ \/ failed]
        <3>1. /\ run'[c].pc = done
              /\ run'[c].failed = (run[c].failed \/ failed)
              /\ run'[c].mode = run[c].mode /\ run'[c].todo = run[c].todo
              /\ run'[c].host = run[c].host /\ run'[c].next = run[c].next
              /\ run'[c].original = run[c].original
            BY <2>3 DEF TypeOK, Rotation
        <3>2. Sound(c)'
            BY <1>9, <2>3, <3>1
        <3> QED
            BY <2>1, <3>2, Assemble
    <2> QED
        BY <1>7, <1>9, <2>2, <2>3 DEF Put, Host
<1>10. ASSUME Goto(c, "release"), UNCHANGED authorized PROVE Good'
    <2>1. Sound(c)'
        BY <1>4, <1>10, GotoFields, Released DEF Sound
    <2> QED
        BY <1>1, <1>3, <1>10, <2>1, KeptWorld, Assemble
<1>11. Readings(Host(c)) = {authorized[h]}
    BY <1>7 DEF Readings, Host, Calm
<1>12. CASE Append(c)
    <2> DEFINE f == [run[c].original EXCEPT !.next = run[c].next]
    <2>1. Sane(h, f)
        BY <1>8 DEF Sane, Content
    <2>2. ASSUME run'[c].pc = "verify", run'[c].mode = run[c].mode,
                 run'[c].failed = (run[c].failed \/ FALSE),
                 run'[c].todo = run[c].todo, run'[c].host = run[c].host,
                 run'[c].next = run[c].next, run'[c].original = run[c].original,
                 authorized' = [authorized EXCEPT ![h] = f]
          PROVE Sound(c)'
        <3>1. Sane(run[c].host, run[c].original)'
            BY <1>6, <1>7, <1>8, <2>2 DEF Sane
        <3>2. \A e \in Hosts \ {h} : authorized'[e] = authorized[e]
            BY <2>2 DEF TypeOK
        <3> QED
            <4>1. ASSUME ~run[c].failed, run[c].mode = "plain", NEW e \in Hosts \ run[c].todo,
                         e # h
                  PROVE authorized'[e].ops = run[c].next
                BY <1>4, <1>7, <1>12, <3>2, <4>1 DEF Append, At, Sound, Working, Holding
            <4>2. run[c].mode # "force"
                BY <1>4 DEF Sound
            <4> QED
                BY <1>5, <1>7, <1>8, <2>2, <3>1, <4>1, <4>2
                   DEF Sound, Working, Holding, Moving, Late
    <2> QED
        BY <1>9, <1>12, <2>1, <2>2 DEF Append
<1>13. CASE Restore(c)
    <2>1. ASSUME run'[c].pc = "loop", run'[c].mode = run[c].mode,
                 run'[c].failed = (run[c].failed \/ TRUE), run'[c].next = run[c].next
          PROVE Sound(c)'
        BY <1>4, <1>5, <1>8, <2>1 DEF Sound, Working, Holding, Moving, Late
    <2> QED
        BY <1>8, <1>9, <1>13, <2>1 DEF Restore
<1>14. CASE Clean(c)
    <2> DEFINE f == [authorized[h] EXCEPT !.next = 0]
    <2>1. Sane(h, f)
        BY <1>3 DEF Sane, TypeOK, Content
    <2>2. ASSUME run'[c].pc = "loop", run'[c].mode = run[c].mode,
                 run'[c].failed = (run[c].failed \/ TRUE), run'[c].next = run[c].next
          PROVE Sound(c)'
        BY <1>4, <1>5, <1>8, <2>2 DEF Sound, Working, Holding, Moving, Late
    <2> QED
        BY <1>9, <1>10, <1>11, <1>14, <2>1, <2>2 DEF Clean
<1>15. CASE Swap(c)
    <2> DEFINE f == [authorized[h] EXCEPT !.next = 0, !.ops = run[c].next]
    <2>1. f.ops = run[c].next /\ f.next = 0
        BY DEF TypeOK, Content
    <2>2. h \notin refuses
        BY <1>4, <1>7, <1>15 DEF Swap, At, Sound
    <2>3. Sane(h, f)
        BY <1>8, <2>1, <2>2 DEF Sane
    <2>4. ASSUME run'[c].pc = "reverify", run'[c].mode = run[c].mode,
                 run'[c].failed = (run[c].failed \/ FALSE),
                 run'[c].todo = run[c].todo, run'[c].host = run[c].host,
                 run'[c].next = run[c].next, run'[c].original = run[c].original,
                 authorized' = [authorized EXCEPT ![h] = f]
          PROVE Sound(c)'
        <3>1. Sane(run[c].host, run[c].original)'
            BY <1>6, <1>7, <1>8, <2>4 DEF Sane
        <3>2. \A e \in Hosts \ {h} : authorized'[e] = authorized[e]
            BY <2>4 DEF TypeOK
        <3>3. authorized'[h].ops = run[c].next
            BY <2>1, <2>4 DEF TypeOK
        <3> QED
            BY <1>1, <1>4, <1>5, <1>7, <1>8, <1>15, <2>2, <2>4, <3>1, <3>2, <3>3
               DEF Swap, At, Sound, Working, Holding, Moving, Late
    <2> QED
        BY <1>9, <1>10, <1>11, <1>15, <2>3, <2>4 DEF Swap
<1> QED
    BY <1>12, <1>13, <1>14, <1>15

(* The halves a rename touches, and no others.                             *)
LEMMA RenamedKeys ==
    ASSUME TypeOK, NEW half \in Halves, NEW from \in Slots, NEW to \in Slots, from # to,
           key[half][from] # 0
    PROVE /\ Renamed(half, from, to)[half][to] = key[half][from]
          /\ Renamed(half, from, to)[half][from] = 0
          /\ \A s \in Slots \ {from, to} : Renamed(half, from, to)[half][s] = key[half][s]
          /\ \A e \in Halves \ {half} : Renamed(half, from, to)[e] = key[e]
BY DEF Renamed, TypeOK

(* The four renames, from keys that are whole to keys that are whole.      *)
LEMMA GoodMove ==
    ASSUME OneRotation, TypeOK, Good, Calm, NEW c \in Callers, Move(c)
    PROVE Good'
<1> DEFINE n == run[c].next
<1>1. UNCHANGED <<made, refuses, authorized>>
    BY DEF Move, local
<1>2. Sound(c) /\ run[c].pc \in Moving
    BY DEF Good, Move, At, Moving
<1>3. Switched(n) /\ n # 0
    BY <1>2 DEF Sound, Switched
<1>4. "next" \in Slots /\ "ops" \in Slots /\ "prev" \in Slots /\ "private" \in Halves
      /\ "public" \in Halves /\ Slots \ {"ops", "prev"} = {"next"}
      /\ Slots \ {"next", "ops"} = {"prev"} /\ Halves \ {"private"} = {"public"}
      /\ Halves \ {"public"} = {"private"}
    BY DEF Slots, Halves
<1>5. ASSUME NEW pc, Goto(c, pc) PROVE Switched(run[c].next)' /\ run'[c].next = n
    <2>1. run'[c].next = n
        BY <1>5, GotoFields
    <2> QED
        BY <1>1, <1>3, <2>1 DEF Switched
<1>6. CASE At(c, "moveOps")
    <2>1. Whole
        BY <1>6 DEF OneRotation, Good, Late, At
    <2>2. key["private"]["ops"] # 0 /\ key["private"]["next"] = n /\ KeyOf("next") = n
        <3>1. KeyOf("ops") # 0
            BY <2>1 DEF Whole
        <3> QED
            BY <1>2, <1>6, <2>1, <3>1 DEF Whole, Sound, At, KeyOf
    <2>3. Goto(c, "moveOpsPub") /\ key' = Renamed("private", "ops", "prev")
        BY <1>6, <2>2 DEF Move, At
    <2>4. key'["private"]["ops"] = 0 /\ key'["private"]["next"] = n /\ KeyOf("next")' = n
        BY <1>4, <2>2, <2>3, RenamedKeys DEF KeyOf
    <2>5. run'[c].pc = "moveOpsPub" /\ run'[c].mode # "force"
        BY <1>2, <2>3, GotoFields DEF Sound
    <2>6. Sound(c)'
        BY <1>5, <2>3, <2>4, <2>5 DEF Sound, Working, Holding, Moving, Late
    <2> QED
        BY <2>5, <2>6, Assemble DEF Late
<1>7. CASE At(c, "moveOpsPub")
    <2>1. key["private"]["ops"] = 0 /\ key["private"]["next"] = n /\ KeyOf("next") = n
        BY <1>2, <1>7 DEF Sound, At, Late
    <2>2. Goto(c, "moveNext") /\ key' = Renamed("public", "ops", "prev")
        BY <1>7 DEF Move, At
    <2>3. /\ key'["private"]["ops"] = 0 /\ key'["private"]["next"] = n
          /\ KeyOf("next")' = n /\ KeyOf("ops")' = 0
        <3>1. CASE key["public"]["ops"] # 0
            BY <1>4, <2>1, <2>2, <3>1, RenamedKeys DEF KeyOf
        <3>2. CASE key["public"]["ops"] = 0
            BY <2>1, <2>2, <3>2 DEF Renamed, KeyOf
        <3> QED
            BY <3>1, <3>2
    <2>4. run'[c].pc = "moveNext" /\ run'[c].mode # "force"
        BY <1>2, <2>2, GotoFields DEF Sound
    <2>5. Sound(c)'
        BY <1>5, <2>2, <2>3, <2>4 DEF Sound, Working, Holding, Moving, Late
    <2> QED
        BY <2>4, <2>5, Assemble DEF Late
<1>8. CASE At(c, "moveNext")
    <2>1. key["private"]["next"] = n /\ KeyOf("next") = n
        BY <1>2, <1>8 DEF Sound, At, Late
    <2>2. Goto(c, "moveNextPub") /\ key' = Renamed("private", "next", "ops")
        BY <1>8 DEF Move, At
    <2>3. /\ key'["private"]["ops"] = n /\ key'["private"]["next"] = 0
          /\ KeyOf("next")' = n
        BY <1>3, <1>4, <2>1, <2>2, RenamedKeys DEF KeyOf
    <2>4. run'[c].pc = "moveNextPub" /\ run'[c].mode # "force"
        BY <1>2, <2>2, GotoFields DEF Sound
    <2>5. Sound(c)'
        BY <1>5, <2>2, <2>3, <2>4 DEF Sound, Working, Holding, Moving, Late
    <2> QED
        BY <2>4, <2>5, Assemble DEF Late
<1>9. CASE At(c, "moveNextPub")
    <2>1. key["private"]["ops"] = n /\ key["private"]["next"] = 0 /\ KeyOf("next") = n
        BY <1>2, <1>9 DEF Sound, At, Late
    <2>2. Goto(c, "release") /\ key' = Renamed("public", "next", "ops")
        BY <1>9 DEF Move, At
    <2>3. /\ key'["private"] = key["private"]
          /\ KeyOf("next")' = 0 /\ KeyOf("ops")' = n
        BY <1>3, <1>4, <2>1, <2>2, RenamedKeys DEF KeyOf
    <2>4. Sound(c)'
        BY <1>2, <2>2, GotoFields, Released DEF Sound
    <2>5. Whole'
        <3>1. n \in 2 .. made'
            BY <1>1, <1>3 DEF Switched
        <3>2. n \in 1 .. made'
            BY <1>1, <3>1, MaxKeyAssumption DEF TypeOK
        <3>3. \A s \in {"ops", "next"} : key'["private"][s] = key'["public"][s]
            BY <2>1, <2>3 DEF KeyOf
        <3> QED
            BY <1>3, <2>3, <3>2, <3>3 DEF Whole
    <2>6. \A h \in Hosts : Sane(h, authorized[h])'
        BY <1>1, <1>3, <2>3 DEF Sane, Switched
    <2> QED
        BY <2>4, <2>5, <2>6, Assemble
<1> QED
    BY <1>6, <1>7, <1>8, <1>9 DEF Move

(* A rotation that lets go, and an operator who takes the lock away.       *)
LEMMA GoodEnd ==
    ASSUME OneRotation, TypeOK, Good, Calm,
           RemoveStale \/ (\E c \in Callers : Release(c) \/ Crash(c)) \/ UNCHANGED vars
    PROVE Good'
<1>1. UNCHANGED <<key, made, refuses, authorized>>
    BY DEF RemoveStale, Release, Crash, vars, local
<1>2. ASSUME NEW c \in Callers, Release(c) \/ Crash(c) PROVE Good'
    <2>1. run'[c] = AtRest
        BY <1>2 DEF Release, Crash, TypeOK
    <2>2. run[c].pc \notin Late
        BY <1>2 DEF Release, Crash, At, Calm, Moving, Late
    <2>3. Whole /\ \A h \in Hosts : Sane(h, authorized[h])
        BY <2>2 DEF OneRotation, Good
    <2> QED
        BY <1>1, <2>1, <2>3, AtRestSound, KeptWorld, Assemble
<1>3. ASSUME run' = run PROVE Good'
    BY <1>1, <1>3 DEF Good, Sound, Whole, Sane, Switched, KeyOf, Calm
<1> QED
    BY <1>2, <1>3 DEF RemoveStale, vars

LEMMA GoodStep == ASSUME OneRotation PROVE TypeOK /\ Good /\ [Next]_vars => Good'
<1> SUFFICES ASSUME TypeOK, Good, [Next]_vars PROVE Good'
    OBVIOUS
<1>1. faults' = faults
    BY FaultsStay
<1>2. CASE ~Calm
    BY <1>1, <1>2 DEF Good, Calm
<1>3. CASE Calm
    BY <1>3, GoodBegin, GoodLook, GoodGoto, GoodPut, GoodMove, GoodEnd DEF Next, Rotate
<1> QED
    BY <1>2, <1>3

(* Between the renames of a promotion aside, every host is opened by its    *)
(* tagged line.                                                            *)
LEMMA GoodOpens ==
    ASSUME TypeOK, Good, Calm, \A c \in Callers : run[c].pc \notin Moving, NEW h \in Hosts
    PROVE /\ \E s \in Ladder : Opens(h, s)
          /\ KeyOf("next") = 0 => Opens(h, "ops")
          /\ key["private"]["ops"] = key["public"]["ops"]
<1>1. Whole /\ Sane(h, authorized[h])
    BY DEF Good, Moving, Late
<1>2. ASSUME NEW s \in {"ops", "next"}, authorized[h].ops = KeyOf(s)
      PROVE s \in Ladder /\ Opens(h, s)
    <2>1. key["private"][s] = KeyOf(s) /\ KeyOf(s) # 0 /\ s \in Slots
        BY <1>1, <1>2 DEF Whole, Sane, Slots, KeyOf
    <2> QED
        BY <1>1, <1>2, <2>1 DEF Ladder, Opens, Accepts, Sane, KeyOf
<1> QED
    BY <1>1, <1>2 DEF Whole, Sane, KeyOf

LEMMA GoodHolds == ASSUME OneRotation PROVE Spec => [](TypeOK /\ Good)
<1>1. Init => TypeOK /\ Good
    BY TypeInit, GoodInit
<1>2. TypeOK /\ Good /\ [Next]_vars => (TypeOK /\ Good)'
    BY TypeStep, GoodStep
<1> QED
    BY <1>1, <1>2, PTL DEF Spec

(* Whatever fails on the way and wherever a rotation is interrupted but    *)
(* among the renames, some key of the ladder opens every host of any       *)
(* fleet, through any number of rotations one after the other (rotateHost, *)
(* swapToCanonical, promoteNextOpsKey).                                    *)
THEOREM NobodyIsLockedOut == ASSUME OneRotation PROVE Spec => []NoLockout
<1>1. TypeOK /\ Good => NoLockout
    BY GoodOpens DEF NoLockout, Calm
<1> QED
    BY <1>1, GoodHolds, PTL

(* Once a next key has been promoted the current one opens every host.     *)
THEOREM PromotedEverywhere == ASSUME OneRotation PROVE Spec => []Settled
<1>1. TypeOK /\ Good => Settled
    BY GoodOpens, HostsAssumption DEF Settled, Calm, KeyOf
<1> QED
    BY <1>1, GoodHolds, PTL

-------------------------------------------------------------------------------
(* SSH lockdown *)

(* One process hardens the host, again and again.                          *)
OneDisabler == \A c, d \in Disablers : c = d

(* The script is on the host, and has not yet reloaded sshd.               *)
Unreloaded(c) == remote[c] \in {"script", "arm", "write", "validate", "reload", "failed"}

(* A call whose script may still be running waits for it, or was given up. *)
Attended(c) ==
    /\ remote[c] # "none" => caller[c].pc \in {"idle", "apply", "notApplied"}
    /\ caller[c].outcome # "none" => caller[c].pc = "idle"
    /\ caller[c].outcome = "applied" => remote[c] = "none"
    /\ caller[c].pc = "notApplied" \/ caller[c].outcome = "not_applied" =>
         remote[c] = "none" \/ "lost" \in host.faults

(* What the call has found out is still so.                                *)
Sees(c) ==
    /\ caller[c].pc = "verify" => ~Effective
    /\ caller[c].pc \in {"recheck", "release"} => keyWorks
    /\ caller[c].outcome = "applied" => keyWorks
    /\ "lost" \notin host.faults =>
         /\ caller[c].pc = "notApplied" => keyWorks /\ ~sshd /\ ~dropin
         /\ caller[c].outcome = "not_applied" => ~sshd /\ ~dropin

(* The operator's key works until sshd is reloaded, and where the timer is *)
(* always armed the way back is laid before that.                          *)
Laid(c) ==
    /\ Unreloaded(c) => keyWorks /\ ~sshd
    /\ remote[c] = "failed" => ~dropin
    /\ Faultless =>
         /\ remote[c] \in {"arm", "write", "validate", "reload"} => revert
         /\ remote[c] \in {"write", "validate", "reload"} => timers # {}

LockInv ==
    /\ LockTypeOK
    /\ sshd => Effective
    /\ DeadManGuards
    /\ \A c \in Disablers : Attended(c) /\ Sees(c) /\ Laid(c)

-------------------------------------------------------------------------------
(* What a step does to the record of the call *)

LEMMA CallGoes ==
    ASSUME LockTypeOK, NEW c \in Disablers, NEW pc \in CallerPc, CallerGoes(c, pc)
    PROVE /\ caller' \in [Disablers -> [pc : CallerPc, pid : BOOLEAN, outcome : Outcome]]
          /\ caller'[c].pc = pc /\ caller'[c].outcome = caller[c].outcome
BY DEF LockTypeOK, CallerGoes

LEMMA CallReturns ==
    ASSUME LockTypeOK, NEW c \in Disablers, NEW outcome \in Outcome, Return(c, outcome)
    PROVE /\ caller' \in [Disablers -> [pc : CallerPc, pid : BOOLEAN, outcome : Outcome]]
          /\ caller'[c].pc = "idle" /\ caller'[c].outcome = outcome
BY DEF LockTypeOK, Return, CallerPc

LEMMA CallLearns ==
    ASSUME LockTypeOK, NEW c \in Disablers, NEW pc \in CallerPc, NEW pid \in BOOLEAN,
           caller' = [caller EXCEPT ![c].pc = pc, ![c].pid = pid]
    PROVE /\ caller' \in [Disablers -> [pc : CallerPc, pid : BOOLEAN, outcome : Outcome]]
          /\ caller'[c].pc = pc /\ caller'[c].outcome = caller[c].outcome
<1> DEFINE e == [caller[c] EXCEPT !.pc = pc, !.pid = pid]
<1>1. e \in [pc : CallerPc, pid : BOOLEAN, outcome : Outcome]
      /\ e.pc = pc /\ e.outcome = caller[c].outcome
  BY DEF LockTypeOK
<1>2. caller' = [caller EXCEPT ![c] = e]
  BY DEF LockTypeOK
<1> HIDE DEF e
<1> QED
  BY <1>1, <1>2 DEF LockTypeOK

LEMMA ScriptProceeds ==
    ASSUME LockTypeOK, NEW c \in Disablers, NEW step \in Remote, Proceed(c, step)
    PROVE remote' \in [Disablers -> Remote] /\ remote'[c] = step
BY DEF LockTypeOK, Proceed

(* There is one call: what holds of it holds of all.                       *)
LEMMA OneCallFine ==
    ASSUME OneDisabler, NEW c \in Disablers, Attended(c)', Sees(c)', Laid(c)'
    PROVE \A d \in Disablers : Attended(d)' /\ Sees(d)' /\ Laid(d)'
BY DEF OneDisabler, Attended, Sees, Laid

(* Where a call is the outcome of the one before is forgotten.             *)
LEMMA InCall ==
    ASSUME LockInv, NEW c \in Disablers
    PROVE /\ LockTypeOK /\ DeadManGuards /\ Attended(c) /\ Sees(c) /\ Laid(c)
          /\ remote[c] \in Remote /\ caller[c].pc \in CallerPc
          /\ caller[c].pid \in BOOLEAN /\ caller[c].outcome \in Outcome
          /\ caller[c].pc # "idle" => caller[c].outcome = "none"
BY DEF LockInv, LockTypeOK, Attended

-------------------------------------------------------------------------------
(* The script on the host *)

LEMMA ScriptKeeps ==
    ASSUME OneDisabler, LockInv, NEW c \in Disablers, Script(c)
    PROVE LockInv'
<1>1. /\ LockTypeOK /\ DeadManGuards /\ Attended(c) /\ Sees(c) /\ Laid(c)
      /\ remote[c] \in Remote /\ caller[c].pc \in CallerPc
      /\ caller[c].pc # "idle" => caller[c].outcome = "none"
  BY InCall
<1>2. \A d \in Disablers : d = c
  BY DEF OneDisabler
<1> SUFFICES /\ LockTypeOK' /\ (sshd => Effective)' /\ DeadManGuards'
             /\ Attended(c)' /\ Sees(c)' /\ Laid(c)'
  BY OneCallFine DEF LockInv
<1>3. CASE WriteRevert(c)
  <2>1. remote[c] = "script" /\ remote'[c] = "arm" /\ remote' \in [Disablers -> Remote]
        /\ revert' /\ UNCHANGED <<host, dropin, sshd, keyWorks, timers, caller>>
    BY <1>1, <1>3, ScriptProceeds DEF WriteRevert, Runs, Remote
  <2> QED
    BY <1>1, <2>1
    DEF LockInv, LockTypeOK, Effective, DeadManGuards, Faultless, LockedOut, Attended, Sees, Laid, Unreloaded
<1>4. CASE Arm(c)
  <2>1. remote[c] = "arm" /\ remote'[c] = "write" /\ remote' \in [Disablers -> Remote]
        /\ UNCHANGED <<host, dropin, sshd, keyWorks, revert, caller>>
    BY <1>1, <1>4, ScriptProceeds DEF Arm, Runs, Remote
  <2>2. timers' \subseteq (IF host.systemd THEN {Unit} ELSE Disablers)
    BY <1>1, <1>4 DEF Arm, LockTypeOK
  <2>3. Faultless => timers' # {}
    BY <1>4 DEF Arm, Faultless
  <2> QED
    BY <1>1, <2>1, <2>2, <2>3
    DEF LockInv, LockTypeOK, Effective, DeadManGuards, Faultless, LockedOut, Attended, Sees, Laid, Unreloaded
<1>5. CASE WriteDropin(c)
  <2>1. remote[c] = "write" /\ remote'[c] = "validate" /\ remote' \in [Disablers -> Remote]
        /\ dropin' /\ UNCHANGED <<host, sshd, keyWorks, revert, timers, caller>>
    BY <1>1, <1>5, ScriptProceeds DEF WriteDropin, Runs, Remote
  <2> QED
    BY <1>1, <2>1
    DEF LockInv, LockTypeOK, Effective, DeadManGuards, Faultless, LockedOut, Attended, Sees, Laid, Unreloaded
<1>6. CASE Validate(c)
  <2>1. PICK ok \in BOOLEAN : /\ Proceed(c, IF ok THEN "reload" ELSE "failed")
                              /\ dropin' = (dropin /\ ok)
    BY <1>6 DEF Validate
  <2>2. remote[c] = "validate" /\ remote'[c] = (IF ok THEN "reload" ELSE "failed")
        /\ remote' \in [Disablers -> Remote]
        /\ UNCHANGED <<host, sshd, keyWorks, revert, timers, caller>>
    BY <1>1, <1>6, <2>1, ScriptProceeds DEF Validate, Runs, Remote
  <2> QED
    BY <1>1, <2>1, <2>2
    DEF LockInv, LockTypeOK, Effective, DeadManGuards, Faultless, LockedOut, Attended, Sees, Laid, Unreloaded
<1>7. CASE Reload(c)
  <2>1. remote[c] = "reload" /\ UNCHANGED <<host, revert, timers, caller>>
    BY <1>7 DEF Reload, Runs
  <2>2. CASE sshd' = Effective /\ keyWorks' \in BOOLEAN /\ Proceed(c, "applied") /\ dropin' = dropin
    <3>1. remote'[c] = "applied" /\ remote' \in [Disablers -> Remote]
      BY <1>1, <2>2, ScriptProceeds DEF Remote
    <3> QED
      BY <1>1, <2>1, <2>2, <3>1
      DEF LockInv, LockTypeOK, Effective, DeadManGuards, Faultless, LockedOut, Attended, Sees, Laid, Unreloaded
  <2>3. CASE dropin' = FALSE /\ Proceed(c, "failed") /\ UNCHANGED <<sshd, keyWorks>>
    <3>1. remote'[c] = "failed" /\ remote' \in [Disablers -> Remote]
      BY <1>1, <2>3, ScriptProceeds DEF Remote
    <3> QED
      BY <1>1, <2>1, <2>3, <3>1
      DEF LockInv, LockTypeOK, Effective, DeadManGuards, Faultless, LockedOut, Attended, Sees, Laid, Unreloaded
  <2> QED
    BY <1>7, <2>2, <2>3 DEF Reload
<1>8. CASE Die(c)
  <2>1. remote[c] # "none" /\ remote'[c] = "none" /\ remote' \in [Disablers -> Remote]
        /\ UNCHANGED <<host, dropin, sshd, keyWorks, revert, timers, caller>>
    BY <1>1, <1>8, ScriptProceeds DEF Die, Remote
  <2> QED
    BY <1>1, <2>1
    DEF LockInv, LockTypeOK, Effective, DeadManGuards, Faultless, LockedOut, Attended, Sees, Laid, Unreloaded
<1> QED
  BY <1>3, <1>4, <1>5, <1>6, <1>7, <1>8 DEF Script

-------------------------------------------------------------------------------
(* The call *)

LEMMA DisableKeeps ==
    ASSUME OneDisabler, LockInv, NEW c \in Disablers, Disable(c)
    PROVE LockInv'
<1>1. /\ LockTypeOK /\ DeadManGuards /\ Attended(c) /\ Sees(c) /\ Laid(c)
      /\ remote[c] \in Remote /\ caller[c].pc \in CallerPc
      /\ caller[c].pid \in BOOLEAN /\ caller[c].outcome \in Outcome
      /\ caller[c].pc # "idle" => caller[c].outcome = "none"
  BY InCall
<1>2. \A d \in Disablers : d = c
  BY DEF OneDisabler
<1> SUFFICES /\ LockTypeOK' /\ (sshd => Effective)' /\ DeadManGuards'
             /\ Attended(c)' /\ Sees(c)' /\ Laid(c)'
  BY OneCallFine DEF LockInv
<1> DEFINE Fields == [pc : CallerPc, pid : BOOLEAN, outcome : Outcome]
<1>3. CASE BeginDisable(c)
  <2>1. /\ remote[c] = "none" /\ caller' \in [Disablers -> Fields]
        /\ caller'[c].pc = "probe" /\ caller'[c].outcome = "none"
        /\ UNCHANGED <<host, onHost>>
    BY <1>1, <1>3 DEF BeginDisable, LockTypeOK, CallerPc, Outcome
  <2> QED
    BY <1>1, <2>1
    DEF LockInv, LockTypeOK, Effective, DeadManGuards, Faultless, LockedOut, Attended, Sees, Laid, Unreloaded, onHost
<1>4. CASE Probe(c)
  <2>1. caller[c].pc = "probe" /\ UNCHANGED <<host, onHost>>
    BY <1>4 DEF Probe, CallerAt
  <2>2. /\ caller' \in [Disablers -> Fields]
        /\ \/ caller'[c].pc = "idle" /\ caller'[c].outcome \in {"refused", "already"}
           \/ caller'[c].pc = "verify" /\ caller'[c].outcome = "none" /\ ~Effective
    BY <1>1, <1>4, <2>1, CallGoes, CallReturns DEF Probe, CallerPc, Outcome
  <2> QED
    BY <1>1, <2>1, <2>2
    DEF LockInv, LockTypeOK, Effective, DeadManGuards, Faultless, LockedOut, Attended, Sees, Laid, Unreloaded, onHost
<1>5. CASE VerifyUserKey(c)
  <2>1. /\ caller[c].pc = "verify"
        /\ UNCHANGED <<host, dropin, sshd, keyWorks, revert, timers>>
    BY <1>5 DEF VerifyUserKey, CallerAt
  <2>2. CASE Return(c, "refused") /\ UNCHANGED remote
    <3>1. /\ caller' \in [Disablers -> Fields]
          /\ caller'[c].pc = "idle" /\ caller'[c].outcome = "refused"
      BY <1>1, <2>2, CallReturns DEF Outcome
    <3> QED
      BY <1>1, <2>1, <2>2, <3>1
      DEF LockInv, LockTypeOK, Effective, DeadManGuards, Faultless, LockedOut, Attended, Sees, Laid, Unreloaded
  <2>3. CASE keyWorks /\ CallerGoes(c, "apply") /\ remote' = [remote EXCEPT ![c] = "script"]
    <3>1. /\ caller' \in [Disablers -> Fields]
          /\ caller'[c].pc = "apply" /\ caller'[c].outcome = "none"
          /\ remote'[c] = "script" /\ remote' \in [Disablers -> Remote]
      BY <1>1, <2>1, <2>3, CallGoes, ScriptProceeds DEF CallerPc, Remote, Proceed
    <3> QED
      BY <1>1, <2>1, <2>3, <3>1
      DEF LockInv, LockTypeOK, Effective, DeadManGuards, Faultless, LockedOut, Attended, Sees, Laid, Unreloaded
  <2> QED
    BY <1>5, <2>2, <2>3 DEF VerifyUserKey
<1>6. CASE Answer(c)
  <2>1. /\ caller[c].pc = "apply" /\ remote[c] \in {"applied", "failed"}
        /\ UNCHANGED <<host, dropin, sshd, keyWorks, revert, timers>>
    BY <1>6 DEF Answer, CallerAt
  <2>2. remote'[c] = "none" /\ remote' \in [Disablers -> Remote]
    BY <1>1, <1>6, ScriptProceeds DEF Answer, Remote
  <2>3. /\ caller' \in [Disablers -> Fields] /\ caller'[c].outcome = "none"
        /\ caller'[c].pc = IF remote[c] = "applied" THEN "check" ELSE "notApplied"
    <3> DEFINE pc == IF remote[c] = "applied" THEN "check" ELSE "notApplied"
               pid == c \in timers
    <3>1. caller' = [caller EXCEPT ![c].pc = pc, ![c].pid = pid]
      BY <1>6 DEF Answer, Runs
    <3>2. pc \in CallerPc /\ pid \in BOOLEAN
      BY DEF CallerPc
    <3> HIDE DEF pid, pc
    <3>3. /\ caller' \in [Disablers -> Fields]
          /\ caller'[c].pc = pc /\ caller'[c].outcome = caller[c].outcome
      BY <1>1, <3>1, <3>2, CallLearns
    <3> QED
      BY <1>1, <2>1, <3>3 DEF pc
  <2> QED
    BY <1>1, <2>1, <2>2, <2>3
    DEF LockInv, LockTypeOK, Effective, DeadManGuards, Faultless, LockedOut, Attended, Sees, Laid, Unreloaded
<1>7. CASE AnswerLost(c)
  <2>1. caller[c].pc = "apply" /\ "lost" \in host.faults /\ UNCHANGED <<host, onHost>>
    BY <1>7 DEF AnswerLost, CallerAt
  <2>2. /\ caller' \in [Disablers -> Fields] /\ caller'[c].outcome = "none"
        /\ caller'[c].pc = "notApplied"
    <3>1. PICK told \in BOOLEAN :
            caller' = [caller EXCEPT ![c].pc = "notApplied", ![c].pid = told /\ c \in timers]
      BY <1>7 DEF AnswerLost
    <3> DEFINE pid == told /\ c \in timers
    <3>2. "notApplied" \in CallerPc /\ pid \in BOOLEAN
      BY DEF CallerPc
    <3>3. caller' = [caller EXCEPT ![c].pc = "notApplied", ![c].pid = pid]
      BY <3>1
    <3> HIDE DEF pid
    <3>4. /\ caller' \in [Disablers -> Fields]
          /\ caller'[c].pc = "notApplied" /\ caller'[c].outcome = caller[c].outcome
      BY <1>1, <3>2, <3>3, CallLearns
    <3> QED
      BY <1>1, <2>1, <3>4
  <2> QED
    BY <1>1, <2>1, <2>2
    DEF LockInv, LockTypeOK, Effective, DeadManGuards, Faultless, LockedOut, Attended, Sees, Laid, Unreloaded, onHost
<1>8. CASE GiveUp(c)
  <2>1. /\ caller[c].pc = "notApplied"
        /\ UNCHANGED <<host, dropin, sshd, keyWorks, remote>>
    BY <1>8 DEF GiveUp, CallerAt
  <2>2. /\ caller' \in [Disablers -> Fields]
        /\ caller'[c].pc = "idle" /\ caller'[c].outcome = "not_applied"
    BY <1>1, <1>8, CallReturns DEF GiveUp, Outcome
  <2>3. timers' \subseteq timers /\ revert' \in BOOLEAN
    BY <1>1, <1>8 DEF GiveUp, Cancelled, LockTypeOK
  <2>4. Faultless => "lost" \notin host.faults
    BY DEF Faultless
  <2> QED
    BY <1>1, <2>1, <2>2, <2>3, <2>4
    DEF LockInv, LockTypeOK, Effective, DeadManGuards, Faultless, LockedOut, Attended, Sees, Laid, Unreloaded
<1>9. CASE Check(c)
  <2>1. caller[c].pc = "check" /\ UNCHANGED <<host, onHost>>
    BY <1>9 DEF Check, CallerAt
  <2>2. /\ caller' \in [Disablers -> Fields] /\ caller'[c].outcome = "none"
        /\ \/ caller'[c].pc = "recheck" /\ keyWorks
           \/ caller'[c].pc = "rollBack"
    BY <1>1, <1>9, <2>1, CallGoes DEF Check, CallerPc
  <2> QED
    BY <1>1, <2>1, <2>2
    DEF LockInv, LockTypeOK, Effective, DeadManGuards, Faultless, LockedOut, Attended, Sees, Laid, Unreloaded, onHost
<1>10. CASE Recheck(c)
  <2>1. caller[c].pc = "recheck" /\ UNCHANGED <<host, onHost>>
    BY <1>10 DEF Recheck, CallerAt
  <2>2. /\ caller' \in [Disablers -> Fields] /\ caller'[c].outcome = "none"
        /\ caller'[c].pc \in {"release", "rollBack"}
    BY <1>1, <1>10, <2>1, CallGoes DEF Recheck, CallerPc
  <2> QED
    BY <1>1, <2>1, <2>2
    DEF LockInv, LockTypeOK, Effective, DeadManGuards, Faultless, LockedOut, Attended, Sees, Laid, Unreloaded, onHost
<1>11. CASE RollBack(c)
  <2>1. caller[c].pc = "rollBack" /\ UNCHANGED <<host, keyWorks, remote>>
    BY <1>11 DEF RollBack, CallerAt
  <2>2. /\ caller' \in [Disablers -> Fields]
        /\ caller'[c].pc = "idle" /\ caller'[c].outcome = "rolled_back"
    BY <1>1, <1>11, CallReturns DEF RollBack, Outcome
  <2>3. CASE UNCHANGED <<dropin, sshd, timers, revert>>
    BY <1>1, <2>1, <2>2, <2>3
    DEF LockInv, LockTypeOK, Effective, DeadManGuards, Faultless, LockedOut, Attended, Sees, Laid, Unreloaded
  <2>4. CASE /\ dropin' = (dropin /\ ~revert) /\ sshd' = (sshd /\ ~revert)
             /\ Cancelled(c)
    <3>1. timers' \subseteq timers /\ revert' \in BOOLEAN
      BY <2>4 DEF Cancelled
    <3> QED
      BY <1>1, <2>1, <2>2, <2>4, <3>1
      DEF LockInv, LockTypeOK, Effective, DeadManGuards, Faultless, LockedOut, Attended, Sees, Laid, Unreloaded
  <2> QED
    BY <1>11, <2>3, <2>4 DEF RollBack
<1>12. CASE CancelDeadman(c)
  <2>1. caller[c].pc = "release" /\ UNCHANGED <<host, dropin, sshd, keyWorks, remote>>
    BY <1>12 DEF CancelDeadman, CallerAt
  <2>2. /\ caller' \in [Disablers -> Fields]
        /\ caller'[c].pc = "idle" /\ caller'[c].outcome = "applied"
    BY <1>1, <1>12, CallReturns DEF CancelDeadman, Outcome
  <2>3. timers' \subseteq timers /\ revert' \in BOOLEAN
    BY <1>1, <1>12 DEF CancelDeadman, Cancelled, LockTypeOK
  <2> QED
    BY <1>1, <2>1, <2>2, <2>3
    DEF LockInv, LockTypeOK, Effective, DeadManGuards, Faultless, LockedOut, Attended, Sees, Laid, Unreloaded
<1>13. CASE Interrupt(c)
  <2>1. caller[c].pc # "idle" /\ UNCHANGED <<host, onHost>>
    BY <1>13 DEF Interrupt, CallerAt
  <2>2. /\ caller' \in [Disablers -> Fields]
        /\ caller'[c].pc = "idle" /\ caller'[c].outcome = "none"
    BY <1>1, <1>13, CallReturns DEF Interrupt, Outcome
  <2> QED
    BY <1>1, <2>1, <2>2
    DEF LockInv, LockTypeOK, Effective, DeadManGuards, Faultless, LockedOut, Attended, Sees, Laid, Unreloaded, onHost
<1> QED
  BY <1>3, <1>4, <1>5, <1>6, <1>7, <1>8, <1>9, <1>10, <1>11, <1>12, <1>13 DEF Disable

-------------------------------------------------------------------------------
(* The dead-man *)

LEMMA FireKeeps ==
    ASSUME OneDisabler, LockInv, NEW t \in Disablers \cup {Unit}, Fire(t)
    PROVE LockInv'
<1>1. /\ UNCHANGED <<host, keyWorks, revert, remote, caller>>
      /\ timers' = timers \ {t}
      /\ dropin' = (dropin /\ ~revert) /\ sshd' = (sshd /\ ~revert)
  BY DEF Fire
<1>2. LockTypeOK'
  BY <1>1 DEF LockInv, LockTypeOK
<1>3. (sshd => Effective)' /\ DeadManGuards'
  BY <1>1 DEF LockInv, LockTypeOK, Effective, DeadManGuards, Faultless, LockedOut
<1>4. ASSUME NEW c \in Disablers PROVE Attended(c)' /\ Sees(c)' /\ Laid(c)'
  <2>1. Attended(c) /\ Sees(c) /\ Laid(c)
    BY DEF LockInv
  <2>2. Attended(c)' /\ Sees(c)'
    BY <1>1, <2>1 DEF Attended, Sees, Effective
  <2>3. remote[c] \in {"write", "validate", "reload"} => timers' = timers
    <3> SUFFICES ASSUME remote[c] \in {"write", "validate", "reload"}
                 PROVE t \notin timers
      BY <1>1
    <3>1. t \notin {Unit, c}
      BY DEF Fire
    <3> QED
      BY <3>1 DEF OneDisabler
  <2> QED
    BY <1>1, <2>1, <2>2, <2>3 DEF Laid, Unreloaded, Faultless
<1> QED
  BY <1>2, <1>3, <1>4 DEF LockInv

LEMMA LockNextKeeps ==
    ASSUME OneDisabler
    PROVE LockInv /\ [LockNext]_lockVars => LockInv'
<1> SUFFICES ASSUME LockInv, [LockNext]_lockVars PROVE LockInv'
  OBVIOUS
<1>1. CASE UNCHANGED lockVars
  BY <1>1
  DEF LockInv, LockTypeOK, Effective, DeadManGuards, Faultless, LockedOut, Attended, Sees, Laid, Unreloaded, lockVars
<1> QED
  BY <1>1, ScriptKeeps, DisableKeeps, FireKeeps DEF LockNext

LEMMA LockInitHolds == LockInit => LockInv
<1> SUFFICES ASSUME LockInit PROVE LockInv
  OBVIOUS
<1>1. LockTypeOK
  BY DEF LockInit, LockTypeOK, Remote, CallerPc, Outcome
<1>2. ASSUME NEW c \in Disablers PROVE Attended(c) /\ Sees(c) /\ Laid(c)
  <2>1. /\ remote[c] = "none" /\ caller[c].pc = "idle" /\ caller[c].outcome = "none"
    BY DEF LockInit
  <2> QED
    BY <2>1 DEF Attended, Sees, Laid, Unreloaded
<1> QED
  BY <1>1, <1>2 DEF LockInit, LockInv, DeadManGuards, LockedOut

LEMMA LockInvariant ==
    ASSUME OneDisabler
    PROVE LockSpec => []LockInv
<1>1. LockInv /\ [LockNext]_lockVars => LockInv'
  BY LockNextKeeps
<1> QED
  BY <1>1, LockInitHolds, PTL DEF LockSpec

(* "Armed before sshd is touched, cancelled after a verified login only": for *)
(* one call of disable at a time, interrupted or abandoned anywhere, whenever *)
(* the operator is locked out the dead-man counts down and has its script, on *)
(* a host where the timer can be armed and the answers arrive.  A second call *)
(* that gives up cancels the timer the first one depends on.                  *)
THEOREM DeadManIsArmed ==
    ASSUME OneDisabler
    PROVE LockSpec => []DeadManGuards
<1>1. LockInv => DeadManGuards
  BY DEF LockInv
<1> QED
  BY <1>1, LockInvariant, PTL

(* What disable reports is so, for one call at a time, on any host: "nothing  *)
(* changed" where answers arrive, with the timer armed or not, and success    *)
(* only when the operator's key logs in, whatever goes wrong.                 *)
THEOREM LockdownReports ==
    ASSUME OneDisabler
    PROVE LockSpec => []ReportsAreTrue
<1>1. LockInv => ReportsAreTrue
  BY DEF LockInv, ReportsAreTrue, NothingChanged, Sees
<1> QED
  BY <1>1, LockInvariant, PTL

=============================================================================
