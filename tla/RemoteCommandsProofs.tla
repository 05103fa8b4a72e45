------------------------ MODULE RemoteCommandsProofs ------------------------
(***************************************************************************)
(* Proofs about RemoteCommands for any number of phones, commands,         *)
(* envelopes and handlers, and any number of faults.                       *)
(*                                                                         *)
(* Three layers, each inductive with the help of the one before:           *)
(*   Inv        types, and Owned: from the moment its row is stored until  *)
(*              its answer is, a command is in the hands of one handler,   *)
(*              whose position tells whether it has run;                   *)
(*   Kept       a row stored as received has its handler, or lost it to a  *)
(*              crash;                                                     *)
(*   ShutOut    once a device is closed, no handler carries one of its     *)
(*              commands past the check of its row.                        *)
(***************************************************************************)
EXTENDS RemoteCommands, TLAPS

(* Where a handler has reserved its command and not yet answered it. *)
Own == {"received", "execute", "executing", "save", "completed"}

Carrying ==
    \A h \in Handlers :
        /\ handler[h].pc # "idle" => handler[h].msg \in Messages
        /\ handler[h].pc = "touched" => handler[h].row \in Row

(* Two handlers never own the same command, and an owned one has its row. *)
Exclusive ==
    \A h \in Handlers : handler[h].pc \in Own =>
        /\ record[Command(h)] # "none"
        /\ \A g \in Handlers \ {h} :
               handler[g].pc \in Own => Command(g) # Command(h)

(* What the position of the owner tells of the command. *)
Position ==
    \A h \in Handlers :
        /\ handler[h].pc \in {"received", "execute"} => runs[Command(h)] = 0
        /\ handler[h].pc = "executing" =>
             runs[Command(h)] = 1 /\ outcome[Command(h)] = "none"
        /\ handler[h].pc \in {"save", "completed"} => outcome[Command(h)] = "done"
        /\ handler[h].pc = "resend" /\ handler[h].found = "executed" =>
             outcome[Command(h)] = "done"

(* A command runs only with a row, and rows have nonces of their own. *)
Ledger ==
    \A c \in Commands :
        /\ record[c] = "none" => runs[c] = 0
        /\ runs[c] = 0 => outcome[c] = "none"
        /\ record[c] = "executed" => outcome[c] = "done"
        /\ record[c] # "none" =>
             /\ Nonce[c] \in nonces
             /\ \A d \in Commands \ {c} : record[d] # "none" => Nonce[d] # Nonce[c]

Owned == Carrying /\ Exclusive /\ Position /\ Ledger

Inv == TypeOK /\ Owned

Kept == Inv /\ ReservedIsOwned

(* Where a handler has found the row of the device in order. *)
Admitted == {"previous", "resend", "reserve", "reread", "received", "execute"}

ShutOut ==
    \A d \in closed :
        /\ device[d].status = "revoked"
        /\ admin # Null /\ admin.device = d => admin.new.status = "revoked"
        /\ \A h \in Handlers : handler[h].pc # "idle" /\ Owner(h) = d =>
             /\ handler[h].pc \notin Admitted
             /\ handler[h].pc = "touched" => handler[h].row.status = "revoked"

-----------------------------------------------------------------------------
(* What a move of one handler leaves behind.                               *)

(* A handler that carries an envelope carries a command of a device. *)
LEMMA CommandTyped ==
    ASSUME Carrying, NEW h \in Handlers, handler[h].pc # "idle"
    PROVE /\ handler[h].msg \in Messages
          /\ Command(h) \in Commands
          /\ Owner(h) \in Devices
BY ConstantsAssumption DEF Carrying, Command, Owner

(* Goto moves one handler and keeps what it carries. *)
LEMMA GotoEffect ==
    ASSUME TypeOK, NEW h \in Handlers, NEW pc \in Pc, Goto(h, pc)
    PROVE /\ handler' \in [Handlers -> Handler]
          /\ handler'[h].pc = pc
          /\ handler'[h].msg = handler[h].msg
          /\ handler'[h].row = handler[h].row
          /\ handler'[h].found = handler[h].found
          /\ \A g \in Handlers \ {h} : handler'[g] = handler[g]
<1>1. handler[h] \in Handler
  BY DEF TypeOK
<1>2. [handler[h] EXCEPT !.pc = pc] \in Handler
  BY <1>1 DEF Handler
<1>3. handler' = [handler EXCEPT ![h] = [handler[h] EXCEPT !.pc = pc]]
  BY DEF Goto
<1> QED
  BY <1>1, <1>2, <1>3 DEF TypeOK, Handler

(* Return makes one handler idle. *)
LEMMA ReturnEffect ==
    ASSUME TypeOK, NEW h \in Handlers, Return(h)
    PROVE /\ handler' \in [Handlers -> Handler]
          /\ handler'[h].pc = "idle"
          /\ \A g \in Handlers \ {h} : handler'[g] = handler[g]
<1>1. Idle \in Handler
  BY DEF Idle, Handler, Pc, Record
<1> QED
  BY <1>1 DEF TypeOK, Return, Idle

(* SendAgain takes the stored answer along. *)
LEMMA SendAgainEffect ==
    ASSUME TypeOK, NEW h \in Handlers, Command(h) \in Commands, SendAgain(h)
    PROVE /\ handler' \in [Handlers -> Handler]
          /\ handler'[h].pc = "resend"
          /\ handler'[h].msg = handler[h].msg
          /\ handler'[h].found = record[Command(h)]
          /\ \A g \in Handlers \ {h} : handler'[g] = handler[g]
<1>1. handler[h] \in Handler /\ record[Command(h)] \in Record
  BY DEF TypeOK
<1>2. [handler[h] EXCEPT !.pc = "resend", !.found = record[Command(h)]] \in Handler
  BY <1>1 DEF Handler, Pc
<1>3. handler' = [handler EXCEPT ![h] = [handler[h] EXCEPT !.pc = "resend",
                                                 !.found = record[Command(h)]]]
  BY <1>1 DEF SendAgain, Handler
<1> QED
  BY <1>1, <1>2, <1>3 DEF TypeOK, Handler

-----------------------------------------------------------------------------
(* Inv *)

LEMMA InvInit == Init => Inv
<1> SUFFICES ASSUME Init PROVE Inv
  OBVIOUS
<1>1. Idle \in Handler
  BY DEF Idle, Handler, Pc, Record
<1>2. TypeOK
  BY <1>1, ConstantsAssumption DEF Init, TypeOK, Row, Record
<1>3. Owned
  BY DEF Init, Idle, Owned, Carrying, Exclusive, Position, Ledger, Own
<1> QED
  BY <1>2, <1>3 DEF Inv

(* A step that stores nothing about commands, takes none over and moves no *)
(* owner keeps Owned.                                                      *)
LEMMA Quiet ==
    ASSUME Inv,
           UNCHANGED <<record, nonces, runs, outcome>>,
           \A h \in Handlers :
               \/ handler'[h] = handler[h]
               \/ /\ handler'[h].pc \notin Own \cup {"resend"}
                  /\ handler'[h].pc # "idle" => handler'[h].msg \in Messages
                  /\ handler'[h].pc = "touched" => handler'[h].row \in Row
    PROVE Owned'
<1>1. Carrying'
  BY DEF Inv, Owned, Carrying
<1>2. Exclusive'
  BY DEF Inv, Owned, Exclusive, Own, Command
<1>3. Position'
  BY DEF Inv, Owned, Position, Own, Command
<1>4. Ledger'
  BY DEF Inv, Owned, Ledger
<1> QED
  BY <1>1, <1>2, <1>3, <1>4 DEF Owned

(* Every action keeps the types and who owns what. *)
LEMMA InvNext ==
    ASSUME Inv, [Next]_vars
    PROVE Inv'
<1> USE DEF Inv, At
<1>1. CASE Environment
  <2>1. TypeOK'
    <3>1. ASSUME NEW x \in MayExpire, Elapse(x) PROVE TypeOK'
      BY <3>1 DEF Elapse, TypeOK, store, history
    <3>2. CASE LinkDown \/ LinkUp
      <4>1. faults' \in 0..MaxFaults
        BY <3>2, ConstantsAssumption DEF LinkDown, LinkUp, Fault, MayFail, TypeOK
      <4>2. link' \in BOOLEAN
        BY <3>2 DEF LinkDown, LinkUp
      <4> QED
        BY <3>2, <4>1, <4>2 DEF LinkDown, LinkUp, TypeOK, store, history
    <3>3. CASE Crash
      <4>1. Idle \in Handler
        BY DEF Idle, Handler, Pc, Record
      <4>2. \A h \in Handlers : ~At(h, "idle") => Command(h) \in Commands
        BY CommandTyped DEF Owned
      <4>3. stranded' \subseteq Commands
        BY <3>3, <4>2 DEF Crash, TypeOK
      <4>4. faults' \in 0..MaxFaults
        BY <3>3, ConstantsAssumption DEF Crash, Fault, MayFail, TypeOK
      <4> QED
        BY <3>3, <4>1, <4>3, <4>4 DEF Crash, TypeOK, store, history
    <3> QED
      BY <1>1, <3>1, <3>2, <3>3 DEF Environment
  <2>2. Owned'
    BY <1>1, Quiet DEF Environment, Elapse, LinkDown, LinkUp, Crash, store, history,
                       Idle, Own, TypeOK
  <2> QED
    BY <2>1, <2>2
<1>2. CASE Administrator
  <2>1. TypeOK'
    <3>1. ASSUME NEW d \in Devices, AdminRead(d) PROVE TypeOK'
      <4>1. Updates(device[d]) \subseteq Row
        BY ConstantsAssumption DEF TypeOK, Updates, Row
      <4> QED
        BY <3>1, <4>1 DEF AdminRead, TypeOK, store, world, history
    <3>2. ASSUME AdminWrite PROVE TypeOK'
      BY <3>2 DEF AdminWrite, TypeOK, store, world, history
    <3> QED
      BY <1>2, <3>1, <3>2 DEF Administrator
  <2>2. Owned'
    BY <1>2, Quiet DEF Administrator, AdminRead, AdminWrite, store, history, Own
  <2> QED
    BY <2>1, <2>2
<1>3. ASSUME NEW h \in Handlers, NEW m \in Messages, Deliver(h, m) PROVE Inv'
  <2>1. [Idle EXCEPT !.pc = "lookup", !.msg = m] \in Handler
    BY DEF Idle, Handler, Pc, Record
  <2>2. TypeOK'
    BY <1>3, <2>1 DEF Deliver, Acknowledge, TypeOK, store, history
  <2>3. Owned'
    BY <1>3, Quiet DEF Deliver, store, history, Idle, Own, TypeOK
  <2> QED
    BY <2>2, <2>3
<1>4. ASSUME NEW h \in Handlers, Lookup(h) PROVE Inv'
  <2>1. handler[h].msg \in Messages
    BY <1>4 DEF Lookup, Owned, Carrying
  <2>2. Goto(h, "accept") \/ Return(h)
    BY <1>4 DEF Lookup
  <2>3. TypeOK'
    BY <1>4, <2>2, GotoEffect, ReturnEffect
    DEF Lookup, Acknowledge, TypeOK, store, history, Pc
  <2>4. Owned'
    BY <1>4, <2>1, <2>2, GotoEffect, ReturnEffect, Quiet
    DEF Lookup, store, history, Pc, Own
  <2> QED
    BY <2>3, <2>4
<1>5. ASSUME NEW h \in Handlers, Accept(h) PROVE Inv'
  <2>1. handler[h].msg \in Messages
    BY <1>5 DEF Accept, Owned, Carrying
  <2>2. Goto(h, "touch") \/ Return(h)
    BY <1>5 DEF Accept
  <2>3. TypeOK'
    BY <1>5, <2>1, <2>2, GotoEffect, ReturnEffect, ConstantsAssumption
    DEF Accept, Acknowledge, Fault, MayFail, TypeOK, history, Pc
  <2>4. Owned'
    BY <1>5, <2>1, <2>2, GotoEffect, ReturnEffect, Quiet DEF Accept, history, Pc, Own
  <2> QED
    BY <2>3, <2>4
<1>6. ASSUME NEW h \in Handlers, Touch(h) PROVE Inv'
  <2>1. device[Owner(h)] \in Row /\ handler[h].msg \in Messages /\ handler[h] \in Handler
    BY <1>6, CommandTyped DEF Touch, Owned, TypeOK
  <2>2. [handler[h] EXCEPT !.pc = "touched", !.row = device[Owner(h)]] \in Handler
    BY <2>1 DEF Handler, Pc
  <2>3. handler' = [handler EXCEPT ![h] = [handler[h] EXCEPT !.pc = "touched",
                                                   !.row = device[Owner(h)]]]
    BY <1>6, <2>1 DEF Touch, Handler
  <2>4. TypeOK'
    BY <1>6, <2>2, <2>3 DEF Touch, TypeOK, store, world, history
  <2>5. Owned'
    BY <1>6, <2>1, <2>3, Quiet DEF Touch, store, history, TypeOK, Own, Handler
  <2> QED
    BY <2>4, <2>5
<1>7. ASSUME NEW h \in Handlers, Touched(h) PROVE Inv'
  <2>1. /\ handler[h].row \in Row /\ handler[h].msg \in Messages /\ handler[h] \in Handler
        /\ Owner(h) \in Devices
    BY <1>7, CommandTyped DEF Touched, Owned, Carrying, TypeOK
  <2>2. [handler[h] EXCEPT !.pc = "verify", !.row = Null] \in Handler
    BY <2>1 DEF Handler, Pc
  <2>3. handler' = [handler EXCEPT ![h] = [handler[h] EXCEPT !.pc = "verify", !.row = Null]]
    BY <1>7, <2>1 DEF Touched, Handler
  <2>4. TypeOK'
    BY <1>7, <2>1, <2>2, <2>3 DEF Touched, TypeOK, store, world, history
  <2>5. Owned'
    BY <1>7, <2>1, <2>3, Quiet DEF Touched, store, history, TypeOK, Own, Handler
  <2> QED
    BY <2>4, <2>5
<1>8. ASSUME NEW h \in Handlers, Verify(h) PROVE Inv'
  <2>1. handler[h].msg \in Messages
    BY <1>8 DEF Verify, Owned, Carrying
  <2>2. Goto(h, "previous") \/ Goto(h, "failed")
    BY <1>8 DEF Verify
  <2>3. TypeOK'
    BY <1>8, <2>2, GotoEffect DEF Verify, TypeOK, store, world, history, Pc
  <2>4. Owned'
    BY <1>8, <2>1, <2>2, GotoEffect, Quiet DEF Verify, store, history, Pc, Own
  <2> QED
    BY <2>3, <2>4
<1>9. ASSUME NEW h \in Handlers, Previous(h) \/ Reread(h) PROVE Inv'
  <2>1. handler[h].msg \in Messages /\ Command(h) \in Commands
    BY <1>9, CommandTyped DEF Previous, Reread, Owned
  <2>2. Goto(h, "reserve") \/ Goto(h, "failed") \/ SendAgain(h)
    BY <1>9 DEF Previous, Reread
  <2>3. TypeOK'
    BY <1>9, <2>1, <2>2, GotoEffect, SendAgainEffect
    DEF Previous, Reread, TypeOK, store, world, history, Pc
  <2>4. CASE SendAgain(h)
    <3>1. Carrying'
      BY <2>1, <2>4, SendAgainEffect DEF Owned, Carrying
    <3>2. Exclusive'
      BY <1>9, <2>1, <2>4, SendAgainEffect
      DEF Previous, Reread, Owned, Exclusive, Own, Command, store
    <3>3. Position'
      BY <1>9, <2>1, <2>4, SendAgainEffect
      DEF Previous, Reread, Owned, Position, Ledger, Command, store, history
    <3>4. Ledger'
      BY <1>9 DEF Previous, Reread, Owned, Ledger, store, history
    <3> QED
      BY <2>3, <3>1, <3>2, <3>3, <3>4 DEF Owned
  <2>5. CASE Goto(h, "reserve") \/ Goto(h, "failed")
    BY <1>9, <2>1, <2>3, <2>5, GotoEffect, Quiet
    DEF Previous, Reread, store, history, Pc, Own
  <2> QED
    BY <2>2, <2>4, <2>5
<1>10. ASSUME NEW h \in Handlers, Resend(h) \/ SendReceived(h) \/ SendCompleted(h)
       PROVE Inv'
  <2>1. handler[h].msg \in Messages /\ Command(h) \in Commands
    BY <1>10, CommandTyped DEF Resend, SendReceived, SendCompleted, Answer, Owned
  <2>2. Return(h) \/ Goto(h, "failed") \/ (At(h, "received") /\ Goto(h, "execute"))
    BY <1>10 DEF Resend, SendReceived, SendCompleted, Answer
  <2>3. UNCHANGED <<device, admin, store, world, runs, outcome, closed, stranded>>
    BY <1>10 DEF Resend, SendReceived, SendCompleted, Answer
  <2>4. told' \subseteq Commands
    BY <1>10, <2>1 DEF Resend, SendReceived, SendCompleted, Answer, TypeOK
  <2>5. TypeOK'
    BY <2>2, <2>3, <2>4, GotoEffect, ReturnEffect DEF TypeOK, store, world, Pc
  <2>6. CASE At(h, "received") /\ Goto(h, "execute")
    <3>1. Carrying'
      BY <2>1, <2>6, GotoEffect DEF Owned, Carrying, Pc
    <3>2. Exclusive'
      BY <2>3, <2>6, GotoEffect DEF Owned, Exclusive, Own, Command, store, Pc
    <3>3. Position'
      BY <2>3, <2>6, GotoEffect DEF Owned, Position, Command, Pc
    <3>4. Ledger'
      BY <2>3 DEF Owned, Ledger, store
    <3> QED
      BY <2>5, <3>1, <3>2, <3>3, <3>4 DEF Owned
  <2>7. CASE Return(h) \/ Goto(h, "failed")
    BY <2>1, <2>3, <2>5, <2>7, GotoEffect, ReturnEffect, Quiet DEF store, Pc, Own
  <2> QED
    BY <2>2, <2>6, <2>7
<1>11. ASSUME NEW h \in Handlers, Reserve(h) PROVE Inv'
  <2>1. handler[h].msg \in Messages /\ Command(h) \in Commands
    BY <1>11, CommandTyped DEF Reserve, Owned
  <2>2. Goto(h, "received") \/ Goto(h, "reread")
    BY <1>11 DEF Reserve
  <2>3. nonces' \subseteq Nonces /\ record' \in [Commands -> Record]
    BY <1>11, <2>1, ConstantsAssumption DEF Reserve, TypeOK, Record
  <2>4. TypeOK'
    BY <1>11, <2>2, <2>3, GotoEffect, ConstantsAssumption
    DEF Reserve, TypeOK, history, Pc, Fault, MayFail
  <2>5. CASE Goto(h, "reread") /\ UNCHANGED <<record, nonces>>
    BY <1>11, <2>1, <2>4, <2>5, GotoEffect, Quiet DEF Reserve, history, Pc, Own
  <2>6. CASE /\ record[Command(h)] = "none" /\ Nonce[Command(h)] \notin nonces
             /\ record' = [record EXCEPT ![Command(h)] = "received"]
             /\ nonces' = nonces \cup {Nonce[Command(h)]}
             /\ Goto(h, "received")
    <3>1. Carrying'
      BY <2>1, <2>6, GotoEffect DEF Owned, Carrying, Pc
    <3>2. Exclusive'
      BY <2>1, <2>6, GotoEffect, CommandTyped
      DEF Owned, Exclusive, Carrying, TypeOK, Own, Command, Pc
    <3>3. Position'
      BY <1>11, <2>1, <2>6, GotoEffect
      DEF Reserve, history, Owned, Position, Ledger, Command, Pc
    <3>4. Ledger'
      BY <1>11, <2>1, <2>6 DEF Reserve, history, Owned, Ledger, TypeOK
    <3> QED
      BY <2>4, <3>1, <3>2, <3>3, <3>4 DEF Owned
  <2> QED
    BY <1>11, <2>5, <2>6 DEF Reserve
<1>12. ASSUME NEW h \in Handlers, Execute(h) PROVE Inv'
  <2>1. handler[h].msg \in Messages /\ Command(h) \in Commands
    BY <1>12, CommandTyped DEF Execute, Owned
  <2>2. runs[Command(h)] = 0 /\ outcome[Command(h)] = "none"
    BY <1>12, <2>1 DEF Execute, Owned, Position, Ledger
  <2>3. runs' = [runs EXCEPT ![Command(h)] = 1] /\ Goto(h, "executing")
    BY <1>12, <2>1, <2>2 DEF Execute, TypeOK
  <2>4. UNCHANGED <<device, admin, store, world, outcome, told, closed, stranded>>
    BY <1>12 DEF Execute
  <2>5. TypeOK'
    BY <2>1, <2>3, <2>4, GotoEffect DEF TypeOK, store, world, Pc
  <2>6. Carrying'
    BY <2>1, <2>3, GotoEffect DEF Owned, Carrying, Pc
  <2>7. Exclusive'
    BY <1>12, <2>3, <2>4, GotoEffect DEF Execute, Owned, Exclusive, Own, Command, store, Pc
  <2>8. Position'
    BY <1>12, <2>1, <2>2, <2>3, <2>4, GotoEffect
    DEF Execute, Owned, Position, Exclusive, Own, Command, TypeOK, Pc
  <2>9. Ledger'
    BY <1>12, <2>1, <2>3, <2>4 DEF Execute, Owned, Ledger, Exclusive, Own, store, TypeOK
  <2> QED
    BY <2>5, <2>6, <2>7, <2>8, <2>9 DEF Owned
<1>13. ASSUME NEW h \in Handlers, ExecuteEnds(h) PROVE Inv'
  <2>1. handler[h].msg \in Messages /\ Command(h) \in Commands
    BY <1>13, CommandTyped DEF ExecuteEnds, Owned
  <2>2. PICK how \in {"done", "threw"} :
           /\ outcome' = [outcome EXCEPT ![Command(h)] = how]
           /\ Goto(h, IF how = "done" THEN "save" ELSE "failed")
    BY <1>13 DEF ExecuteEnds
  <2>3. UNCHANGED <<device, admin, store, world, runs, told, closed, stranded>>
    BY <1>13 DEF ExecuteEnds
  <2>4. TypeOK'
    BY <2>1, <2>2, <2>3, GotoEffect DEF TypeOK, store, world, Pc
  <2>5. Carrying'
    BY <2>1, <2>2, GotoEffect DEF Owned, Carrying, Pc
  <2>6. Exclusive'
    BY <1>13, <2>2, <2>3, GotoEffect
    DEF ExecuteEnds, Owned, Exclusive, Own, Command, store, Pc
  <2>7. outcome[Command(h)] = "none" /\ runs[Command(h)] = 1
    BY <1>13 DEF ExecuteEnds, Owned, Position
  <2>8. Position'
    BY <1>13, <2>1, <2>2, <2>3, <2>7, GotoEffect
    DEF ExecuteEnds, Owned, Position, Exclusive, Own, Command, TypeOK, Pc
  <2>9. Ledger'
    BY <2>1, <2>2, <2>3, <2>7 DEF Owned, Ledger, store, TypeOK
  <2> QED
    BY <2>4, <2>5, <2>6, <2>8, <2>9 DEF Owned
<1>14. ASSUME NEW h \in Handlers, Save(h) \/ Fail(h) PROVE Inv'
  <2>1. handler[h].msg \in Messages /\ Command(h) \in Commands
    BY <1>14, CommandTyped DEF Save, Fail, Owned
  <2>2. UNCHANGED <<device, admin, replay, nonces, world, history, closed, stranded>>
    BY <1>14 DEF Save, Fail
  <2>3. PICK answer \in Record :
           /\ record' = [record EXCEPT ![Command(h)] = answer]
           /\ (answer = "none") <=> (record[Command(h)] = "none")
           /\ answer = "executed" => outcome[Command(h)] = "done"
    BY <1>14, <2>1 DEF Save, Fail, Record, TypeOK, Owned, Exclusive, Position, Own
  <2>4. Goto(h, "completed") \/ Goto(h, "rejected")
    BY <1>14 DEF Save, Fail
  <2>5. TypeOK'
    BY <2>1, <2>2, <2>3, <2>4, GotoEffect DEF TypeOK, world, history, Pc
  <2>6. Carrying'
    BY <2>1, <2>4, GotoEffect DEF Owned, Carrying, Pc
  <2>7. Exclusive'
    BY <1>14, <2>1, <2>3, <2>4, GotoEffect, CommandTyped
    DEF Save, Fail, Owned, Exclusive, Carrying, TypeOK, Own, Command, Pc
  <2>8. Position'
    BY <1>14, <2>1, <2>2, <2>4, GotoEffect
    DEF Save, Fail, Owned, Position, Command, history, Pc
  <2>9. Ledger'
    BY <2>1, <2>2, <2>3 DEF Owned, Ledger, history, TypeOK
  <2> QED
    BY <2>5, <2>6, <2>7, <2>8, <2>9 DEF Owned
<1>15. ASSUME NEW h \in Handlers, SendRejected(h) PROVE Inv'
  <2>1. TypeOK'
    BY <1>15, ReturnEffect DEF SendRejected, TypeOK, store, world, history
  <2>2. Owned'
    BY <1>15, ReturnEffect, Quiet DEF SendRejected, store, history, Own
  <2> QED
    BY <2>1, <2>2
<1>16. CASE UNCHANGED vars
  BY <1>16, Quiet DEF vars, store, world, history, TypeOK
<1> QED
  BY <1>1, <1>2, <1>3, <1>4, <1>5, <1>6, <1>7, <1>8, <1>9, <1>10, <1>11, <1>12,
     <1>13, <1>14, <1>15, <1>16 DEF Next, HandlerStep

(* The types hold; as part of them, no command runs twice                  *)
(* (remote-command.handler.ts:78-108).                                     *)
THEOREM CommandsTypeCorrect == Spec => []TypeOK
<1>1. Spec => []Inv
  BY InvInit, InvNext, PTL DEF Spec
<1>2. Inv => TypeOK
  BY DEF Inv
<1> QED
  BY <1>1, <1>2, PTL

-----------------------------------------------------------------------------
(* The refinement *)

LEMMA PromiseInit == Init => Promise!Init
BY DEF Init, Promise!Init

(* Only Execute, ExecuteEnds and the answers are steps of the promise.     *)
LEMMA PromiseNext ==
    ASSUME Inv, [Next]_vars
    PROVE [Promise!Next]_(Promise!vars)
<1> USE DEF Inv, At
<1>1. ASSUME NEW h \in Handlers, Execute(h) PROVE Promise!Next
  <2>1. Command(h) \in Commands
    BY <1>1, CommandTyped DEF Execute, Owned
  <2>2. runs[Command(h)] = 0 /\ record[Command(h)] # "none"
    BY <1>1 DEF Execute, Owned, Position, Exclusive, Own
  <2>3. \A c \in Commands : Nonce[c] = Nonce[Command(h)] => runs[c] = 0
    BY <2>1, <2>2 DEF Owned, Ledger
  <2>4. Promise!Run(Command(h))
    BY <1>1, <2>1, <2>2, <2>3 DEF Execute, Promise!Run, TypeOK
  <2> QED
    BY <2>1, <2>4 DEF Promise!Next
<1>2. ASSUME NEW h \in Handlers, ExecuteEnds(h) PROVE Promise!Next
  <2>1. Command(h) \in Commands
    BY <1>2, CommandTyped DEF ExecuteEnds, Owned
  <2>2. PICK how \in {"done", "threw"} : outcome' = [outcome EXCEPT ![Command(h)] = how]
    BY <1>2 DEF ExecuteEnds
  <2>3. Promise!End(Command(h), how)
    BY <1>2, <2>2 DEF ExecuteEnds, Owned, Position, Promise!End
  <2> QED
    BY <2>1, <2>3 DEF Promise!Next
<1>3. ASSUME NEW h \in Handlers, Resend(h) \/ SendReceived(h) \/ SendCompleted(h)
      PROVE [Promise!Next]_(Promise!vars)
  <2>1. Command(h) \in Commands
    BY <1>3, CommandTyped DEF Resend, SendReceived, SendCompleted, Answer, Owned
  <2>2. UNCHANGED <<runs, outcome>>
    BY <1>3 DEF Resend, SendReceived, SendCompleted, Answer
  <2>3. CASE told' = told
    BY <2>2, <2>3 DEF Promise!vars
  <2>4. CASE told' = told \cup {Command(h)} /\ outcome[Command(h)] = "done"
    BY <2>1, <2>2, <2>4 DEF Promise!Tell, Promise!Next
  <2>5. ASSUME told' # told
        PROVE told' = told \cup {Command(h)} /\ outcome[Command(h)] = "done"
    BY <1>3, <2>5
    DEF Resend, SendReceived, SendCompleted, Answer, Owned, Position
  <2> QED
    BY <2>3, <2>4, <2>5
<1>4. CASE UNCHANGED history
  BY <1>4 DEF history, Promise!vars
<1>5. CASE Environment \/ Administrator
  BY <1>4, <1>5 DEF Environment, Elapse, LinkDown, LinkUp, Crash,
                    Administrator, AdminRead, AdminWrite
<1>6. ASSUME NEW h \in Handlers, HandlerStep(h) \/ \E m \in Messages : Deliver(h, m)
      PROVE [Promise!Next]_(Promise!vars)
  BY <1>1, <1>2, <1>3, <1>4, <1>6
  DEF HandlerStep, Deliver, Lookup, Accept, Touch, Touched, Verify, Previous,
      Reserve, Reread, Save, Fail, SendRejected
<1> QED
  BY <1>4, <1>5, <1>6 DEF Next, vars

(* Deliveries, replays, faults and restarts of any number amount to the    *)
(* protocol that CommandExecution states: at most one run of a command and *)
(* of a nonce, and "executed" answered of completed runs only              *)
(* (remote-command.handler.ts:73-137, remote-store.ts:106-145).            *)
THEOREM ImplementsExecution == Spec => ExecutionProtocol
<1>1. Spec => []Inv
  BY InvInit, InvNext, PTL DEF Spec
<1>2. Inv /\ [Next]_vars => [Promise!Next]_(Promise!vars)
  BY PromiseNext
<1> QED
  BY <1>1, <1>2, PromiseInit, PTL DEF Spec, ExecutionProtocol, Promise!Spec

-----------------------------------------------------------------------------
(* Kept *)

(* Where the handler that stored a row as received still has to settle it. *)
Settling == {"received", "execute", "executing", "save", "failed"}

(* A step that stores no new row and lets nobody settling go keeps it.     *)
LEMMA KeptQuiet ==
    ASSUME Kept,
           \A c \in Commands : record'[c] = "received" => record[c] = "received",
           stranded \subseteq stranded',
           \A h \in Handlers : handler[h].pc \in Settling =>
               handler'[h].pc \in Settling /\ handler'[h].msg = handler[h].msg
    PROVE ReservedIsOwned'
BY DEF Kept, ReservedIsOwned, Settling, Command

LEMMA KeptNext ==
    ASSUME Kept, [Next]_vars
    PROVE Kept'
<1> USE DEF At
<1>1. Inv /\ Inv' /\ TypeOK
  BY InvNext DEF Kept, Inv
<1>2. CASE Environment
  <2>1. CASE Crash
    BY <2>1, <1>1 DEF Crash, Kept, ReservedIsOwned, Command, store
  <2>2. CASE ~Crash
    BY <1>1, <1>2, <2>2, KeptQuiet
    DEF Kept, Environment, Elapse, LinkDown, LinkUp, store
  <2> QED
    BY <1>1, <2>1, <2>2 DEF Kept
<1>3. CASE Administrator
  BY <1>1, <1>3, KeptQuiet DEF Kept, Administrator, AdminRead, AdminWrite, store
<1>4. ASSUME NEW h \in Handlers, NEW m \in Messages, Deliver(h, m) PROVE Kept'
  BY <1>1, <1>4, KeptQuiet DEF Kept, Deliver, store, Settling, TypeOK
<1>5. ASSUME NEW h \in Handlers, UNCHANGED <<record, stranded>>,
             handler[h].pc \notin Settling, \A g \in Handlers \ {h} : handler'[g] = handler[g]
      PROVE Kept'
  BY <1>1, <1>5, KeptQuiet DEF Kept
<1>6. ASSUME NEW h \in Handlers, UNCHANGED <<record, stranded>>,
             NEW pc \in Settling, Goto(h, pc)
      PROVE Kept'
  <2>1. pc \in Pc
    BY DEF Settling, Pc
  <2> QED
    BY <1>1, <1>6, <2>1, GotoEffect, KeptQuiet DEF Kept
<1>7. ASSUME NEW h \in Handlers,
             \/ Lookup(h) \/ Accept(h) \/ Touch(h) \/ Touched(h) \/ Verify(h)
             \/ Previous(h) \/ Reread(h) \/ SendRejected(h)
      PROVE Kept'
  <2>1. handler[h].pc \notin Settling /\ UNCHANGED <<record, stranded>>
    BY <1>7 DEF Lookup, Accept, Touch, Touched, Verify, Previous, Reread, SendRejected,
                Settling, store
  <2>2. \A g \in Handlers \ {h} : handler'[g] = handler[g]
    BY <1>1, <1>7 DEF Lookup, Accept, Touch, Touched, Verify, Previous, Reread,
                      SendRejected, Goto, Return, SendAgain, TypeOK
  <2> QED
    BY <1>5, <2>1, <2>2
<1>8. ASSUME NEW h \in Handlers, Resend(h) \/ SendCompleted(h) PROVE Kept'
  <2>1. handler[h].pc \notin Settling /\ UNCHANGED <<record, stranded>>
    BY <1>8 DEF Resend, SendCompleted, Answer, Settling, store
  <2>2. \A g \in Handlers \ {h} : handler'[g] = handler[g]
    BY <1>1, <1>8 DEF Resend, SendCompleted, Answer, Goto, Return, TypeOK
  <2> QED
    BY <1>5, <2>1, <2>2
<1>9. ASSUME NEW h \in Handlers, SendReceived(h) \/ Execute(h) \/ ExecuteEnds(h)
      PROVE Kept'
  <2>1. UNCHANGED <<record, stranded>>
    BY <1>9 DEF SendReceived, Answer, Execute, ExecuteEnds, store
  <2>2. \E pc \in Settling : Goto(h, pc)
    BY <1>9 DEF SendReceived, Answer, Execute, ExecuteEnds, Settling
  <2> QED
    BY <1>6, <2>1, <2>2
<1>10. ASSUME NEW h \in Handlers, Reserve(h) PROVE Kept'
  <2>1. CASE Goto(h, "received") /\ record' = [record EXCEPT ![Command(h)] = "received"]
    <3>1. /\ handler'[h].pc = "received" /\ handler'[h].msg = handler[h].msg
          /\ \A g \in Handlers \ {h} : handler'[g] = handler[g]
      BY <1>1, <2>1, GotoEffect DEF Pc
    <3> QED
      BY <1>1, <1>10, <2>1, <3>1 DEF Reserve, Kept, ReservedIsOwned, Command, TypeOK
  <2>2. CASE Goto(h, "reread") /\ UNCHANGED record
    BY <1>1, <1>5, <1>10, <2>2, GotoEffect DEF Reserve, Settling, Pc
  <2> QED
    BY <1>10, <2>1, <2>2 DEF Reserve
<1>11. ASSUME NEW h \in Handlers, Save(h) \/ Fail(h) PROVE Kept'
  <2>1. Command(h) \in Commands
    BY <1>1, <1>11, CommandTyped DEF Save, Fail, Inv, Owned
  <2>2. /\ \A c \in Commands \ {Command(h)} : record'[c] = record[c]
        /\ record'[Command(h)] # "received"
        /\ stranded' = stranded
    BY <1>1, <1>11, <2>1 DEF Save, Fail, TypeOK
  <2>3. \A g \in Handlers \ {h} : handler'[g] = handler[g]
    BY <1>1, <1>11 DEF Save, Fail, Goto, TypeOK
  <2> QED
    BY <1>1, <2>2, <2>3 DEF Kept, ReservedIsOwned, Command
<1>12. CASE UNCHANGED vars
  BY <1>1, <1>12, KeptQuiet DEF Kept, vars, store
<1> QED
  BY <1>2, <1>3, <1>4, <1>7, <1>8, <1>9, <1>10, <1>11, <1>12 DEF Next, HandlerStep

(* Whatever throws, the row of a reserved command gets a final answer from *)
(* the handler that stored it, unless the process dies                     *)
(* (remote-command.handler.ts:78-137).                                     *)
THEOREM ReservedOwned == Spec => []ReservedIsOwned
<1>1. Init => Kept
  BY InvInit DEF Init, Kept, ReservedIsOwned
<1>2. Spec => []Kept
  BY <1>1, KeptNext, PTL DEF Spec
<1>3. Kept => ReservedIsOwned
  BY DEF Kept
<1> QED
  BY <1>2, <1>3, PTL

-----------------------------------------------------------------------------
(* ShutOut *)

(* A step that closes nobody, and of whose handlers each either stays as it *)
(* is, or is not let in, keeps a closed device out.                         *)
LEMMA ShutOutQuiet ==
    ASSUME Inv, ShutOut,
           UNCHANGED <<device, admin, closed>>,
           \A h \in Handlers :
               \/ handler'[h] = handler[h]
               \/ handler'[h].pc \notin Admitted \cup {"touched"}
               \/ /\ handler[h].pc \in Admitted
                  /\ handler'[h].pc \in Admitted
                  /\ handler'[h].msg = handler[h].msg
    PROVE ShutOut'
BY DEF ShutOut, Admitted, Owner, Command

LEMMA ShutOutNext ==
    ASSUME Inv, ShutOut, [Next]_vars
    PROVE ShutOut'
<1> USE DEF Inv, At
<1>1. CASE Environment
  <2>1. CASE Crash
    BY <2>1 DEF Crash, ShutOut, Idle
  <2>2. CASE ~Crash
    BY <1>1, <2>2, ShutOutQuiet DEF Environment, Elapse, LinkDown, LinkUp
  <2> QED
    BY <2>1, <2>2
<1>2. ASSUME NEW d \in Devices, AdminRead(d) PROVE ShutOut'
  BY <1>2 DEF AdminRead, Updates, ShutOut, Owner, Command
<1>3. CASE AdminWrite
  <2>1. admin \in [device : Devices, new : Row]
    BY <1>3 DEF AdminWrite, TypeOK
  <2>2. \A d \in closed' \ closed :
          d = admin.device /\ \A h \in Handlers : Holds(h) => Owner(h) # d
    BY <1>3 DEF AdminWrite
  <2>3. \A h \in Handlers : handler[h].pc \in Admitted \cup {"touched"} => Holds(h)
    BY DEF Admitted, Holds
  <2>4. closed' \subseteq closed \cup {admin.device} /\ closed' \subseteq Devices
    BY <1>3, <2>1 DEF AdminWrite, TypeOK
  <2>5. \A d \in closed' : device'[d].status = "revoked"
    BY <1>3, <2>1, <2>4 DEF AdminWrite, ShutOut, TypeOK
  <2>6. admin' = Null /\ handler' = handler
    BY <1>3 DEF AdminWrite
  <2> QED
    BY <2>2, <2>3, <2>5, <2>6 DEF ShutOut, Owner, Command
<1>4. ASSUME NEW h \in Handlers, NEW m \in Messages, Deliver(h, m) PROVE ShutOut'
  BY <1>4, ShutOutQuiet, ZenonT(60) DEF Deliver, Idle, Admitted, TypeOK
<1>5. ASSUME NEW h \in Handlers, Touch(h) PROVE ShutOut'
  <2>1. /\ handler'[h].row = device[Owner(h)] /\ handler'[h].pc = "touched"
        /\ handler'[h].msg = handler[h].msg
        /\ \A g \in Handlers \ {h} : handler'[g] = handler[g]
    BY <1>5 DEF Touch, TypeOK, Handler
  <2>2. UNCHANGED <<device, admin, closed>>
    BY <1>5 DEF Touch
  <2>3. ASSUME NEW d \in closed, Owner(h)' = d PROVE handler'[h].row.status = "revoked"
    BY <2>1, <2>3 DEF ShutOut, Owner, Command
  <2>4. handler'[h].pc \notin Admitted
    BY <2>1 DEF Admitted
  <2>5. ASSUME NEW d \in closed, NEW g \in Handlers,
               handler'[g].pc # "idle", Owner(g)' = d
        PROVE /\ handler'[g].pc \notin Admitted
              /\ handler'[g].pc = "touched" => handler'[g].row.status = "revoked"
    <3>1. CASE g = h
      BY <2>3, <2>4, <2>5, <3>1
    <3>2. CASE g # h
      BY <2>1, <2>5, <3>2 DEF ShutOut, Owner, Command
    <3> QED
      BY <3>1, <3>2
  <2> QED
    BY <2>2, <2>5 DEF ShutOut
<1>6. ASSUME NEW h \in Handlers, Touched(h) PROVE ShutOut'
  <2>1. Owner(h) \in Devices
    BY <1>6, CommandTyped DEF Touched, Owned
  <2>2. handler'[h].pc = "verify" /\ \A g \in Handlers \ {h} : handler'[g] = handler[g]
    BY <1>6 DEF Touched, TypeOK, Handler
  <2>3. \A d \in closed : device'[d].status = "revoked"
    BY <1>6, <2>1 DEF Touched, ShutOut, TypeOK
  <2>4. UNCHANGED <<admin, closed>>
    BY <1>6 DEF Touched
  <2>5. ASSUME NEW d \in closed, NEW g \in Handlers,
               handler'[g].pc # "idle", Owner(g)' = d
        PROVE /\ handler'[g].pc \notin Admitted
              /\ handler'[g].pc = "touched" => handler'[g].row.status = "revoked"
    <3>1. CASE g = h
      BY <2>2, <3>1 DEF Admitted
    <3>2. CASE g # h
      BY <2>2, <2>5, <3>2 DEF ShutOut, Owner, Command
    <3> QED
      BY <3>1, <3>2
  <2> QED
    BY <2>3, <2>4, <2>5 DEF ShutOut
<1>7. ASSUME NEW h \in Handlers, Verify(h) PROVE ShutOut'
  <2>1. CASE Goto(h, "failed")
    BY <1>7, <2>1, GotoEffect, ShutOutQuiet DEF Verify, Admitted, Pc
  <2>2. CASE Authorized(Command(h)) /\ Goto(h, "previous")
    <3>1. Owner(h) \notin closed
      BY <2>2 DEF Authorized, Active, ShutOut, Owner
    <3> QED
      BY <1>7, <2>2, <3>1, GotoEffect DEF Verify, ShutOut, Owner, Command, Pc
  <2> QED
    BY <1>7, <2>1, <2>2 DEF Verify
<1>8. ASSUME NEW h \in Handlers, UNCHANGED <<device, admin, closed>>,
             Return(h) \/ \E pc \in Pc \ (Admitted \cup {"touched"}) : Goto(h, pc)
      PROVE ShutOut'
  BY <1>8, GotoEffect, ReturnEffect, ShutOutQuiet DEF Admitted
<1>9. ASSUME NEW h \in Handlers, UNCHANGED <<device, admin, closed>>,
             handler[h].pc \in Admitted,
             \E pc \in Admitted : Goto(h, pc)
      PROVE ShutOut'
  <2>1. Admitted \subseteq Pc
    BY DEF Admitted, Pc
  <2> QED
    BY <1>9, <2>1, GotoEffect, ShutOutQuiet
<1>10. ASSUME NEW h \in Handlers, UNCHANGED <<device, admin, closed>>,
             handler[h].pc \in Admitted, handler[h].pc # "idle", SendAgain(h)
      PROVE ShutOut'
  <2>1. Command(h) \in Commands
    BY <1>10, CommandTyped DEF Owned
  <2> QED
    BY <1>10, <2>1, SendAgainEffect, ShutOutQuiet DEF Admitted
<1>11. ASSUME NEW h \in Handlers, HandlerStep(h),
              ~Touch(h), ~Touched(h), ~Verify(h)
       PROVE ShutOut'
  <2>1. UNCHANGED <<device, admin, closed>>
    BY <1>11 DEF HandlerStep, Lookup, Accept, Previous, Resend, Reserve, Reread,
                 SendReceived, Execute, ExecuteEnds, Save, SendCompleted, Fail,
                 SendRejected, Answer
  <2>2. CASE Lookup(h) \/ Accept(h)
    BY <1>8, <2>1, <2>2 DEF Lookup, Accept, Admitted, Pc
  <2>3. CASE Previous(h) \/ Reread(h)
    BY <1>8, <1>9, <1>10, <2>1, <2>3 DEF Previous, Reread, Admitted, Pc
  <2>4. CASE Resend(h) \/ SendReceived(h) \/ SendCompleted(h)
    BY <1>8, <1>9, <2>1, <2>4 DEF Resend, SendReceived, SendCompleted, Answer, Admitted, Pc
  <2>5. CASE Reserve(h)
    BY <1>9, <2>1, <2>5 DEF Reserve, Admitted
  <2>6. CASE Execute(h) \/ ExecuteEnds(h) \/ Save(h) \/ Fail(h) \/ SendRejected(h)
    BY <1>8, <2>1, <2>6 DEF Execute, ExecuteEnds, Save, Fail, SendRejected, Admitted, Pc
  <2> QED
    BY <1>11, <2>2, <2>3, <2>4, <2>5, <2>6 DEF HandlerStep
<1>12. CASE UNCHANGED vars
  BY <1>12, ShutOutQuiet DEF vars
<1> QED
  BY <1>1, <1>2, <1>3, <1>4, <1>5, <1>6, <1>7, <1>11, <1>12 DEF Next, Administrator

(* A command starts only from Execute, and ShutOut keeps a closed device   *)
(* from there.                                                             *)
LEMMA ClosedStartsNothing ==
    ASSUME Inv, ShutOut, [Next]_vars,
           NEW c \in Commands, runs'[c] # runs[c]
    PROVE Signer[c] \notin closed
<1> USE DEF Inv, At
<1>1. PICK h \in Handlers : Execute(h)
  BY DEF Next, vars, history, HandlerStep, Deliver, Lookup, Accept, Touch, Touched, Verify,
         Previous, Resend, Reserve, Reread, SendReceived, ExecuteEnds, Save,
         SendCompleted, Fail, SendRejected, Answer, Environment, Elapse, LinkDown,
         LinkUp, Crash, Administrator, AdminRead, AdminWrite
<1>2. c = Command(h)
  BY <1>1 DEF Execute, TypeOK
<1>3. Owner(h) \notin closed
  BY <1>1 DEF Execute, ShutOut, Admitted
<1> QED
  BY <1>2, <1>3 DEF Owner

(* After a revoke that met no use of the row in flight, no command of the  *)
(* device starts again (device-registry.ts:108).                           *)
THEOREM RevokedStaysOut == Spec => RevokedRunsNothing
<1>1. Init => ShutOut
  BY DEF Init, ShutOut
<1>2. Spec => [](Inv /\ ShutOut)
  BY <1>1, InvInit, InvNext, ShutOutNext, PTL DEF Spec
<1>3. Inv /\ ShutOut /\ [Next]_vars =>
        [\A c \in Commands : runs'[c] # runs[c] => Signer[c] \notin closed]_vars
  BY ClosedStartsNothing
<1> QED
  BY <1>2, <1>3, PTL DEF Spec, RevokedRunsNothing
=============================================================================
