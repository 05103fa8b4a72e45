--------------------------- MODULE AppDeployProofs ---------------------------
(***************************************************************************)
(* Proofs about AppDeploy for any versions, any volumes and secrets, and   *)
(* any number of crashes and lost round trips.                             *)
(*                                                                         *)
(*   Claimed      an operation in progress has its row, and where a first  *)
(*                install has not run its script, or has taken it back,    *)
(*                the host has no units;                                   *)
(*   Spared       what was on the host when a deploy began is still there, *)
(*                and a probe that came back has seen it;                  *)
(*   Gated        a deploy that is to write a bare route was told so;      *)
(*   Truthful     where nothing was lost or torn, the row that a crash, a   *)
(*                failure or the end would leave is true of the host;       *)
(*   Restoring    and what a failed deploy has to put back is known from    *)
(*                the row and the probe it began with.                      *)
(***************************************************************************)
EXTENDS AppDeploy, TLAPS

(* Where a deploy has its row, and its script has not begun or is undone. *)
Untouched == {"record", "probe", "up", "pull", "script", "discard", "revert"}

(* Where a teardown is under way. *)
Teardown == {"unbind", "detach", "dropRecord", "removeScript", "dropRow", "clear"}

Claimed ==
    /\ late # Null => lost
    /\ op # Null =>
         /\ op.pc # "claim" => row # Null
         /\ op.pc = "claim" => op.prev = row
         /\ op.pc \in Teardown => op.prev # Null
         /\ op.pc \in {"unbind", "detach", "dropRecord"} => op.prev.ingress # Null
         /\ op.pc = "dropRow" => units = Null \/ lost
         /\ op.pc \in Untouched /\ op.prev = Null => units = Null \/ lost \/ op.left

Inv == TypeOK /\ UnitsHaveRow /\ Claimed

(* Where a deploy may still roll back. *)
Ahead == {"claim", "record", "probe", "up", "pull", "script", "smoke", "rollback"}

Spared ==
    op # Null =>
        /\ op.pc \in Ahead => op.kind = "deploy" /\ op.found.data \subseteq data
        /\ op.pc \in Ahead /\ op.probed =>
             op.found.data \cap Needs[op.units] \subseteq op.pre
        /\ op.pc = "removeScript" => op.kind = "remove"

Gated ==
    /\ op # Null /\ Naked /\ op.domain /\ ~op.gate => acknowledged
    /\ op # Null /\ op.pc \in {"attach", "tls", "cert"} => op.domain
    /\ NakedOnlyAcknowledged

(* What a row says of the host and of the proxy.                           *)
UnitsTrue(r) ==
    r # Null /\ r.status = "deployed" => units = r.units /\ r.units \in proven

RouteTrue(r) ==
    r # Null /\ r.ingress # Null =>
        /\ r.status = "deployed"
        /\ route = [gate |-> r.ingress.gate, tls |-> r.ingress.tls]

(* Where a deploy has not run its script yet, and where it has failed.     *)
Before == {"claim", "record", "probe", "up", "pull", "script"}
Failing == {"discard", "revert"}

(* Where the row of a deploy says installing, and where it says deployed.  *)
Unconfirmed == Untouched \cup {"smoke", "rollback", "save"}
Routing == {"attach", "tls", "cert", "saveIngress"}

Truthful ==
    ~lost /\ ~torn =>
        /\ op = Null => UnitsTrue(row) /\ RouteTrue(row)
        /\ op # Null =>
             /\ op.pc \in Teardown => op.kind # "deploy"
             /\ op.pc \in Before => UnitsTrue(op.prev) /\ RouteTrue(op.prev)
             /\ op.pc \in Failing /\ ~op.left => UnitsTrue(op.prev) /\ RouteTrue(op.prev)
             /\ op.pc \in {"smoke", "rollback"} =>
                  /\ RouteTrue(op.prev)
                  /\ Baseline(op.prev) => op.prev.units \in proven
             /\ op.pc \in Unconfirmed => row.status = "installing" /\ row.ingress = Null
             /\ op.pc \in {"smoke", "save"} => units = op.units
             /\ op.pc = "save" => op.units \in proven
             /\ op.pc \in Routing =>
                  /\ row.status = "deployed" /\ row.ingress = Null
                  /\ units = row.units /\ row.units = op.units /\ op.units \in proven
             /\ op.pc \in Routing \ {"attach"} => route = [gate |-> op.gate, tls |-> op.tls]
             /\ op.pc \in Teardown \ {"dropRow"} => UnitsTrue(op.prev)

Restoring ==
    op # Null /\ ~lost /\ ~torn /\ op.pc \in Ahead \cup Failing =>
        /\ route = op.found.route
        /\ op.found.data \subseteq data
        /\ zone = "ours" =>
             \/ op.found.named \/ op.record = "repointed"
             \/ op.record = "created" /\ op.pc # "revert"
        /\ op.pc \in {"claim", "record"} => op.record = "none"
        /\ op.pc \in Before => units = op.found.units /\ data = op.found.data
        /\ op.pc \in Ahead =>
             /\ op.prev = Null => op.found.units = Null
             /\ Baseline(op.prev) => op.found.units = op.prev.units
        /\ op.pc \in {"up", "pull", "script", "smoke", "rollback"} =>
             Baseline(op.prev) \/ (op.probed /\ op.pre = op.found.data \cap Needs[op.units])
        /\ op.pc \in {"smoke", "rollback"} => data \subseteq op.found.data \cup Needs[op.units]
        /\ op.pc \in Failing /\ ~op.left =>
             /\ op.prev = Null \/ Baseline(op.prev) => units = op.found.units
             /\ op.prev = Null => data = op.found.data

-----------------------------------------------------------------------------
(* What a step leaves of the operation.                                    *)

LEMMA GotoEffect ==
    ASSUME op \in Operation, NEW pc \in Pc, Goto(pc)
    PROVE /\ op' \in Operation
          /\ op' # Null
          /\ op'.pc = pc
          /\ \A f \in DOMAIN op \ {"pc"} : op'[f] = op[f]
          /\ op'.kind = op.kind /\ op'.units = op.units /\ op'.prev = op.prev
          /\ op'.domain = op.domain /\ op'.gate = op.gate /\ op'.probed = op.probed
          /\ op'.pre = op.pre /\ op'.left = op.left /\ op'.found = op.found
          /\ op'.record = op.record /\ op'.tls = op.tls
BY NullAssumption DEF Goto, Operation

LEMMA BeginEffect ==
    ASSUME TypeOK,
           NEW kind \in {"deploy", "remove", "unexpose", "down"},
           NEW v \in Versions, NEW pc \in Pc, NEW domain \in BOOLEAN, NEW gate \in BOOLEAN,
           Begin(kind, v, pc, domain, gate)
    PROVE /\ op' \in Operation
          /\ op' # Null
          /\ op'.pc = pc /\ op'.kind = kind /\ op'.units = v /\ op'.prev = row
          /\ op'.domain = domain /\ op'.gate = gate
          /\ op'.probed = FALSE /\ op'.left = FALSE
          /\ op'.found.data = data
<1>1. [units |-> units, data |-> data, named |-> zone = "ours", route |-> route] \in Found
  BY DEF TypeOK, Found
<1>2. row \in Install \cup {Null}
  BY DEF TypeOK
<1>3. op' \in Operation
  BY <1>1, <1>2 DEF Begin, Operation, Ensured
<1> QED
  BY <1>3, NullAssumption DEF Begin

LEMMA DeployEffect ==
    ASSUME TypeOK, NEW v \in Versions, Deploy(v)
    PROVE /\ op' \in Operation /\ op' # Null
          /\ op'.pc = "claim" /\ op'.kind = "deploy" /\ op'.prev = row
<1>1. PICK domain \in BOOLEAN, gate \in BOOLEAN : Begin("deploy", v, "claim", domain, gate)
  BY DEF Deploy, Gate
<1>2. "claim" \in Pc /\ "deploy" \in {"deploy", "remove", "unexpose", "down"}
  BY DEF Pc
<1> QED
  BY <1>1, <1>2, BeginEffect

(* A row of the shape that is stored is a row. *)
LEMMA RowTyped ==
    ASSUME NEW status \in {"installing", "deployed"}, NEW v \in Versions,
           NEW ingress \in Ingress \cup {Null}
    PROVE /\ [status |-> status, units |-> v, ingress |-> ingress] \in Install
          /\ [status |-> status, units |-> v, ingress |-> ingress] # Null
BY NullAssumption DEF Install

-----------------------------------------------------------------------------
(* Inv *)

LEMMA InvInit == Init => Inv
<1> SUFFICES ASSUME Init PROVE Inv
  OBVIOUS
<1>1. faults \in 0..MaxFaults
  BY ConstantsAssumption DEF Init
<1>2. acknowledged \in BOOLEAN /\ lost \in BOOLEAN /\ torn \in BOOLEAN
  BY Zenon DEF Init
<1>3. zone \in Zone
  BY DEF Init
<1> QED
  BY <1>1, <1>2, <1>3 DEF Init, Inv, TypeOK, UnitsHaveRow, Claimed

LEMMA FaultTyped ==
    ASSUME TypeOK, Fault \/ UNCHANGED faults
    PROVE faults' \in 0..MaxFaults
BY ConstantsAssumption DEF TypeOK, Fault

(* A round trip whose answer is there, or is not.                          *)
LEMMA AnswerTyped ==
    ASSUME TypeOK, LoseAnswer \/ UNCHANGED <<lost, faults>>
    PROVE /\ lost' \in BOOLEAN
          /\ lost => lost'
          /\ faults' \in 0..MaxFaults
<1>1. lost' \in BOOLEAN
  <2>1. lost \in BOOLEAN
    BY Zenon DEF TypeOK
  <2> QED
    BY <2>1, Zenon DEF LoseAnswer
<1>2. lost => lost'
  BY Zenon DEF LoseAnswer
<1>3. faults' \in 0..MaxFaults
  BY FaultTyped DEF LoseAnswer
<1> QED
  BY <1>1, <1>2, <1>3

(* A step of the operation that leaves the row and the units alone.        *)
LEMMA ClaimedKept ==
    ASSUME Inv, op # Null, op' # Null,
           UNCHANGED <<row, units, late>>,
           lost => lost',
           op'.prev = op.prev, op'.left = op.left,
           op.pc # "claim", op'.pc # "claim",
           op'.pc \in Teardown => op.pc \in Teardown,
           op'.pc \in {"unbind", "detach", "dropRecord"} => op.prev.ingress # Null,
           op'.pc # "dropRow",
           op'.pc \in Untouched => op.pc \in Untouched
    PROVE UnitsHaveRow' /\ Claimed'
BY DEF Inv, UnitsHaveRow, Claimed

LEMMA InvNext ==
    ASSUME Inv, [Next]_vars
    PROVE Inv'
<1> USE DEF At, host, history
<1>0. TypeOK /\ UnitsHaveRow /\ Claimed
  BY DEF Inv
<1>1. ASSUME NEW v \in Versions, Deploy(v) PROVE Inv'
  <2>1. PICK domain \in BOOLEAN, gate \in BOOLEAN : Begin("deploy", v, "claim", domain, gate)
    BY <1>1 DEF Deploy, Gate
  <2>2. op' \in Operation /\ op' # Null /\ op'.pc = "claim" /\ op'.prev = row
    BY <1>0, <2>1, BeginEffect, ZenonT(60) DEF Pc
  <2>3. acknowledged' \in BOOLEAN
    BY <1>0, <1>1 DEF Deploy, TypeOK
  <2> QED
    BY <1>0, <1>1, <2>2, <2>3
    DEF Deploy, Inv, TypeOK, UnitsHaveRow, Claimed, Untouched, Teardown
<1>2. ASSUME Remove \/ Unexpose PROVE Inv'
  <2>1. row \in Install /\ row.units \in Versions
    BY <1>0, <1>2 DEF Remove, Unexpose, TypeOK, Install
  <2>2. /\ op' \in Operation /\ op' # Null /\ op'.prev = row
        /\ op'.pc \in {"detach", "removeScript", "unbind"}
        /\ op'.pc \in {"unbind", "detach"} => row.ingress # Null
    BY <1>0, <1>2, <2>1, BeginEffect DEF Remove, Unexpose, Pc
  <2> QED
    BY <1>0, <1>2, <2>2
    DEF Remove, Unexpose, Inv, TypeOK, UnitsHaveRow, Claimed, Untouched, Teardown
<1>3. CASE op # Null /\ (Claim \/ Save \/ SaveIngress)
  <2>1. op \in Operation /\ op.units \in Versions
    BY <1>0, <1>3 DEF TypeOK, Operation
  <2>2. row' \in Install /\ row' # Null
    <3>1. CASE Claim \/ Save
      BY <2>1, <3>1, RowTyped DEF Claim, Save
    <3>2. CASE SaveIngress
      <4>1. [gate |-> op.gate, tls |-> op.tls, dns |-> op.record # "none"] \in Ingress
        BY <2>1 DEF Operation, Ingress
      <4> QED
        BY <2>1, <3>2, <4>1, RowTyped DEF SaveIngress
    <3> QED
      BY <1>3, <3>1, <3>2
  <2>3. \/ op' = Null
        \/ /\ op' \in Operation /\ op' # Null /\ op'.prev = op.prev
           /\ \/ op'.pc \in {"record", "probe"} /\ op.pc = "claim"
              \/ op'.pc = "attach"
    BY <1>3, <2>1, GotoEffect DEF Claim, Save, SaveIngress, End, Pc
  <2> QED
    BY <1>0, <1>3, <2>2, <2>3
    DEF Claim, Save, SaveIngress, Inv, TypeOK, UnitsHaveRow, Claimed, Untouched, Teardown
<1>4. CASE Record
  <2>1. op \in Operation /\ op # Null /\ op.pc = "record"
    BY <1>0, <1>4 DEF Record, TypeOK
  <2>2. /\ op' \in Operation /\ op' # Null /\ op'.prev = op.prev /\ op'.left = op.left
        /\ op'.pc \in {"probe", "revert"}
    <3>1. CASE Goto("revert")
      BY <2>1, <3>1, GotoEffect DEF Pc
    <3>2. ASSUME NEW e \in Ensured, Ensure(e)
          PROVE /\ op' \in Operation /\ op' # Null /\ op'.prev = op.prev
                /\ op'.left = op.left /\ op'.pc = "probe"
      BY <2>1, <3>2, NullAssumption, ZenonT(60) DEF Ensure, Operation, Pc
    <3> QED
      BY <1>4, <3>1, <3>2 DEF Record, Ensured
  <2>3. zone' \in Zone /\ faults' \in 0..MaxFaults
    BY <1>0, <1>4, FaultTyped DEF Record, Zone, TypeOK
  <2> QED
    BY <1>0, <1>4, <2>1, <2>2, <2>3, ClaimedKept
    DEF Record, Inv, TypeOK, Teardown, Untouched
<1>5. CASE Probe
  <2>1. op \in Operation /\ op # Null /\ op.pc = "probe"
    BY <1>0, <1>5 DEF Probe, TypeOK
  <2>2. PICK probed \in BOOLEAN, pre \in SUBSET Data :
           op' = [op EXCEPT !.probed = probed, !.pre = pre,
                            !.pc = IF op.domain THEN "up" ELSE "pull"]
    BY <1>0, <1>5 DEF Probe, TypeOK
  <2>3. /\ op' \in Operation /\ op' # Null /\ op'.prev = op.prev /\ op'.left = op.left
        /\ op'.pc \in {"up", "pull"}
    BY <2>1, <2>2, NullAssumption, ZenonT(60) DEF Operation, Pc
  <2>4. lost' \in BOOLEAN /\ (lost => lost') /\ faults' \in 0..MaxFaults
    <3>1. LoseAnswer \/ UNCHANGED <<lost, faults>>
      BY <1>5, Zenon DEF Probe
    <3> QED
      BY <1>0, <3>1, AnswerTyped
  <2> QED
    BY <1>0, <1>5, <2>1, <2>3, <2>4, ClaimedKept
    DEF Probe, Inv, TypeOK, Teardown, Untouched
<1>6. CASE Prepare
  <2>1. op \in Operation /\ op # Null /\ op.pc \in {"up", "pull"}
    BY <1>0, <1>6 DEF Prepare, TypeOK
  <2>2. /\ op' \in Operation /\ op' # Null /\ op'.prev = op.prev /\ op'.left = op.left
        /\ op'.pc \in {"pull", "script", "discard"}
    BY <1>6, <2>1, GotoEffect DEF Prepare, Pc
  <2> QED
    BY <1>0, <1>6, <2>1, <2>2, ClaimedKept DEF Prepare, Inv, TypeOK, Teardown, Untouched
<1>7. CASE Script
  <2>1. op \in Operation /\ op # Null /\ op.pc = "script" /\ op.units \in Versions
    BY <1>0, <1>7 DEF Script, TypeOK, Operation
  <2>2. /\ op' \in Operation /\ op' # Null /\ op'.prev = op.prev
        /\ op'.pc \in {"smoke", "rollback"}
    BY <1>7, <2>1, GotoEffect DEF Script, Pc
  <2>3. /\ units' \in Versions \cup {Null} /\ data' \subseteq Data
        /\ late' \in Versions \cup {Null} /\ lost' \in BOOLEAN /\ faults' \in 0..MaxFaults
        /\ (lost => lost') /\ (late' # Null => lost')
    <3>1. LoseAnswer \/ UNCHANGED <<lost, faults>>
      BY <1>7, Zenon DEF Script
    <3>2. late' = late \/ (late' = op.units /\ lost')
      BY <1>7, Zenon DEF Script, LoseAnswer
    <3>3. late # Null => lost
      BY <1>0 DEF Claimed
    <3>4. late' # Null => lost'
      BY <1>0, <3>1, <3>2, <3>3, AnswerTyped
    <3>5. data' \subseteq Data /\ units' \in Versions \cup {Null}
      BY <1>0, <1>7, <2>1, ConstantsAssumption DEF Script, TypeOK
    <3> QED
      BY <1>0, <2>1, <3>1, <3>2, <3>4, <3>5, AnswerTyped DEF TypeOK
  <2> QED
    BY <1>0, <1>7, <2>1, <2>2, <2>3
    DEF Script, Inv, TypeOK, UnitsHaveRow, Claimed, Teardown, Untouched
<1>8. CASE Smoke
  <2>1. op \in Operation /\ op # Null /\ op.pc = "smoke" /\ op.units \in Versions
    BY <1>0, <1>8 DEF Smoke, TypeOK, Operation
  <2>2. /\ op' \in Operation /\ op' # Null /\ op'.prev = op.prev
        /\ \/ op'.pc \in {"save", "rollback"}
           \/ op'.pc = "discard" /\ op'.left = TRUE
    <3>1. CASE Goto("save") \/ Goto("rollback")
      BY <2>1, <3>1, GotoEffect DEF Pc
    <3>2. CASE op' = [op EXCEPT !.left = TRUE, !.pc = "discard"]
      BY <2>1, <3>2, NullAssumption, ZenonT(60) DEF Operation, Pc
    <3> QED
      BY <1>8, <3>1, <3>2 DEF Smoke
  <2>3. lost' \in BOOLEAN /\ (lost => lost') /\ faults' \in 0..MaxFaults
    <3>1. LoseAnswer \/ UNCHANGED <<lost, faults>>
      BY <1>8, Zenon DEF Smoke
    <3> QED
      BY <1>0, <3>1, AnswerTyped
  <2>4. proven' \subseteq Versions
    BY <1>0, <1>8, <2>1 DEF Smoke, TypeOK
  <2> QED
    BY <1>0, <1>8, <2>1, <2>2, <2>3, <2>4
    DEF Smoke, Inv, TypeOK, UnitsHaveRow, Claimed, Teardown, Untouched
<1>9. CASE Rollback
  <2>1. op \in Operation /\ op # Null /\ op.pc = "rollback"
    BY <1>0, <1>9 DEF Rollback, TypeOK
  <2>2. /\ op' \in Operation /\ op' # Null /\ op'.prev = op.prev /\ op'.pc = "discard"
    BY <1>9, <2>1, GotoEffect DEF Rollback, Pc
  <2>3. Baseline(op.prev) => op.prev.units \in Versions
    BY <2>1 DEF Baseline, Operation, Install
  <2>4. /\ units' \in Versions \cup {Null} /\ data' \subseteq Data
        /\ lost' \in BOOLEAN /\ faults' \in 0..MaxFaults /\ (lost => lost')
        /\ op.prev = Null => units' = Null \/ lost'
    <3>1. LoseAnswer \/ UNCHANGED <<lost, faults>>
      BY <1>9, Zenon DEF Rollback
    <3>2. units' = (IF Baseline(op.prev) THEN op.prev.units ELSE Null) \/ lost'
      BY <1>9, Zenon DEF Rollback, LoseAnswer
    <3>3. /\ units' \in {units, IF Baseline(op.prev) THEN op.prev.units ELSE Null}
          /\ data' \subseteq data
      BY <1>9 DEF Rollback
    <3>4. op.prev = Null => units' = Null \/ lost'
      BY <3>2 DEF Baseline
    <3> QED
      BY <1>0, <2>3, <3>1, <3>3, <3>4, AnswerTyped DEF TypeOK
  <2> QED
    BY <1>0, <1>9, <2>1, <2>2, <2>4
    DEF Rollback, Inv, TypeOK, UnitsHaveRow, Claimed, Teardown, Untouched
<1>10. CASE Discard
  <2>1. op \in Operation /\ op # Null /\ op.pc = "discard"
    BY <1>0, <1>10 DEF Discard, TypeOK
  <2>2. /\ op' \in Operation /\ op' # Null /\ op'.prev = op.prev /\ op'.left = op.left
        /\ op'.pc = "revert"
    BY <1>10, <2>1, GotoEffect DEF Discard, Pc
  <2>3. /\ zone' \in Zone /\ lost' \in BOOLEAN /\ (lost => lost')
        /\ faults' \in 0..MaxFaults
    <3>1. LoseAnswer \/ UNCHANGED <<lost, faults>>
      BY <1>10, Zenon DEF Discard
    <3>2. zone' \in Zone
      BY <1>0, <1>10 DEF Discard, TypeOK, Zone
    <3> QED
      BY <1>0, <3>1, <3>2, AnswerTyped
  <2> QED
    BY <1>0, <1>10, <2>1, <2>2, <2>3, ClaimedKept
    DEF Discard, Inv, TypeOK, Teardown, Untouched
<1>11. CASE Revert
  <2>1. op \in Operation /\ op # Null /\ op.pc = "revert"
    BY <1>0, <1>11 DEF Revert, TypeOK
  <2>2. row' \in Install \cup {Null} /\ op' = Null
    BY <1>0, <1>11, <2>1 DEF Revert, End, TypeOK, Operation
  <2>3. units # Null /\ row' = Null => lost
    BY <1>0, <1>11, <2>1 DEF Revert, Claimed, Untouched, UnitsHaveRow
  <2> QED
    BY <1>0, <1>11, <2>2, <2>3 DEF Revert, Inv, TypeOK, UnitsHaveRow, Claimed
<1>12. CASE Attach
  <2>1. op \in Operation /\ op # Null /\ op.pc \in {"attach", "tls", "cert"}
    BY <1>0, <1>12 DEF Attach, TypeOK
  <2>2. ASSUME NEW tls \in BOOLEAN, NEW next \in {"tls", "cert", "saveIngress"},
               WriteRoute(tls, next)
        PROVE /\ route' \in Route \cup {Null} /\ lost' \in BOOLEAN
              /\ (lost => lost') /\ faults' \in 0..MaxFaults
              /\ \/ op' = Null
                 \/ /\ op' \in Operation /\ op'.prev = op.prev
                    /\ op'.pc \in {"tls", "cert", "saveIngress"}
    <3>1. [gate |-> op.gate, tls |-> tls] \in Route
      BY <2>1 DEF Operation, Route
    <3>2. [op EXCEPT !.pc = next, !.tls = tls] \in Operation
      BY <2>1 DEF Operation, Pc
    <3> QED
      BY <1>0, <2>1, <2>2, <3>1, <3>2, FaultTyped
      DEF WriteRoute, LoseAnswer, TypeOK, End, Operation
  <2>3. CASE Goto("saveIngress") /\ UNCHANGED <<route, lost, faults>>
    BY <1>0, <1>12, <2>1, <2>3, GotoEffect
    DEF Attach, Inv, TypeOK, UnitsHaveRow, Claimed, Teardown, Untouched, Pc
  <2>4. CASE End /\ UNCHANGED <<route, lost, faults>>
    BY <1>0, <1>12, <2>1, <2>4
    DEF Attach, End, Inv, TypeOK, UnitsHaveRow, Claimed, Teardown, Untouched
  <2>5. CASE \E tls \in BOOLEAN, next \in {"tls", "cert", "saveIngress"} : WriteRoute(tls, next)
    BY <1>0, <1>12, <2>1, <2>2, <2>5
    DEF Attach, Inv, TypeOK, UnitsHaveRow, Claimed, Teardown, Untouched
  <2> QED
    BY <1>12, <2>3, <2>4, <2>5 DEF Attach
<1>13. CASE Unbind
  <2>1. op \in Operation /\ op # Null /\ op.pc = "unbind" /\ op.prev # Null
    BY <1>0, <1>13 DEF Unbind, TypeOK, Claimed, Teardown
  <2>2. op.prev.units \in Versions /\ row # Null
    BY <1>0, <2>1 DEF Operation, Install, Claimed
  <2>3. /\ units' \in Versions \cup {Null} /\ lost' \in BOOLEAN /\ (lost => lost')
        /\ faults' \in 0..MaxFaults
    <3>1. LoseAnswer \/ UNCHANGED <<lost, faults>>
      BY <1>13, Zenon DEF Unbind
    <3>2. units' \in Versions \cup {Null}
      BY <1>0, <1>13, <2>2 DEF Unbind, TypeOK
    <3> QED
      BY <1>0, <3>1, <3>2, AnswerTyped
  <2>4. op.prev.ingress # Null
    BY <1>0, <2>1 DEF Claimed, Teardown
  <2>5. /\ op' \in Operation /\ op' # Null /\ op'.prev = op.prev
        /\ op'.pc = "detach"
    BY <1>13, <2>1, GotoEffect DEF Unbind, Pc
  <2> QED
    BY <1>0, <1>13, <2>1, <2>2, <2>3, <2>4, <2>5
    DEF Unbind, Inv, TypeOK, UnitsHaveRow, Claimed, Teardown, Untouched, Pc
<1>14. CASE Detach \/ DropRecord
  <2>1. /\ op \in Operation /\ op # Null /\ op.pc \in {"detach", "dropRecord"}
        /\ op.prev # Null /\ op.prev.ingress # Null
    BY <1>0, <1>14 DEF Detach, DropRecord, TypeOK, Claimed, Teardown
  <2>2. /\ op' \in Operation /\ op' # Null /\ op'.prev = op.prev /\ op'.left = op.left
        /\ op'.pc \in {"dropRecord", "removeScript", "clear"}
    BY <1>14, <2>1, GotoEffect DEF Detach, DropRecord, AfterDetach, Pc
  <2>3. /\ zone' \in Zone /\ route' \in Route \cup {Null}
        /\ lost' \in BOOLEAN /\ (lost => lost') /\ faults' \in 0..MaxFaults
    BY <1>0, <1>14, FaultTyped DEF Detach, DropRecord, LoseAnswer, TypeOK, Zone
  <2> QED
    BY <1>0, <1>14, <2>1, <2>2, <2>3, ClaimedKept
    DEF Detach, DropRecord, Inv, TypeOK, Teardown, Untouched
<1>15. CASE RemoveScript
  <2>1. op \in Operation /\ op # Null /\ op.pc = "removeScript" /\ op.prev # Null
    BY <1>0, <1>15 DEF RemoveScript, TypeOK, Claimed, Teardown
  <2>2. PICK purge \in BOOLEAN : op' = [op EXCEPT !.purge = purge, !.pc = "dropRow"]
    BY <1>15 DEF RemoveScript
  <2>3. op' \in Operation /\ op' # Null /\ op'.prev = op.prev /\ op'.pc = "dropRow"
    BY <2>1, <2>2, NullAssumption, ZenonT(60) DEF Operation, Pc
  <2>4. /\ units' \in Versions \cup {Null} /\ data' \subseteq Data
        /\ lost' \in BOOLEAN /\ (lost => lost') /\ faults' \in 0..MaxFaults
        /\ units' = Null \/ lost'
    <3>1. LoseAnswer \/ UNCHANGED <<lost, faults>>
      BY <1>15, Zenon DEF RemoveScript
    <3>2. units' = Null \/ lost'
      BY <1>15, Zenon DEF RemoveScript, LoseAnswer
    <3>3. units' \in {units, Null} /\ data' \subseteq data
      BY <1>15 DEF RemoveScript
    <3> QED
      BY <1>0, <3>1, <3>2, <3>3, AnswerTyped DEF TypeOK
  <2> QED
    BY <1>0, <1>15, <2>1, <2>3, <2>4
    DEF RemoveScript, Inv, TypeOK, UnitsHaveRow, Claimed, Teardown, Untouched
<1>16. CASE Finish
  <2>1. op \in Operation /\ op # Null /\ op.pc \in {"dropRow", "clear"} /\ op.prev # Null
    BY <1>0, <1>16 DEF Finish, TypeOK, Claimed, Teardown
  <2>2. op.prev \in Install
    BY <2>1 DEF Operation
  <2>3. [op.prev EXCEPT !.ingress = Null] \in Install
    BY <2>2 DEF Install
  <2> QED
    BY <1>0, <1>16, <2>1, <2>3, NullAssumption
    DEF Finish, End, Inv, TypeOK, UnitsHaveRow, Claimed
<1>17. CASE Publish
  BY <1>0, <1>17, FaultTyped DEF Publish, Inv, TypeOK, UnitsHaveRow, Claimed, Zone
<1>18. CASE Crash
  <2>1. torn' \in BOOLEAN
    BY <1>0, <1>18 DEF Crash, TypeOK
  <2> QED
    BY <1>0, <1>18, <2>1, FaultTyped DEF Crash, End, Inv, TypeOK, UnitsHaveRow, Claimed
<1>19. CASE Late
  BY <1>0, <1>19, ConstantsAssumption DEF Late, Inv, TypeOK, UnitsHaveRow, Claimed
<1>20. CASE UNCHANGED vars
  BY <1>0, <1>20 DEF vars, Inv, TypeOK, UnitsHaveRow, Claimed
<1> QED
  BY <1>1, <1>2, <1>3, <1>4, <1>5, <1>6, <1>7, <1>8, <1>9, <1>10, <1>11, <1>12, <1>13,
     <1>14, <1>15, <1>16, <1>17, <1>18, <1>19, <1>20
  DEF Next, Claim, Save, SaveIngress

(* Whatever is on the host has a row, whichever operation was ended where, *)
(* unless a script went unanswered (install-ledger.ts:1-19).               *)
THEOREM RowFirst == Spec => []ClaimedFirst
<1>1. Spec => []Inv
  BY InvInit, InvNext, PTL DEF Spec
<1>2. Inv => ClaimedFirst
  BY DEF Inv, ClaimedFirst
<1> QED
  BY <1>1, <1>2, PTL

-----------------------------------------------------------------------------
(* Gated *)

(* A step that writes no route keeps what was acknowledged, and what the   *)
(* operation is to write.                                                  *)
LEMMA GatedKept ==
    ASSUME Gated,
           route' = route \/ route' = Null,
           acknowledged' = acknowledged,
           op' = Null \/ /\ op # Null /\ op'.domain = op.domain /\ op'.gate = op.gate
                         /\ op'.pc \in {"attach", "tls", "cert"} => op.domain
    PROVE Gated'
BY DEF Gated, NakedOnlyAcknowledged

LEMMA GatedNext ==
    ASSUME Inv, Gated, [Next]_vars
    PROVE Gated'
<1> USE DEF At, host, history
<1>0. TypeOK /\ (op # Null => op \in Operation)
  BY DEF Inv, TypeOK
<1>1. ASSUME NEW v \in Versions, Deploy(v) PROVE Gated'
  <2>1. CASE Begin("deploy", v, "claim", FALSE, FALSE) /\ UNCHANGED acknowledged
    <3>1. op'.domain = FALSE /\ op'.pc = "claim"
      BY <2>1 DEF Begin
    <3> QED
      BY <1>1, <2>1, <3>1 DEF Deploy, Gated, NakedOnlyAcknowledged
  <2>2. ASSUME NEW intent \in {"basic", "none", "unset"}, NEW gate \in Gate(intent, row),
               Begin("deploy", v, "claim", TRUE, gate),
               acknowledged' = (acknowledged \/ intent = "none")
        PROVE Gated'
    <3>1. op'.gate = gate /\ op'.pc = "claim"
      BY <2>2 DEF Begin
    <3>2. Naked /\ ~gate => intent = "none"
      BY <2>2 DEF Gate
    <3>3. route' = route
      BY <1>1 DEF Deploy
    <3>4. Naked /\ op'.domain /\ ~op'.gate => acknowledged'
      BY <2>2, <3>1, <3>2
    <3>5. Naked /\ route' # Null /\ ~route'.gate => acknowledged'
      BY <2>2, <3>3 DEF Gated, NakedOnlyAcknowledged
    <3> QED
      BY <3>1, <3>4, <3>5 DEF Gated, NakedOnlyAcknowledged
  <2> QED
    BY <1>1, <2>1, <2>2 DEF Deploy
<1>2. CASE Remove \/ Unexpose
  <2>1. /\ op'.domain = FALSE /\ op'.pc \in {"detach", "removeScript", "unbind"}
        /\ route' = route /\ acknowledged' = acknowledged
    BY <1>2 DEF Remove, Unexpose, Begin
  <2> QED
    BY <2>1 DEF Gated, NakedOnlyAcknowledged
<1>3. CASE Attach
  <2>1. op # Null /\ op \in Operation /\ op.domain /\ acknowledged' = acknowledged
    BY <1>0, <1>3 DEF Attach, Gated
  <2>2. CASE (Goto("saveIngress") \/ End) /\ UNCHANGED <<route, lost, faults>>
    BY <2>1, <2>2, GatedKept, GotoEffect DEF End, Pc
  <2>3. ASSUME NEW tls \in BOOLEAN, NEW next \in {"tls", "cert", "saveIngress"},
               WriteRoute(tls, next)
        PROVE Gated'
    <3>1. route' \in {route, Null, [gate |-> op.gate, tls |-> tls]}
      BY <2>3 DEF WriteRoute
    <3>2. op' = Null \/ (op' # Null /\ op'.domain = op.domain /\ op'.gate = op.gate)
      <4>1. CASE op' = [op EXCEPT !.pc = next, !.tls = tls]
        BY <2>1, <4>1 DEF Operation
      <4> QED
        BY <2>3, <4>1 DEF WriteRoute, End
    <3>3. Naked /\ ~op.gate => acknowledged
      BY <2>1 DEF Gated
    <3>4. [gate |-> op.gate, tls |-> tls].gate = op.gate
      OBVIOUS
    <3>5. Naked /\ route' # Null /\ ~route'.gate => acknowledged'
      <4>1. CASE route' = route \/ route' = Null
        BY <2>1, <4>1 DEF Gated, NakedOnlyAcknowledged
      <4>2. CASE route' = [gate |-> op.gate, tls |-> tls]
        BY <2>1, <3>3, <3>4, <4>2
      <4> QED
        BY <3>1, <4>1, <4>2
    <3>6. Naked /\ op' # Null /\ op'.domain /\ ~op'.gate => acknowledged'
      BY <2>1, <3>2, <3>3
    <3>7. op' # Null => op'.domain
      BY <2>1, <3>2
    <3> QED
      BY <3>5, <3>6, <3>7 DEF Gated, NakedOnlyAcknowledged
  <2> QED
    BY <1>3, <2>2, <2>3 DEF Attach
<1>4. CASE Claim \/ Save \/ SaveIngress
  BY <1>0, <1>4, GatedKept, GotoEffect DEF Claim, Save, SaveIngress, End, Pc
<1>5. CASE Record
  <2>1. op # Null /\ op \in Operation
    BY <1>0, <1>5 DEF Record
  <2>2. /\ op'.pc \in {"probe", "revert"} /\ op'.domain = op.domain /\ op'.gate = op.gate
    BY <1>5, <2>1 DEF Record, Ensure, Goto, Operation
  <2> QED
    BY <1>5, <2>1, <2>2, GatedKept DEF Record
<1>6. CASE Probe
  <2>1. op # Null /\ op \in Operation
    BY <1>0, <1>6 DEF Probe
  <2>2. PICK probed \in BOOLEAN, pre \in SUBSET Data :
           op' = [op EXCEPT !.probed = probed, !.pre = pre,
                            !.pc = IF op.domain THEN "up" ELSE "pull"]
    BY <1>0, <1>6 DEF Probe, TypeOK
  <2>3. /\ op'.pc \in {"up", "pull"} /\ op'.domain = op.domain /\ op'.gate = op.gate
    BY <2>1, <2>2 DEF Operation
  <2> QED
    BY <1>6, <2>1, <2>3, GatedKept DEF Probe
<1>7. CASE Smoke
  <2>1. op # Null /\ op \in Operation
    BY <1>0, <1>7 DEF Smoke
  <2>2. /\ op'.pc \in {"save", "rollback", "discard"}
        /\ op'.domain = op.domain /\ op'.gate = op.gate
    BY <1>7, <2>1 DEF Smoke, Goto, Operation
  <2> QED
    BY <1>7, <2>1, <2>2, GatedKept DEF Smoke
<1>8. CASE Prepare \/ Script \/ Rollback \/ Discard \/ Unbind
  BY <1>0, <1>8, GatedKept, GotoEffect DEF Prepare, Script, Rollback, Discard, Unbind, Pc
<1>9. CASE Detach \/ DropRecord
  BY <1>0, <1>9, GatedKept, GotoEffect DEF Detach, DropRecord, AfterDetach, Pc
<1>10. CASE RemoveScript
  <2>1. op # Null /\ op \in Operation
    BY <1>0, <1>10 DEF RemoveScript
  <2>2. op'.pc = "dropRow" /\ op'.domain = op.domain /\ op'.gate = op.gate
    BY <1>10, <2>1 DEF RemoveScript, Operation
  <2> QED
    BY <1>10, <2>1, <2>2, GatedKept DEF RemoveScript
<1>11. CASE Revert \/ Finish \/ Crash
  BY <1>11, GatedKept DEF Revert, Finish, Crash, End
<1>12. CASE Publish \/ Late \/ UNCHANGED vars
  BY <1>12 DEF Publish, Late, vars, Gated, NakedOnlyAcknowledged
<1> QED
  BY <1>1, <1>2, <1>3, <1>4, <1>5, <1>6, <1>7, <1>8, <1>9, <1>10, <1>11, <1>12 DEF Next

(* The gate, or somebody's word that it may be left off, comes before the  *)
(* first byte of a route, for every install, retry and redeploy            *)
(* (ingress-auth.ts:104-133).                                              *)
THEOREM NakedIsAcknowledged == Spec => []NakedOnlyAcknowledged
<1>1. Init => Gated
  BY DEF Init, Gated, NakedOnlyAcknowledged
<1>2. Gated => NakedOnlyAcknowledged
  BY DEF Gated
<1> QED
  BY <1>1, <1>2, InvInit, InvNext, GatedNext, PTL DEF Spec

-----------------------------------------------------------------------------
(* Spared *)

LEMMA SparedNext ==
    ASSUME Inv, Spared, [Next]_vars
    PROVE Spared'
<1> USE DEF At, host, history
<1>0. TypeOK /\ (op # Null => op \in Operation)
  BY DEF Inv, TypeOK
<1>1. ASSUME NEW v \in Versions, Deploy(v) PROVE Spared'
  <2>1. PICK domain \in BOOLEAN, gate \in BOOLEAN : Begin("deploy", v, "claim", domain, gate)
    BY <1>1 DEF Deploy, Gate
  <2>2. op'.kind = "deploy" /\ op'.pc = "claim" /\ op'.probed = FALSE /\ op'.found.data = data
    BY <2>1 DEF Begin
  <2> QED
    BY <1>1, <2>2 DEF Deploy, Spared, Ahead
<1>2. CASE Remove \/ Unexpose
  <2>1. /\ op'.pc \in {"detach", "removeScript", "unbind"}
        /\ op'.pc = "removeScript" => op'.kind = "remove"
    BY <1>2 DEF Remove, Unexpose, Begin
  <2> QED
    BY <2>1 DEF Spared, Ahead
<1>3. CASE Claim
  <2>1. op # Null /\ op \in Operation /\ op.pc = "claim"
    BY <1>0, <1>3 DEF Claim
  <2>2. /\ op' # Null /\ op'.kind = op.kind /\ op'.units = op.units /\ op'.probed = op.probed
        /\ op'.pre = op.pre /\ op'.found = op.found /\ op'.pc \in {"record", "probe"}
    BY <1>3, <2>1, GotoEffect DEF Claim, Pc
  <2> QED
    BY <1>3, <2>1, <2>2 DEF Claim, Spared, Ahead
<1>4. CASE Record
  <2>1. op # Null /\ op \in Operation /\ op.pc = "record"
    BY <1>0, <1>4 DEF Record
  <2>2. /\ op'.kind = op.kind /\ op'.units = op.units /\ op'.probed = op.probed
        /\ op'.pre = op.pre /\ op'.found = op.found /\ op'.pc \in {"probe", "revert"}
    BY <1>4, <2>1 DEF Record, Ensure, Goto, Operation
  <2> QED
    BY <1>4, <2>1, <2>2 DEF Record, Spared, Ahead
<1>5. CASE Probe
  <2>1. op # Null /\ op \in Operation /\ op.pc = "probe"
    BY <1>0, <1>5 DEF Probe
  <2>2. PICK probed \in BOOLEAN, pre \in SUBSET Data :
           /\ op' = [op EXCEPT !.probed = probed, !.pre = pre,
                               !.pc = IF op.domain THEN "up" ELSE "pull"]
           /\ probed => pre = data \cap Needs[op.units]
    BY <1>0, <1>5, ZenonT(60) DEF Probe, TypeOK
  <2>3. /\ op'.kind = op.kind /\ op'.units = op.units /\ op'.probed = probed
        /\ op'.pre = pre /\ op'.found = op.found /\ op'.pc \in {"up", "pull"}
    BY <2>1, <2>2 DEF Operation
  <2> QED
    BY <1>5, <2>1, <2>2, <2>3 DEF Probe, Spared, Ahead
<1>6. CASE Prepare
  <2>1. op # Null /\ op \in Operation /\ op.pc \in {"up", "pull"}
    BY <1>0, <1>6 DEF Prepare
  <2>2. /\ op'.kind = op.kind /\ op'.units = op.units /\ op'.probed = op.probed
        /\ op'.pre = op.pre /\ op'.found = op.found
        /\ op'.pc \in {"pull", "script", "discard"}
    BY <1>6, <2>1, GotoEffect DEF Prepare, Pc
  <2> QED
    BY <1>6, <2>1, <2>2 DEF Prepare, Spared, Ahead
<1>7. CASE Script
  <2>1. op # Null /\ op \in Operation /\ op.pc = "script"
    BY <1>0, <1>7 DEF Script
  <2>2. /\ op'.kind = op.kind /\ op'.units = op.units /\ op'.probed = op.probed
        /\ op'.pre = op.pre /\ op'.found = op.found /\ op'.pc \in {"smoke", "rollback"}
    BY <1>7, <2>1, GotoEffect DEF Script, Pc
  <2>3. data \subseteq data'
    BY <1>7 DEF Script
  <2> QED
    BY <2>1, <2>2, <2>3 DEF Spared, Ahead
<1>8. CASE Smoke
  <2>1. op # Null /\ op \in Operation /\ op.pc = "smoke"
    BY <1>0, <1>8 DEF Smoke
  <2>2. /\ op'.kind = op.kind /\ op'.units = op.units /\ op'.probed = op.probed
        /\ op'.pre = op.pre /\ op'.found = op.found
        /\ op'.pc \in {"save", "rollback", "discard"}
    BY <1>8, <2>1 DEF Smoke, Goto, Operation
  <2> QED
    BY <1>8, <2>1, <2>2 DEF Smoke, Spared, Ahead
<1>9. CASE Rollback \/ Discard \/ Save \/ Unbind
  BY <1>0, <1>9, GotoEffect DEF Rollback, Discard, Save, Unbind, End, Spared, Ahead, Pc
<1>10. CASE Attach
  <2>1. op # Null /\ op \in Operation
    BY <1>0, <1>10 DEF Attach
  <2>2. op' = Null \/ op'.pc \in {"tls", "cert", "saveIngress"}
    <3>1. ASSUME NEW tls \in BOOLEAN, NEW next \in {"tls", "cert", "saveIngress"},
                 op' = [op EXCEPT !.pc = next, !.tls = tls]
          PROVE op'.pc = next
      BY <2>1, <3>1 DEF Operation
    <3>2. CASE Goto("saveIngress")
      BY <2>1, <3>2, GotoEffect DEF Pc
    <3> QED
      BY <1>10, <3>1, <3>2 DEF Attach, WriteRoute, End
  <2> QED
    BY <2>2 DEF Spared, Ahead
<1>11. CASE Detach \/ DropRecord
  <2>1. op # Null /\ op \in Operation
    BY <1>0, <1>11 DEF Detach, DropRecord
  <2>2. /\ op'.pc \in {"dropRecord", "removeScript", "clear"} /\ op'.kind = op.kind
        /\ op'.pc = "removeScript" => op.kind = "remove"
    BY <1>11, <2>1, GotoEffect DEF Detach, DropRecord, AfterDetach, Pc
  <2> QED
    BY <2>2 DEF Spared, Ahead
<1>12. CASE RemoveScript
  <2>1. op # Null /\ op \in Operation
    BY <1>0, <1>12 DEF RemoveScript
  <2>2. op'.pc = "dropRow"
    BY <1>12, <2>1 DEF RemoveScript, Operation
  <2> QED
    BY <2>2 DEF Spared, Ahead
<1>13. CASE Revert \/ SaveIngress \/ Finish \/ Crash
  BY <1>13 DEF Revert, SaveIngress, Finish, Crash, End, Spared
<1>14. CASE Late
  BY <1>14 DEF Late, Spared
<1>15. CASE Publish \/ UNCHANGED vars
  BY <1>15 DEF Publish, vars, Spared
<1> QED
  BY <1>1, <1>2, <1>3, <1>4, <1>5, <1>6, <1>7, <1>8, <1>9, <1>10, <1>11, <1>12, <1>13,
     <1>14, <1>15 DEF Next

(* Only a rollback and a removal take data away, and the rollback takes    *)
(* away only what its run created.                                         *)
LEMMA SparedStep ==
    ASSUME Inv, Spared, [Next]_vars, NEW d \in data \ data'
    PROVE \/ op.kind = "remove" /\ op'.purge
          \/ op.kind = "deploy" /\ d \notin op.found.data
<1> USE DEF At, host, history
<1>1. CASE RemoveScript
  <2>1. op # Null /\ op \in Operation /\ op.kind = "remove"
    BY <1>1 DEF RemoveScript, Inv, TypeOK, Spared
  <2>2. PICK purge \in BOOLEAN :
          /\ op' = [op EXCEPT !.purge = purge, !.pc = "dropRow"]
          /\ d \in IF purge THEN Needs[op.prev.units] ELSE {}
    BY <1>1 DEF RemoveScript
  <2>3. op'.purge = purge /\ purge
    BY <2>1, <2>2 DEF Operation
  <2> QED
    BY <2>1, <2>3
<1>2. CASE Rollback
  <2>1. op # Null /\ op \in Operation /\ op.kind = "deploy" /\ op.pc = "rollback"
    BY <1>2 DEF Rollback, Inv, TypeOK, Spared, Ahead
  <2>2. d \in IF Baseline(op.prev) THEN {} ELSE Created
    BY <1>2 DEF Rollback
  <2>3. op.probed /\ d \in Needs[op.units] /\ d \notin op.pre
    BY <2>2 DEF Created
  <2> QED
    BY <2>1, <2>3 DEF Spared, Ahead
<1>3. CASE Script \/ Late
  BY <1>3 DEF Script, Late
<1>4. CASE data' = data
  BY <1>4
<1>5. RemoveScript \/ Rollback \/ Script \/ Late \/ data' = data
  BY DEF Next, Deploy, Remove, Unexpose, Claim, Record, Probe, Prepare, Smoke, Discard, Revert,
         Save, Attach, SaveIngress, Unbind, Detach, DropRecord, Finish, Publish, Crash, vars
<1> QED
  BY <1>1, <1>2, <1>3, <1>4, <1>5

(* The data guard and the rollback together: whatever fails, is lost or is *)
(* retried, a run takes away only data it created itself, and a removal    *)
(* only where it was told to purge (app-data-guard.ts:54-67).              *)
THEOREM DataOutlivesFailure == Spec => DataKept
<1>1. Init => Spared
  BY DEF Init, Spared
<1>2. Inv /\ Spared /\ [Next]_vars =>
        [\A d \in data \ data' :
            \/ op.kind = "remove" /\ op'.purge
            \/ op.kind = "deploy" /\ d \notin op.found.data]_vars
  BY SparedStep
<1> QED
  BY <1>1, <1>2, InvInit, InvNext, SparedNext, PTL DEF Spec, DataKept

-----------------------------------------------------------------------------
(* Truthful *)

(* A step of an operation that leaves row, units and route alone, and goes *)
(* where no more is asked.                                                 *)
LEMMA TruthfulKept ==
    ASSUME Truthful, op # Null, op' # Null,
           UNCHANGED <<row, units, route, proven>>,
           lost => lost', torn => torn',
           op'.prev = op.prev, op'.units = op.units, op'.kind = op.kind,
           op'.gate = op.gate, op'.tls = op.tls, op'.left = op.left,
           op'.pc \in Before => op.pc \in Before,
           op'.pc \in Failing => op.pc \in Before \cup Failing,
           op'.pc \in {"smoke", "rollback"} => op.pc = "smoke",
           op'.pc \in Unconfirmed => op.pc \in Unconfirmed \ {"claim"},
           op'.pc \notin {"save", "attach"},
           op'.pc \in Routing => op.pc \in Routing \ {"attach"},
           op'.pc \in Teardown => op.pc \in Teardown \ {"dropRow"}
    PROVE Truthful'
<1> SUFFICES ASSUME ~lost, ~torn PROVE Truthful'
  BY DEF Truthful
<1>1. /\ UnitsTrue(op.prev) => UnitsTrue(op.prev)'
      /\ RouteTrue(op.prev) => RouteTrue(op.prev)'
  BY DEF UnitsTrue, RouteTrue
<1> QED
  BY <1>1 DEF Truthful, Before, Failing, Unconfirmed, Untouched, Routing, Teardown

(* What is left when an operation ends.                                    *)
LEMMA TruthfulEnd ==
    ASSUME op' = Null, ~lost' /\ ~torn' => UnitsTrue(row)' /\ RouteTrue(row)'
    PROVE Truthful'
BY DEF Truthful

LEMMA TruthfulNext ==
    ASSUME Inv, Truthful, [Next]_vars
    PROVE Truthful'
<1> USE DEF At, host, history
<1>0. TypeOK /\ Claimed /\ (op # Null => op \in Operation)
  BY DEF Inv, TypeOK
<1> DEFINE Clear == ~lost /\ ~torn
<1>1. ASSUME NEW v \in Versions, Deploy(v) PROVE Truthful'
  <2>1. PICK domain \in BOOLEAN, gate \in BOOLEAN : Begin("deploy", v, "claim", domain, gate)
    BY <1>1 DEF Deploy, Gate
  <2>2. op' # Null /\ op'.pc = "claim" /\ op'.kind = "deploy" /\ op'.prev = row
    BY <1>0, <1>1, DeployEffect
  <2>3. op = Null /\ UNCHANGED <<row, units, route, proven, lost, torn>>
    BY <1>1 DEF Deploy
  <2>4. ~lost' /\ ~torn' => UnitsTrue(op.prev)' /\ RouteTrue(op.prev)'
    BY <2>2, <2>3 DEF Truthful, UnitsTrue, RouteTrue
  <2> QED
    BY <2>2, <2>4 DEF Truthful, Before, Failing, Unconfirmed, Untouched, Routing, Teardown
<1>2. ASSUME Remove \/ Unexpose PROVE Truthful'
  <2>1. row \in Install /\ row.units \in Versions /\ op = Null
    BY <1>0, <1>2 DEF Remove, Unexpose, TypeOK, Install
  <2>2. /\ op' # Null /\ op'.prev = row /\ op'.kind # "deploy"
        /\ op'.pc \in {"detach", "removeScript", "unbind"}
    BY <1>0, <1>2, <2>1, BeginEffect DEF Remove, Unexpose, Pc
  <2>3. UNCHANGED <<row, units, route, proven, lost, torn>>
    BY <1>2 DEF Remove, Unexpose
  <2>4. ~lost' /\ ~torn' => UnitsTrue(op.prev)'
    BY <2>1, <2>2, <2>3 DEF Truthful, UnitsTrue
  <2> QED
    BY <2>2, <2>4 DEF Truthful, Before, Failing, Unconfirmed, Untouched, Routing, Teardown
<1>3. CASE Claim
  <2>1. op \in Operation /\ op # Null /\ op.pc = "claim" /\ op.units \in Versions
    BY <1>0, <1>3 DEF Claim, Operation
  <2>2. /\ op' # Null /\ op'.pc \in {"record", "probe"}
        /\ op'.prev = op.prev /\ op'.kind = op.kind
    BY <1>3, <2>1, GotoEffect DEF Claim, Pc
  <2>3. row'.status = "installing" /\ row'.ingress = Null
    BY <1>3 DEF Claim
  <2>4. UNCHANGED <<units, route, proven, lost, torn>>
    BY <1>3 DEF Claim
  <2>5. ~lost' /\ ~torn' => UnitsTrue(op.prev)' /\ RouteTrue(op.prev)'
    BY <2>1, <2>2, <2>4 DEF Truthful, Before, UnitsTrue, RouteTrue
  <2> QED
    BY <2>2, <2>3, <2>5 DEF Truthful, Before, Failing, Unconfirmed, Untouched, Routing, Teardown
<1>4. CASE Record
  <2>1. op \in Operation /\ op # Null /\ op.pc = "record"
    BY <1>0, <1>4 DEF Record
  <2>2. /\ op' # Null /\ op'.prev = op.prev /\ op'.units = op.units /\ op'.kind = op.kind
        /\ op'.gate = op.gate /\ op'.tls = op.tls /\ op'.left = op.left
        /\ op'.pc \in {"probe", "revert"}
    <3>1. Goto("revert") \/ \E ensured \in Ensured : Ensure(ensured)
    BY <1>4 DEF Record, Ensured
    <3>2. CASE Goto("revert")
    BY <2>1, <3>2, GotoEffect DEF Pc
    <3>3. ASSUME NEW ensured \in Ensured, Ensure(ensured)
        PROVE /\ op' \in Operation /\ op'.pc = "probe"
              /\ op'.prev = op.prev /\ op'.units = op.units /\ op'.kind = op.kind
              /\ op'.gate = op.gate /\ op'.tls = op.tls /\ op'.left = op.left
    BY <2>1, <3>3 DEF Ensure, Operation, Pc
    <3> QED
    BY <3>1, <3>2, <3>3, NullAssumption
  <2>3. UNCHANGED <<row, units, route, proven, lost, torn>>
    BY <1>4 DEF Record
  <2> QED
    BY <2>1, <2>2, <2>3, TruthfulKept
    DEF Before, Failing, Unconfirmed, Untouched, Routing, Teardown
<1>5. CASE Probe
  <2>1. op \in Operation /\ op # Null /\ op.pc = "probe"
    BY <1>0, <1>5 DEF Probe
  <2>2. PICK probed \in BOOLEAN, pre \in SUBSET Data :
           op' = [op EXCEPT !.probed = probed, !.pre = pre,
                            !.pc = IF op.domain THEN "up" ELSE "pull"]
    BY <1>0, <1>5 DEF Probe, TypeOK
  <2>3. /\ op' \in Operation
        /\ op'.prev = op.prev /\ op'.units = op.units /\ op'.kind = op.kind
        /\ op'.gate = op.gate /\ op'.tls = op.tls /\ op'.left = op.left
        /\ op'.pc \in {"up", "pull"}
    BY <2>1, <2>2 DEF Operation, Pc
  <2>4. op' # Null
    BY <2>3, NullAssumption
  <2>5. UNCHANGED <<row, units, route, proven, torn>> /\ (lost => lost')
    BY <1>5 DEF Probe, LoseAnswer
  <2> QED
    BY <2>1, <2>3, <2>4, <2>5, TruthfulKept
    DEF Before, Failing, Unconfirmed, Untouched, Routing, Teardown
<1>6. CASE Prepare
  <2>1. op \in Operation /\ op # Null /\ op.pc \in {"up", "pull"}
    BY <1>0, <1>6 DEF Prepare
  <2>2. /\ op' # Null /\ op'.prev = op.prev /\ op'.units = op.units /\ op'.kind = op.kind
        /\ op'.gate = op.gate /\ op'.tls = op.tls /\ op'.left = op.left
        /\ op'.pc \in {"pull", "script", "discard"}
    BY <1>6, <2>1, GotoEffect DEF Prepare, Pc
  <2>3. UNCHANGED <<row, units, route, proven, lost, torn>>
    BY <1>6 DEF Prepare
  <2> QED
    BY <2>1, <2>2, <2>3, TruthfulKept
    DEF Before, Failing, Unconfirmed, Untouched, Routing, Teardown
<1>7. CASE Script
  <2>1. op \in Operation /\ op # Null /\ op.pc = "script"
    BY <1>0, <1>7 DEF Script
  <2>2. /\ op' # Null /\ op'.prev = op.prev /\ op'.units = op.units /\ op'.kind = op.kind
        /\ op'.pc \in {"smoke", "rollback"}
        /\ op'.pc = "smoke" => units' = op.units
    BY <1>7, <2>1, GotoEffect DEF Script, Pc
  <2>3. UNCHANGED <<row, route, proven, torn>> /\ (lost => lost')
    BY <1>7 DEF Script, LoseAnswer
  <2>4. Clear => /\ RouteTrue(op.prev)' /\ row'.status = "installing" /\ row'.ingress = Null
                 /\ Baseline(op.prev) => op.prev.units \in proven
    BY <2>1, <2>2, <2>3
    DEF Truthful, Before, Unconfirmed, Untouched, RouteTrue, UnitsTrue, Baseline
  <2>5. Baseline(op.prev)' <=> Baseline(op.prev)
    BY <2>2 DEF Baseline
  <2> QED
    BY <2>2, <2>3, <2>4, <2>5
    DEF Truthful, Before, Failing, Unconfirmed, Untouched, Routing, Teardown
<1>8. CASE Smoke
  <2>1. op \in Operation /\ op # Null /\ op.pc = "smoke" /\ op.units \in Versions
    BY <1>0, <1>8 DEF Smoke, Operation
  <2>2. UNCHANGED <<row, units, route, torn>> /\ (lost => lost') /\ proven \subseteq proven'
    BY <1>8 DEF Smoke, LoseAnswer
  <2>3. Clear => /\ units = op.units /\ row.status = "installing" /\ row.ingress = Null
                 /\ RouteTrue(op.prev)
                 /\ Baseline(op.prev) => op.prev.units \in proven
    BY <2>1 DEF Truthful, Unconfirmed
  <2>4. CASE Goto("save") /\ proven' = proven \cup {op.units}
    <3>1. op' # Null /\ op'.pc = "save" /\ op'.units = op.units
      BY <2>1, <2>4, GotoEffect DEF Pc
    <3> QED
      BY <2>2, <2>3, <2>4, <3>1
      DEF Truthful, Before, Failing, Unconfirmed, Untouched, Routing, Teardown
  <2>5. CASE Goto("rollback")
    <3>1. op' # Null /\ op'.pc = "rollback" /\ op'.prev = op.prev
      BY <2>1, <2>5, GotoEffect DEF Pc
    <3>2. (Baseline(op.prev)' <=> Baseline(op.prev)) /\ (RouteTrue(op.prev) => RouteTrue(op.prev)')
      BY <2>2, <3>1 DEF Baseline, RouteTrue
    <3> QED
      BY <2>2, <2>3, <3>1, <3>2
      DEF Truthful, Before, Failing, Unconfirmed, Untouched, Routing, Teardown
  <2>6. CASE op' = [op EXCEPT !.left = TRUE, !.pc = "discard"]
    <3>1. op' \in Operation /\ op'.pc = "discard" /\ op'.left
      BY <2>1, <2>6 DEF Operation, Pc
    <3>2. op' # Null
      BY <3>1, NullAssumption
    <3> QED
      BY <2>2, <2>3, <3>1, <3>2
      DEF Truthful, Before, Failing, Unconfirmed, Untouched, Routing, Teardown
  <2> QED
    BY <1>8, <2>4, <2>5, <2>6 DEF Smoke
<1>9. CASE Rollback
  <2>1. op \in Operation /\ op # Null /\ op.pc = "rollback"
    BY <1>0, <1>9 DEF Rollback
  <2>2. op' # Null /\ op'.prev = op.prev /\ op'.pc = "discard"
    BY <1>9, <2>1, GotoEffect DEF Rollback, Pc
  <2>3. UNCHANGED <<row, route, proven, torn>> /\ (lost => lost')
    BY <1>9 DEF Rollback, LoseAnswer
  <2>4. Clear => /\ row.status = "installing" /\ row.ingress = Null /\ RouteTrue(op.prev)
                 /\ Baseline(op.prev) => op.prev.units \in proven
    BY <2>1 DEF Truthful, Unconfirmed
  <2>5. ~lost' => (Baseline(op.prev) => units' = op.prev.units)
    BY <1>9 DEF Rollback, LoseAnswer
  <2>6. ~lost' /\ ~torn' => UnitsTrue(op.prev)' /\ RouteTrue(op.prev)'
    BY <2>2, <2>3, <2>4, <2>5 DEF UnitsTrue, RouteTrue, Baseline
  <2> QED
    BY <2>2, <2>3, <2>4, <2>6
    DEF Truthful, Before, Failing, Unconfirmed, Untouched, Routing, Teardown
<1>10. CASE Discard
  <2>1. op \in Operation /\ op # Null /\ op.pc = "discard"
    BY <1>0, <1>10 DEF Discard
  <2>2. /\ op' # Null /\ op'.prev = op.prev /\ op'.units = op.units /\ op'.kind = op.kind
        /\ op'.gate = op.gate /\ op'.tls = op.tls /\ op'.left = op.left
        /\ op'.pc = "revert"
    BY <1>10, <2>1, GotoEffect DEF Discard, Pc
  <2>3. UNCHANGED <<row, units, route, proven, torn>> /\ (lost => lost')
    BY <1>10 DEF Discard, LoseAnswer
  <2> QED
    BY <2>1, <2>2, <2>3, TruthfulKept
    DEF Before, Failing, Unconfirmed, Untouched, Routing, Teardown
<1>11. CASE Revert
  <2>1. op # Null /\ op.pc = "revert" /\ op' = Null
    BY <1>11 DEF Revert, End
  <2>2. UNCHANGED <<units, route, proven, lost, torn>>
    BY <1>11 DEF Revert
  <2>3. row' = IF op.left THEN row ELSE op.prev
    BY <1>11 DEF Revert
  <2>4. Clear => /\ row.status = "installing" /\ row.ingress = Null
                 /\ ~op.left => UnitsTrue(op.prev) /\ RouteTrue(op.prev)
    BY <2>1 DEF Truthful, Unconfirmed, Untouched, Failing
  <2> QED
    BY <2>1, <2>2, <2>3, <2>4, TruthfulEnd DEF UnitsTrue, RouteTrue
<1>12. CASE Save
  <2>1. op \in Operation /\ op # Null /\ op.pc = "save"
    BY <1>0, <1>12 DEF Save
  <2>2. /\ row'.status = "deployed" /\ row'.units = op.units /\ row'.ingress = Null
        /\ UNCHANGED <<units, route, proven, lost, torn>>
    BY <1>12 DEF Save
  <2>3. Clear => units = op.units /\ op.units \in proven
    BY <2>1 DEF Truthful
  <2>4. CASE End
    BY <2>2, <2>3, <2>4, TruthfulEnd DEF End, UnitsTrue, RouteTrue
  <2>5. CASE Goto("attach")
    <3>1. op' # Null /\ op'.pc = "attach" /\ op'.units = op.units
      BY <2>1, <2>5, GotoEffect DEF Pc
    <3> QED
      BY <2>2, <2>3, <3>1
      DEF Truthful, Before, Failing, Unconfirmed, Untouched, Routing, Teardown
  <2> QED
    BY <1>12, <2>4, <2>5 DEF Save
<1>13. CASE Attach
  <2>1. op \in Operation /\ op # Null /\ op.pc \in {"attach", "tls", "cert"}
    BY <1>0, <1>13 DEF Attach
  <2>2. UNCHANGED <<row, units, proven, torn>> /\ (lost => lost')
    BY <1>13 DEF Attach, WriteRoute, LoseAnswer
  <2>3. Clear => /\ row.status = "deployed" /\ row.ingress = Null
                 /\ units = row.units /\ row.units = op.units /\ op.units \in proven
    BY <2>1 DEF Truthful, Routing
  <2>4. CASE op' = Null
    BY <2>2, <2>3, <2>4, TruthfulEnd DEF UnitsTrue, RouteTrue
  <2>5. CASE Goto("saveIngress") /\ UNCHANGED <<route, lost, faults>> /\ op.pc \in {"tls", "cert"}
    <3>1. /\ op' # Null /\ op'.prev = op.prev /\ op'.units = op.units /\ op'.kind = op.kind
          /\ op'.gate = op.gate /\ op'.tls = op.tls /\ op'.left = op.left
          /\ op'.pc = "saveIngress"
      BY <2>1, <2>5, GotoEffect DEF Pc
    <3> QED
      BY <2>1, <2>2, <2>5, <3>1, TruthfulKept
      DEF Before, Failing, Unconfirmed, Untouched, Routing, Teardown
  <2>6. ASSUME NEW tls \in BOOLEAN, NEW next \in {"tls", "cert", "saveIngress"},
               op' = [op EXCEPT !.pc = next, !.tls = tls],
               route' = [gate |-> op.gate, tls |-> tls]
        PROVE Truthful'
    <3>1. /\ op' \in Operation
          /\ op'.pc = next /\ op'.tls = tls /\ op'.gate = op.gate /\ op'.units = op.units
      BY <2>1, <2>6 DEF Operation, Pc
    <3>2. op' # Null
      BY <3>1, NullAssumption
    <3> QED
      BY <2>2, <2>3, <2>6, <3>1, <3>2
      DEF Truthful, Before, Failing, Unconfirmed, Untouched, Routing, Teardown
  <2> QED
    BY <1>13, <2>4, <2>5, <2>6 DEF Attach, WriteRoute, End
<1>14. CASE SaveIngress
  <2>1. op \in Operation /\ op # Null /\ op.pc = "saveIngress" /\ op' = Null
    BY <1>0, <1>14 DEF SaveIngress, End
  <2>2. /\ row'.status = "deployed" /\ row'.units = op.units
        /\ row'.ingress.gate = op.gate /\ row'.ingress.tls = op.tls
        /\ UNCHANGED <<units, route, proven, lost, torn>>
    BY <1>14 DEF SaveIngress
  <2>3. Clear => /\ units = op.units /\ op.units \in proven
                 /\ route = [gate |-> op.gate, tls |-> op.tls]
    BY <2>1 DEF Truthful, Routing
  <2> QED
    BY <2>1, <2>2, <2>3, TruthfulEnd DEF UnitsTrue, RouteTrue
<1>15. CASE Unbind
  <2>1. op \in Operation /\ op # Null /\ op.pc = "unbind"
    BY <1>0, <1>15 DEF Unbind
  <2>2. /\ op' # Null /\ op'.prev = op.prev /\ op'.kind = op.kind /\ op'.pc = "detach"
    BY <1>15, <2>1, GotoEffect DEF Unbind, Pc
  <2>3. UNCHANGED <<proven, torn>> /\ (lost => lost') /\ (~lost' => units' = op.prev.units)
    BY <1>15 DEF Unbind, LoseAnswer
  <2>4. Clear => op.kind # "deploy" /\ UnitsTrue(op.prev)
    BY <2>1 DEF Truthful, Teardown
  <2>5. ~lost' /\ ~torn' => UnitsTrue(op.prev)'
    BY <2>2, <2>3, <2>4 DEF UnitsTrue
  <2> QED
    BY <2>2, <2>3, <2>4, <2>5
    DEF Truthful, Before, Failing, Unconfirmed, Untouched, Routing, Teardown
<1>16. CASE Detach \/ DropRecord
  <2>1. op \in Operation /\ op # Null /\ op.pc \in {"detach", "dropRecord"}
    BY <1>0, <1>16 DEF Detach, DropRecord
  <2>2. /\ op' # Null /\ op'.prev = op.prev /\ op'.kind = op.kind
        /\ op'.pc \in {"dropRecord", "removeScript", "clear"}
    BY <1>16, <2>1, GotoEffect DEF Detach, DropRecord, AfterDetach, Pc
  <2>3. UNCHANGED <<units, proven, torn>> /\ (lost => lost')
    BY <1>16 DEF Detach, DropRecord, LoseAnswer
  <2>4. Clear => op.kind # "deploy" /\ UnitsTrue(op.prev)
    BY <2>1 DEF Truthful, Teardown
  <2>5. ~lost' /\ ~torn' => UnitsTrue(op.prev)'
    BY <2>2, <2>3, <2>4 DEF UnitsTrue
  <2> QED
    BY <2>2, <2>3, <2>4, <2>5
    DEF Truthful, Before, Failing, Unconfirmed, Untouched, Routing, Teardown
<1>17. CASE RemoveScript
  <2>1. op \in Operation /\ op # Null /\ op.pc = "removeScript"
    BY <1>0, <1>17 DEF RemoveScript
  <2>2. op' \in Operation /\ op'.pc = "dropRow" /\ op'.kind = op.kind
    <3>1. PICK purge \in BOOLEAN : op' = [op EXCEPT !.purge = purge, !.pc = "dropRow"]
      BY <1>17 DEF RemoveScript
    <3> QED
      BY <2>1, <3>1 DEF Operation, Pc
  <2>3. UNCHANGED torn /\ (lost => lost')
    BY <1>17 DEF RemoveScript, LoseAnswer
  <2>4. Clear => op.kind # "deploy"
    BY <2>1 DEF Truthful, Teardown
  <2>5. op' # Null
    BY <2>2, NullAssumption
  <2> QED
    BY <2>2, <2>3, <2>4, <2>5
    DEF Truthful, Before, Failing, Unconfirmed, Untouched, Routing, Teardown
<1>18. CASE Finish
  <2>1. op # Null /\ op.pc \in {"dropRow", "clear"} /\ op' = Null /\ op.prev # Null
    BY <1>0, <1>18 DEF Finish, End, Claimed, Teardown
  <2>2. UNCHANGED <<units, route, proven, lost, torn>>
    BY <1>18 DEF Finish
  <2>3. CASE row' = Null
    BY <2>1, <2>3, TruthfulEnd DEF UnitsTrue, RouteTrue
  <2>4. CASE op.pc = "clear" /\ row' = [op.prev EXCEPT !.ingress = Null]
    <3>1. op.prev \in Install
      BY <1>0, <2>1 DEF Operation
    <3>2. row'.status = op.prev.status /\ row'.units = op.prev.units /\ row'.ingress = Null
      BY <2>4, <3>1 DEF Install
    <3>3. Clear => UnitsTrue(op.prev)
      BY <2>1, <2>4 DEF Truthful, Teardown
    <3> QED
      BY <2>1, <2>2, <3>2, <3>3, TruthfulEnd DEF UnitsTrue, RouteTrue
  <2> QED
    BY <1>18, <2>3, <2>4 DEF Finish
<1>19. CASE Crash
  <2>1. op # Null /\ op' = Null /\ torn' = (torn \/ op.kind # "deploy")
        /\ UNCHANGED <<row, units, route, proven, lost>>
    BY <1>19 DEF Crash, End
  <2>2. op \in Operation /\ (op.pc = "claim" => op.prev = row)
    BY <1>0, <2>1 DEF Claimed
  <2>3. Clear /\ op.kind = "deploy" =>
          \/ UnitsTrue(row) /\ RouteTrue(row)
          \/ row.status = "installing" /\ row.ingress = Null
          \/ row.status = "deployed" /\ row.ingress = Null /\ units = row.units /\ row.units \in proven
    BY <2>1, <2>2 DEF Truthful, Operation, Pc, Before, Unconfirmed, Untouched, Routing, Teardown
  <2> QED
    BY <2>1, <2>3, TruthfulEnd DEF UnitsTrue, RouteTrue
<1>20. CASE Publish
  BY <1>20 DEF Publish, Truthful, UnitsTrue, RouteTrue
<1>21. CASE Late
  BY <1>0, <1>21 DEF Late, Claimed, Truthful
<1>22. CASE UNCHANGED vars
  BY <1>22 DEF vars, Truthful, UnitsTrue, RouteTrue
<1> QED
  BY <1>1, <1>2, <1>3, <1>4, <1>5, <1>6, <1>7, <1>8, <1>9, <1>10, <1>11, <1>12, <1>13,
     <1>14, <1>15, <1>16, <1>17, <1>18, <1>19, <1>20, <1>21, <1>22 DEF Next

(* The row of an app can be believed: where nothing was lost and no removal was *)
(* ended half way, an app that is deployed runs the units of its row, which     *)
(* passed their test, and an exposed one has the route its row names, however   *)
(* many runs failed or were ended before (vops-apps.service.ts:270-281).        *)
THEOREM RowsAreTrue == Spec => []RowIsTrue
<1>1. Init => Truthful
  BY DEF Init, Truthful, UnitsTrue, RouteTrue
<1>2. Truthful => RowIsTrue
  BY DEF Truthful, RowIsTrue, UnitsTrue, RouteTrue
<1> QED
  BY <1>1, <1>2, InvInit, InvNext, TruthfulNext, PTL DEF Spec
-----------------------------------------------------------------------------
(* Restoring *)

(* A step that takes the operation to where nothing has to be put back.    *)
LEMMA RestoringLeft ==
    ASSUME op' # Null => op'.pc \notin Ahead \cup Failing
    PROVE Restoring'
BY DEF Restoring

LEMMA RestoringNext ==
    ASSUME Inv, Spared, Truthful, Restoring, [Next]_vars
    PROVE Restoring'
<1> USE DEF At, host, history
<1>0. TypeOK /\ Claimed /\ UnitsHaveRow /\ (op # Null => op \in Operation)
  BY DEF Inv, TypeOK
<1>1. ASSUME NEW v \in Versions, Deploy(v) PROVE Restoring'
  <2>1. PICK domain \in BOOLEAN, gate \in BOOLEAN : Begin("deploy", v, "claim", domain, gate)
    BY <1>1 DEF Deploy, Gate
  <2>2. op' # Null /\ op'.pc = "claim" /\ op'.prev = row
    BY <1>0, <1>1, DeployEffect
  <2>3. /\ op'.record = "none"
        /\ op'.found.units = units /\ op'.found.data = data /\ op'.found.route = route
        /\ zone = "ours" => op'.found.named
    BY <2>1 DEF Begin
  <2>4. op = Null /\ UNCHANGED <<row, units, data, zone, route, lost, torn>>
    BY <1>1 DEF Deploy
  <2>5. ~lost /\ ~torn => /\ row = Null => units = Null
                          /\ Baseline(row) => units = row.units
    BY <1>0, <2>4 DEF UnitsHaveRow, Truthful, UnitsTrue, Baseline
  <2>6. ~lost' /\ ~torn' => /\ op'.prev = Null => op'.found.units = Null
                            /\ Baseline(op'.prev) => op'.found.units = op'.prev.units
    BY <2>2, <2>3, <2>4, <2>5
  <2> QED
    BY <2>2, <2>3, <2>4, <2>6 DEF Restoring, Ahead, Failing, Before
<1>2. CASE Remove \/ Unexpose
  <2>1. row \in Install /\ row.units \in Versions
    BY <1>0, <1>2 DEF Remove, Unexpose, TypeOK, Install
  <2>2. op'.pc \in {"detach", "removeScript", "unbind"}
    BY <1>0, <1>2, <2>1, BeginEffect DEF Remove, Unexpose, Pc
  <2> QED
    BY <2>2, RestoringLeft DEF Ahead, Failing
<1>3. CASE Claim
  <2>1. op \in Operation /\ op # Null /\ op.pc = "claim"
    BY <1>0, <1>3 DEF Claim
  <2>2. /\ op' # Null /\ op'.pc \in {"record", "probe"} /\ op'.prev = op.prev
        /\ op'.found = op.found /\ op'.record = op.record
    BY <1>3, <2>1, GotoEffect DEF Claim, Pc
  <2>3. UNCHANGED <<units, data, zone, route, lost, torn>>
    BY <1>3 DEF Claim
  <2> QED
    BY <2>1, <2>2, <2>3 DEF Restoring, Ahead, Failing, Before, Baseline
<1>4. CASE Record
  <2>1. op \in Operation /\ op # Null /\ op.pc = "record"
    BY <1>0, <1>4 DEF Record
  <2>2. UNCHANGED <<units, data, route, lost, torn>>
    BY <1>4 DEF Record
  <2>3. CASE Goto("revert") /\ zone' # "ours"
    <3>1. op' # Null /\ op'.pc = "revert" /\ op'.prev = op.prev /\ op'.found = op.found
      BY <2>1, <2>3, GotoEffect DEF Pc
    <3> QED
      BY <2>1, <2>2, <2>3, <3>1 DEF Restoring, Ahead, Failing, Before, Baseline
  <2>4. ASSUME NEW ensured \in Ensured, Ensure(ensured),
               \/ zone' = "ours" /\ ensured \in {"created", "repointed"}
               \/ UNCHANGED zone
        PROVE Restoring'
    <3>1. /\ op' \in Operation /\ op'.pc = "probe" /\ op'.record = ensured
          /\ op'.prev = op.prev /\ op'.found = op.found
      BY <2>1, <2>4 DEF Ensure, Operation, Pc
    <3> QED
      BY <2>1, <2>2, <2>4, <3>1, NullAssumption
      DEF Restoring, Ahead, Failing, Before, Baseline
  <2>5. \/ Goto("revert") /\ zone' # "ours"
        \/ \E ensured \in Ensured :
              /\ Ensure(ensured)
              /\ \/ zone' = "ours" /\ ensured \in {"created", "repointed"}
                 \/ UNCHANGED zone
    BY <1>4 DEF Record, Ensured
  <2> QED
    BY <2>3, <2>4, <2>5
<1>5. CASE Probe
  <2>1. op \in Operation /\ op # Null /\ op.pc = "probe"
    BY <1>0, <1>5 DEF Probe
  <2>2. UNCHANGED <<units, data, zone, route, torn>> /\ (lost => lost')
    BY <1>5 DEF Probe, LoseAnswer
  <2>3. PICK probed \in BOOLEAN, pre \in SUBSET Data :
           /\ op' = [op EXCEPT !.probed = probed, !.pre = pre,
                               !.pc = IF op.domain THEN "up" ELSE "pull"]
           /\ Baseline(op.prev) \/ lost' \/ (probed /\ pre = data \cap Needs[op.units])
    <3>1. data \cap Needs[op.units] \in SUBSET Data /\ {} \in SUBSET Data
      BY <1>0 DEF TypeOK
    <3> QED
      BY <1>5, <3>1 DEF Probe, LoseAnswer
  <2>4. /\ op' \in Operation /\ op'.pc \in {"up", "pull"} /\ op'.prev = op.prev
        /\ op'.found = op.found /\ op'.record = op.record /\ op'.units = op.units
        /\ op'.probed = probed /\ op'.pre = pre
    BY <2>1, <2>3 DEF Operation, Pc
  <2>5. op' # Null
    BY <2>4, NullAssumption
  <2> QED
    BY <2>1, <2>2, <2>3, <2>4, <2>5 DEF Restoring, Ahead, Failing, Before, Baseline
<1>6. CASE Prepare
  <2>1. op \in Operation /\ op # Null /\ op.pc \in {"up", "pull"}
    BY <1>0, <1>6 DEF Prepare
  <2>2. /\ op' # Null /\ op'.prev = op.prev /\ op'.found = op.found
        /\ op'.record = op.record /\ op'.units = op.units /\ op'.probed = op.probed
        /\ op'.pre = op.pre /\ op'.pc \in {"pull", "script", "discard"}
    BY <1>6, <2>1, GotoEffect DEF Prepare, Pc
  <2>3. UNCHANGED <<units, data, zone, route, lost, torn>>
    BY <1>6 DEF Prepare
  <2> QED
    BY <2>1, <2>2, <2>3 DEF Restoring, Ahead, Failing, Before, Baseline
<1>7. CASE Script
  <2>1. op \in Operation /\ op # Null /\ op.pc = "script"
    BY <1>0, <1>7 DEF Script
  <2>2. /\ op' # Null /\ op'.prev = op.prev /\ op'.found = op.found
        /\ op'.record = op.record /\ op'.units = op.units /\ op'.probed = op.probed
        /\ op'.pre = op.pre /\ op'.pc \in {"smoke", "rollback"}
    BY <1>7, <2>1, GotoEffect DEF Script, Pc
  <2>3. UNCHANGED <<zone, route, torn>> /\ (lost => lost')
    BY <1>7 DEF Script, LoseAnswer
  <2>4. data \subseteq data' /\ data' \subseteq data \cup Needs[op.units]
    BY <1>7 DEF Script
  <2> QED
    BY <2>1, <2>2, <2>3, <2>4 DEF Restoring, Ahead, Failing, Before, Baseline
<1>8. CASE Smoke
  <2>1. op \in Operation /\ op # Null /\ op.pc = "smoke"
    BY <1>0, <1>8 DEF Smoke
  <2>2. UNCHANGED <<units, data, zone, route, torn>> /\ (lost => lost')
    BY <1>8 DEF Smoke, LoseAnswer
  <2>3. CASE Goto("save")
    BY <2>1, <2>3, GotoEffect, RestoringLeft DEF Pc, Ahead, Failing
  <2>4. CASE Goto("rollback")
    <3>1. /\ op' # Null /\ op'.prev = op.prev /\ op'.found = op.found
          /\ op'.record = op.record /\ op'.units = op.units /\ op'.probed = op.probed
          /\ op'.pre = op.pre /\ op'.pc = "rollback"
      BY <2>1, <2>4, GotoEffect DEF Pc
    <3> QED
      BY <2>1, <2>2, <3>1 DEF Restoring, Ahead, Failing, Before, Baseline
  <2>5. CASE op' = [op EXCEPT !.left = TRUE, !.pc = "discard"]
    <3>1. /\ op'.pc = "discard" /\ op'.left
          /\ op'.found = op.found /\ op'.record = op.record
      BY <2>1, <2>5 DEF Operation
    <3> QED
      BY <2>1, <2>2, <3>1 DEF Restoring, Ahead, Failing, Before
  <2> QED
    BY <1>8, <2>3, <2>4, <2>5 DEF Smoke
<1>9. CASE Rollback
  <2>1. op \in Operation /\ op # Null /\ op.pc = "rollback"
    BY <1>0, <1>9 DEF Rollback
  <2>2. /\ op' # Null /\ op'.prev = op.prev /\ op'.found = op.found
        /\ op'.record = op.record /\ op'.pc = "discard"
    BY <1>9, <2>1, GotoEffect DEF Rollback, Pc
  <2>3. UNCHANGED <<zone, route, torn>> /\ (lost => lost')
    BY <1>9 DEF Rollback, LoseAnswer
  <2>4. SUFFICES ASSUME ~lost, ~torn, ~lost' PROVE Restoring'
    BY <2>3 DEF Restoring
  <2>5. CASE Baseline(op.prev)
    <3>1. units' = op.prev.units /\ data' = data
      BY <1>9, <2>4, <2>5 DEF Rollback, LoseAnswer
    <3> QED
      BY <2>1, <2>2, <2>3, <2>4, <2>5, <3>1 DEF Restoring, Ahead, Failing, Before, Baseline
  <2>6. CASE ~Baseline(op.prev)
    <3>1. op.probed /\ op.pre = op.found.data \cap Needs[op.units]
      BY <2>1, <2>4, <2>6 DEF Restoring, Ahead
    <3>2. units' = Null /\ data' = data \ (Needs[op.units] \ op.pre)
      BY <1>9, <2>4, <2>6, <3>1 DEF Rollback, LoseAnswer, Created
    <3>3. op.found.data \subseteq data /\ data \subseteq op.found.data \cup Needs[op.units]
      BY <2>1, <2>4 DEF Restoring, Ahead
    <3>4. data' = op.found.data
      BY <3>1, <3>2, <3>3
    <3> QED
      BY <2>1, <2>2, <2>3, <2>4, <2>6, <3>2, <3>4
      DEF Restoring, Ahead, Failing, Before, Baseline
  <2> QED
    BY <2>5, <2>6
<1>10. CASE Discard
  <2>1. op \in Operation /\ op # Null /\ op.pc = "discard"
    BY <1>0, <1>10 DEF Discard
  <2>2. /\ op' # Null /\ op'.prev = op.prev /\ op'.found = op.found
        /\ op'.record = op.record /\ op'.left = op.left /\ op'.pc = "revert"
    BY <1>10, <2>1, GotoEffect DEF Discard, Pc
  <2>3. UNCHANGED <<units, data, route, torn>> /\ (lost => lost')
    BY <1>10 DEF Discard, LoseAnswer
  <2>4. ~lost' => (zone' = "ours" => zone = "ours" /\ op.record # "created")
    BY <1>10 DEF Discard, LoseAnswer
  <2> QED
    BY <2>1, <2>2, <2>3, <2>4 DEF Restoring, Ahead, Failing, Before, Baseline
<1>11. CASE Revert \/ SaveIngress \/ Finish \/ Crash
  BY <1>11, RestoringLeft DEF Revert, SaveIngress, Finish, Crash, End
<1>12. CASE Save \/ Attach \/ Unbind \/ Detach \/ DropRecord
  <2>1. op \in Operation /\ op # Null
    BY <1>0, <1>12 DEF Save, Attach, Unbind, Detach, DropRecord
  <2>2. \/ End
        \/ \E pc \in Pc \ (Ahead \cup Failing) : Goto(pc)
        \/ \E pc \in Pc \ (Ahead \cup Failing), tls \in BOOLEAN :
              op' = [op EXCEPT !.pc = pc, !.tls = tls]
    BY <1>12 DEF Save, Attach, WriteRoute, Unbind, Detach, DropRecord, AfterDetach,
                 Pc, Ahead, Failing
  <2>3. op' # Null => op'.pc \notin Ahead \cup Failing
    BY <2>1, <2>2 DEF End, Goto, Operation
  <2> QED
    BY <2>3, RestoringLeft
<1>13. CASE RemoveScript
  <2>1. op'.pc = "dropRow"
    BY <1>0, <1>13 DEF RemoveScript, Operation
  <2> QED
    BY <2>1, RestoringLeft DEF Ahead, Failing
<1>14. CASE Publish
  <2>1. zone' # "ours" /\ UNCHANGED <<units, data, route, op, lost, torn>>
    BY <1>14 DEF Publish
  <2> QED
    BY <2>1 DEF Restoring, Baseline
<1>15. CASE Late
  BY <1>0, <1>15 DEF Late, Claimed, Restoring
<1>16. CASE UNCHANGED vars
  BY <1>16 DEF vars, Restoring, Baseline
<1> QED
  BY <1>1, <1>2, <1>3, <1>4, <1>5, <1>6, <1>7, <1>8, <1>9, <1>10, <1>11, <1>12, <1>13,
     <1>14, <1>15, <1>16 DEF Next

(* A deploy that fails, at whatever step and after whatever earlier runs, hands *)
(* back the host, the route and the name it found: for a first install all of   *)
(* it, for a redeploy the units of the confirmed install, and never less data   *)
(* than there was (app-rollback.ts:42-43, vops-apps.service.ts:313-314).        *)
THEOREM FailuresAreUndone == Spec => []FailureRestores
<1>1. Init => Truthful /\ Restoring
  BY DEF Init, Truthful, Restoring, UnitsTrue, RouteTrue
<1>2. Init => Spared
  BY DEF Init, Spared
<1>3. Restoring => FailureRestores
  BY DEF Restoring, FailureRestores, At, Failing, Ahead
<1> QED
  BY <1>1, <1>2, <1>3, InvInit, InvNext, SparedNext, TruthfulNext, RestoringNext, PTL DEF Spec
==============================================================================
