------------------------------ MODULE AppDeploy ------------------------------
(***************************************************************************)
(* Deploying, removing and unexposing one application on one host:         *)
(* VopsAppsService.deploy with the install ledger, the rollback and the    *)
(* data guard around it, VopsIngressService.attachRoute and its            *)
(* teardown, removeApp and unexposeApp.                                    *)
(*                                                                         *)
(* One operation at a time.  Its process may be ended between any two of   *)
(* its round trips (Ctrl-C, a kill), and any round trip over SSH may come  *)
(* back without an answer: runScript never throws, it returns an empty     *)
(* output, and what the script did on the host by then is unknown.         *)
(* Crashes, lost round trips and failed calls of the DNS provider are      *)
(* bounded together by MaxFaults.                                          *)
(***************************************************************************)
EXTENDS Naturals

CONSTANTS
    Versions,    \* unit sets an app may be deployed from
    Data,        \* names of volumes and secrets
    Needs,       \* the volumes and secrets a version creates
    Naked,       \* the app has no login of its own (nakedReason)
    Null,        \* nothing
    MaxFaults    \* crashes, lost round trips and provider failures

ASSUME ConstantsAssumption ==
    /\ Needs \in [Versions -> SUBSET Data]
    /\ Naked \in BOOLEAN
    /\ Null \notin Versions
    /\ MaxFaults \in Nat

VARIABLES
    row,          \* the install row of the local store
    units,        \* the units on the host
    data,         \* volumes and secrets on the host
    zone,         \* what the hostname's zone says
    route,        \* the route fragment of the app at the proxy
    op,           \* the operation in progress
    late,         \* units whose abandoned deploy script may still run
    acknowledged, \* history: a run was given --auth none
    proven,       \* history: versions that passed their smoke test
    lost,         \* history: a round trip was lost
    torn,         \* history: a removal or a detach was ended half way
    faults        \* history: faults so far

host == <<units, data>>
history == <<acknowledged, proven, lost, torn, faults>>
vars == <<row, host, zone, route, op, late, history>>

Route == [gate : BOOLEAN, tls : BOOLEAN]

Ingress == [gate : BOOLEAN, tls : BOOLEAN, dns : BOOLEAN]

Install == [status  : {"installing", "deployed"},
            units   : Versions,
            ingress : Ingress \cup {Null}]

(* The A record of the hostname: none, one vops wrote, one of the user's   *)
(* that names this host, one that names another, or a zone out of reach.   *)
Zone == {"none", "ours", "user", "elsewhere", "external"}

(* EnsuredRecord: what ensureARecord did. *)
Ensured == {"none", "created", "reused", "repointed"}

Pc == {"claim", "record", "probe", "up", "pull", "script", "smoke",
       "rollback", "discard", "revert", "save", "attach", "tls", "cert", "saveIngress",
       "unbind", "detach", "dropRecord", "removeScript", "dropRow", "clear"}

Found == [units : Versions \cup {Null}, data : SUBSET Data,
          named : BOOLEAN, route : Route \cup {Null}]

Operation == [pc     : Pc,
              kind   : {"deploy", "remove", "unexpose", "down"},
              units  : Versions,             \* the version to deploy
              prev   : Install \cup {Null},  \* the row read at the start
              domain : BOOLEAN,              \* --domain was given
              gate   : BOOLEAN,              \* the route is to be gated
              purge  : BOOLEAN,              \* --purge
              probed : BOOLEAN,              \* the data probe came back
              pre    : SUBSET Data,          \* the data it found
              record : Ensured,
              tls    : BOOLEAN,              \* the route last written has TLS
              left   : BOOLEAN,              \* VOPS_APP_NO_ROLLBACK kept the app
              found  : Found]                \* history: what it all began from

(* A row, an ingress and an operation are something. *)
ASSUME NullAssumption ==
    Null \notin Install /\ Null \notin Ingress /\ Null \notin Operation

At(pc) == op # Null /\ op.pc = pc
Goto(pc) == op' = [op EXCEPT !.pc = pc]
End == op' = Null

Fault == faults < MaxFaults /\ faults' = faults + 1
LoseAnswer == Fault /\ lost' = TRUE

(* redeployBaseline: only a confirmed install is one. *)
Baseline(prev) == prev # Null /\ prev.status = "deployed"

Init ==
    /\ row = Null
    /\ units = Null
    /\ data \in SUBSET Data
    /\ zone \in Zone \ {"ours"}
    /\ route = Null
    /\ op = Null /\ late = Null
    /\ acknowledged = FALSE /\ lost = FALSE /\ torn = FALSE
    /\ proven = {} /\ faults = 0

(* The user publishes the name, or takes its record away. *)
Publish ==
    /\ zone # "external"
    /\ zone' \in {"none", "user", "elsewhere"} \ {zone}
    /\ Fault
    /\ UNCHANGED <<row, host, route, op, late, acknowledged, proven, lost, torn>>

(* The process of the operation ends; the host, the zone and the row stay. *)
Crash ==
    /\ op # Null
    /\ End
    /\ torn' = (torn \/ op.kind # "deploy")
    /\ Fault
    /\ UNCHANGED <<row, host, zone, route, late, acknowledged, proven, lost>>

-----------------------------------------------------------------------------
(* The start of an operation: everything up to its first change.           *)

Begin(kind, v, pc, domain, gate) ==
    op' = [pc |-> pc, kind |-> kind, units |-> v, prev |-> row,
           domain |-> domain, gate |-> gate, purge |-> FALSE,
           probed |-> FALSE, pre |-> {}, record |-> "none", tls |-> FALSE, left |-> FALSE,
           found |-> [units |-> units, data |-> data,
                      named |-> zone = "ours", route |-> route]]

(* Variant: nothing is refused. *)
GateUnchecked(intent, prev) ==
    CASE intent = "basic" -> {TRUE}
      [] intent = "none"  -> {FALSE}
      [] OTHER -> {prev # Null /\ prev.ingress # Null /\ prev.ingress.gate}

(* resolveDeployGate: an explicit choice, the gate the row carries, or a   *)
(* refusal where the app would be naked.                                   *)
Gate(intent, prev) ==
    CASE intent = "basic" -> {TRUE}
      [] intent = "none"  -> {FALSE}
      [] OTHER -> IF prev # Null /\ prev.ingress # Null /\ prev.ingress.gate
                  THEN {TRUE}
                  ELSE IF Naked THEN {} ELSE {FALSE}

(* A name that is taken stops a run before anything is touched, unless it  *)
(* was given --force-dns: that is decided in Record.                       *)
Deploy(v) ==
    /\ op = Null
    /\ \/ /\ Begin("deploy", v, "claim", FALSE, FALSE)
          /\ UNCHANGED acknowledged
       \/ \E intent \in {"basic", "none", "unset"} :
          \E gate \in Gate(intent, row) :
             /\ Begin("deploy", v, "claim", TRUE, gate)
             /\ acknowledged' = (acknowledged \/ intent = "none")
    /\ UNCHANGED <<row, host, zone, route, late, proven, lost, torn, faults>>

Remove ==
    /\ op = Null /\ row # Null
    /\ Begin("remove", row.units,
             IF row.ingress # Null THEN "detach" ELSE "removeScript", FALSE, FALSE)
    /\ UNCHANGED <<row, host, zone, route, late, history>>

(* unexposeApp, and VopsIngressService.down for the apps still routed. *)
Unexpose ==
    /\ op = Null /\ row # Null /\ row.ingress # Null
    /\ \/ Begin("unexpose", row.units, "unbind", FALSE, FALSE)
       \/ Begin("down", row.units, "detach", FALSE, FALSE)
    /\ UNCHANGED <<row, host, zone, route, late, history>>

-----------------------------------------------------------------------------
(* VopsAppsService.deploy, from its first change on.                       *)

(* Variant: the row is first written when the deploy has succeeded. *)
ClaimNothing ==
    /\ At("claim")
    /\ Goto(IF op.domain THEN "record" ELSE "probe")
    /\ UNCHANGED <<row, host, zone, route, late, history>>

Claim ==
    /\ At("claim")
    /\ row' = [status |-> "installing", units |-> op.units, ingress |-> Null]
    /\ Goto(IF op.domain THEN "record" ELSE "probe")
    /\ UNCHANGED <<host, zone, route, late, history>>

(* ensureARecord: create, reuse, or delete what is there and create.       *)
Ensure(ensured) == op' = [op EXCEPT !.record = ensured, !.pc = "probe"]

Record ==
    /\ At("record")
    /\ \/ zone = "external" /\ Ensure("none") /\ UNCHANGED <<zone, faults>>
       \/ zone = "none" /\ zone' = "ours" /\ Ensure("created") /\ UNCHANGED faults
       \/ zone \in {"ours", "user"} /\ Ensure("reused") /\ UNCHANGED <<zone, faults>>
       \/ zone = "elsewhere" /\ zone' = "ours" /\ Ensure("repointed") /\ UNCHANGED faults
       \/ zone = "elsewhere" /\ Goto("revert") /\ UNCHANGED <<zone, faults>>
       \/ zone \in {"none", "elsewhere"} /\ zone' = "none" /\ Fault /\ Goto("revert")
    /\ UNCHANGED <<row, host, route, late, acknowledged, proven, lost, torn>>

(* probeAppData: a probe that did not come back tells nothing. *)
Probe ==
    LET found(probed, pre) ==
            op' = [op EXCEPT !.probed = probed, !.pre = pre,
                             !.pc = IF op.domain THEN "up" ELSE "pull"]
    IN
    /\ At("probe")
    /\ \/ Baseline(op.prev) /\ found(FALSE, {}) /\ UNCHANGED <<lost, faults>>
       \/ /\ ~Baseline(op.prev)
          /\ found(TRUE, data \cap Needs[op.units])
          /\ UNCHANGED <<lost, faults>>
       \/ ~Baseline(op.prev) /\ found(FALSE, {}) /\ LoseAnswer
    /\ UNCHANGED <<row, host, zone, route, late, acknowledged, proven, torn>>

(* ensureIngressUp and pullImages touch nothing of the app, and may throw. *)
Prepare ==
    /\ \/ At("up") /\ (Goto("pull") \/ Goto("discard"))
       \/ At("pull") /\ (Goto("script") \/ Goto("discard"))
    /\ UNCHANGED <<row, host, zone, route, late, history>>

(* The deploy script: units, secrets and volumes, and the services active.  *)
(* One that fails may have done any of it; one whose answer is lost may     *)
(* still be at it.                                                          *)
Script ==
    /\ At("script")
    /\ \/ /\ units' = op.units
          /\ data' = data \cup Needs[op.units]
          /\ Goto("smoke")
          /\ UNCHANGED <<late, lost, faults>>
       \/ /\ units' \in {units, op.units}
          /\ \E some \in SUBSET Needs[op.units] : data' = data \cup some
          /\ Goto("rollback")
          /\ \/ UNCHANGED <<late, lost, faults>>
             \/ late' = op.units /\ LoseAnswer
    /\ UNCHANGED <<row, zone, route, acknowledged, proven, torn>>

Late ==
    /\ late # Null
    /\ units' = late
    /\ data' = data \cup Needs[late]
    /\ late' = Null
    /\ UNCHANGED <<row, zone, route, op, history>>

(* gateOrRollback: green, rolled back, or left running to be looked at. *)
Smoke ==
    /\ At("smoke")
    /\ \/ Goto("save") /\ proven' = proven \cup {op.units} /\ UNCHANGED <<lost, faults>>
       \/ /\ \/ Goto("rollback")
             \/ op' = [op EXCEPT !.left = TRUE, !.pc = "discard"]
          /\ UNCHANGED proven
          /\ LoseAnswer \/ UNCHANGED <<lost, faults>>
    /\ UNCHANGED <<row, host, zone, route, late, acknowledged, torn>>

(* Variant: everything the plan names. *)
CreatedAll == Needs[op.units]

(* dataCreatedInRun *)
Created == IF op.probed THEN Needs[op.units] \ op.pre ELSE {}

(* rollbackDeploy: the units of the confirmed install, or a removal of the *)
(* units and of the data this run created.  Its output is not looked at.   *)
Rollback ==
    LET target == IF Baseline(op.prev) THEN op.prev.units ELSE Null
        drop == IF Baseline(op.prev) THEN {} ELSE Created
    IN
    /\ At("rollback")
    /\ \/ units' = target /\ data' = data \ drop /\ UNCHANGED <<lost, faults>>
       \/ /\ units' \in {units, target}
          /\ \E some \in SUBSET drop : data' = data \ some
          /\ LoseAnswer
    /\ Goto("discard")
    /\ UNCHANGED <<row, zone, route, late, acknowledged, proven, torn>>

(* Variant: a failed run leaves its record. *)
DiscardNothing ==
    /\ At("discard")
    /\ Goto("revert")
    /\ UNCHANGED <<row, host, zone, route, late, history>>

(* withDnsCleanup: only a record this run created is taken away again. *)
Discard ==
    /\ At("discard")
    /\ \/ /\ zone' = IF op.record = "created" /\ zone = "ours" THEN "none" ELSE zone
          /\ UNCHANGED <<lost, faults>>
       \/ op.record = "created" /\ LoseAnswer /\ UNCHANGED zone
    /\ Goto("revert")
    /\ UNCHANGED <<row, host, route, late, acknowledged, proven, torn>>

(* withLedgerRevert *)
Revert ==
    /\ At("revert")
    /\ row' = IF op.left THEN row ELSE op.prev
    /\ End
    /\ UNCHANGED <<host, zone, route, late, history>>

(* The confirmed row is made from the plan: it has no ingress of the past. *)
Save ==
    /\ At("save")
    /\ row' = [status |-> "deployed", units |-> op.units, ingress |-> Null]
    /\ IF op.domain THEN Goto("attach") ELSE End
    /\ UNCHANGED <<host, zone, route, late, history>>

-----------------------------------------------------------------------------
(* attachRoute: plain first, TLS once the name answers, back to plain when *)
(* the certificate fails for good.  A write that was not taken ends it.    *)

WriteRoute(tls, next) ==
    LET new == [gate |-> op.gate, tls |-> tls] IN
    \/ /\ route' = new
       /\ op' = [op EXCEPT !.pc = next, !.tls = tls]
       /\ UNCHANGED <<lost, faults>>
    \/ route' \in {Null, new} /\ End /\ UNCHANGED <<lost, faults>>
    \/ route' \in {route, new} /\ End /\ LoseAnswer

Attach ==
    /\ \/ At("attach") /\ WriteRoute(FALSE, "tls")
       \/ At("attach") /\ op.gate /\ End /\ UNCHANGED <<route, lost, faults>>
       \/ At("tls") /\ WriteRoute(TRUE, "cert")
       \/ At("tls") /\ Goto("saveIngress") /\ UNCHANGED <<route, lost, faults>>
       \/ At("cert") /\ WriteRoute(FALSE, "saveIngress")
       \/ At("cert") /\ Goto("saveIngress") /\ UNCHANGED <<route, lost, faults>>
    /\ UNCHANGED <<row, host, zone, late, acknowledged, proven, torn>>

(* Variant: the row says TLS whenever it was asked for. *)
SaveIngressAsked ==
    /\ At("saveIngress")
    /\ row' = [status |-> "deployed", units |-> op.units,
               ingress |-> [gate |-> op.gate, tls |-> TRUE, dns |-> op.record # "none"]]
    /\ End
    /\ UNCHANGED <<host, zone, route, late, history>>

SaveIngress ==
    /\ At("saveIngress")
    /\ row' = [status |-> "deployed", units |-> op.units,
               ingress |-> [gate |-> op.gate, tls |-> op.tls, dns |-> op.record # "none"]]
    /\ End
    /\ UNCHANGED <<host, zone, route, late, history>>

-----------------------------------------------------------------------------
(* removeApp, unexposeApp and detachInstall work on the row they read.     *)

Unbind ==
    /\ At("unbind")
    /\ \/ units' = op.prev.units /\ UNCHANGED <<lost, faults>>
       \/ units' \in {units, op.prev.units} /\ LoseAnswer
    /\ Goto("detach")
    /\ UNCHANGED <<row, data, zone, route, late, acknowledged, proven, torn>>

AfterDetach == IF op.kind = "remove" THEN "removeScript" ELSE "clear"

Detach ==
    /\ At("detach")
    /\ \/ route' = Null /\ UNCHANGED <<lost, faults>>
       \/ UNCHANGED route /\ LoseAnswer
    /\ Goto(IF op.prev.ingress.dns THEN "dropRecord" ELSE AfterDetach)
    /\ UNCHANGED <<row, host, zone, late, acknowledged, proven, torn>>

(* deleteARecord: by its id, and best effort. *)
DropRecord ==
    /\ At("dropRecord")
    /\ \/ zone' = (IF zone \in {"ours", "user"} THEN "none" ELSE zone) /\ UNCHANGED faults
       \/ UNCHANGED zone /\ Fault
    /\ Goto(AfterDetach)
    /\ UNCHANGED <<row, host, route, late, acknowledged, proven, lost, torn>>

RemoveScript ==
    /\ At("removeScript")
    /\ \E purge \in BOOLEAN :
          LET drop == IF purge THEN Needs[op.prev.units] ELSE {} IN
          /\ \/ units' = Null /\ data' = data \ drop /\ UNCHANGED <<lost, faults>>
             \/ /\ units' \in {units, Null}
                /\ \E some \in SUBSET drop : data' = data \ some
                /\ LoseAnswer
          /\ op' = [op EXCEPT !.purge = purge, !.pc = "dropRow"]
    /\ UNCHANGED <<row, zone, route, late, acknowledged, proven, torn>>

Finish ==
    /\ \/ At("dropRow") /\ row' = Null
       \/ At("clear") /\ row' = [op.prev EXCEPT !.ingress = Null]
    /\ End
    /\ UNCHANGED <<host, zone, route, late, history>>

-----------------------------------------------------------------------------
Next ==
    \/ (\E v \in Versions : Deploy(v)) \/ Remove \/ Unexpose
    \/ Claim \/ Record \/ Probe \/ Prepare \/ Script \/ Smoke \/ Rollback
    \/ Discard \/ Revert \/ Save \/ Attach \/ SaveIngress
    \/ Unbind \/ Detach \/ DropRecord \/ RemoveScript \/ Finish
    \/ Publish \/ Late \/ Crash

Spec == Init /\ [][Next]_vars

-----------------------------------------------------------------------------
TypeOK ==
    /\ row \in Install \cup {Null}
    /\ units \in Versions \cup {Null}
    /\ data \subseteq Data
    /\ zone \in Zone
    /\ route \in Route \cup {Null}
    /\ op \in Operation \cup {Null}
    /\ late \in Versions \cup {Null}
    /\ acknowledged \in BOOLEAN /\ lost \in BOOLEAN /\ torn \in BOOLEAN
    /\ proven \subseteq Versions
    /\ faults \in 0..MaxFaults

(* Whatever is on the host has a row, from before it is there until after  *)
(* it is gone, unless a script went unanswered: the row is claimed first   *)
(* and a crash at any point leaves it (install-ledger.ts:1-19).            *)
UnitsHaveRow == units # Null /\ row = Null => lost

(* With the types of it all. *)
ClaimedFirst == TypeOK /\ UnitsHaveRow

(* A row that says deployed names units that are on the host and passed    *)
(* their smoke test, and one that says exposed names the route that is at  *)
(* the proxy (vops-apps.service.ts:270-281).                               *)
RowIsTrue ==
    op = Null /\ row # Null /\ ~lost /\ ~torn =>
        /\ row.status = "deployed" => units = row.units /\ row.units \in proven
        /\ row.ingress # Null =>
             /\ row.status = "deployed"
             /\ route = [gate |-> row.ingress.gate, tls |-> row.ingress.tls]

(* A deploy that failed puts the host, the route and the name back as they *)
(* were when it began: all of it for a first install, the units of the     *)
(* confirmed install for a redeploy (app-rollback.ts:42-43,                *)
(* vops-apps.service.ts:313-314).                                          *)
FailureRestores ==
    /\ At("revert") /\ ~op.left /\ ~lost /\ ~torn
    /\ op.prev = Null \/ Baseline(op.prev)
    => /\ units = op.found.units
       /\ op.found.data \subseteq data
       /\ op.prev = Null => data = op.found.data
       /\ route = op.found.route
       /\ zone = "ours" => op.found.named \/ op.record = "repointed"

(* A name that an app without a login of its own answers to is gated from  *)
(* its first moment on, unless somebody said --auth none                   *)
(* (ingress-auth.ts:104-133, vops-ingress.service.ts:261-265).             *)
NakedOnlyAcknowledged ==
    Naked /\ route # Null /\ ~route.gate => acknowledged

(* Data that was on the host when a deploy began is there when it ends,    *)
(* whatever fails, is lost or is retried; only --purge takes it away       *)
(* (app-data-guard.ts:54-67, app-rollback.ts:88-91).                       *)
DataKept ==
    [][\A d \in data \ data' :
          \/ op.kind = "remove" /\ op'.purge
          \/ op.kind = "deploy" /\ d \notin op.found.data]_vars
=============================================================================
