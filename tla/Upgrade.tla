------------------------------ MODULE Upgrade ------------------------------
(***************************************************************************)
(* The in-place upgrade of one host (internal/upgrade): a long sequence of *)
(* host changes after a mandatory backup, each of which may fail and then  *)
(* hands over to one rollback, whose own steps may fail too.  Around it:   *)
(* an upgrade that dies anywhere, repair, and another attempt.             *)
(*                                                                         *)
(* What an upgrade changes is a set of items, each the old release's, the  *)
(* new one's or mixed: whatever a change that failed may have left, the    *)
(* old one included.                                                       *)
(*                                                                         *)
(* Simplifications: the backup and its verification succeed or fail as a   *)
(* whole, and a restore is two steps (module Backup looks inside both);    *)
(* the cluster changes between two host changes are one step; an image-    *)
(* pull registry is always configured; the images, whose rollback is best  *)
(* effort, and the values files are left out, and so is the refresh of a   *)
(* release already installed; the independent duties of a rollback are     *)
(* done in any order.                                                      *)
(***************************************************************************)
EXTENDS Naturals

CONSTANTS
    MaxAttempts,        \* bound on the upgrades the operator starts
    Preserve,           \* values --preserve-failed-state may take
    NoBackup

ASSUME BoundAssumption == MaxAttempts \in Nat \ {0} /\ Preserve \subseteq BOOLEAN

K3sFile == {"binary", "config", "unit"}
Item == K3sFile \cup {"registries", "metadata", "data", "packages", "agent", "dns",
                      "zonctl", "receipt"}
Content == {"old", "new", "mixed"}
Image == [data : Content, metadata : Content]

ASSUME NoBackupAssumption == NoBackup \notin Image

VARIABLES
    host,         \* [Item -> Content]
    k3s,          \* the K3s unit
    backups,      \* the verified backups below the state directory
    mine,         \* the backup of the running attempt
    previous,     \* the ".previous" snapshots of the K3s files
    armed,        \* the items the rollback of the running attempt puts back
    k3sChanged,   \* the target pins another K3s version than the receipt
    newDNS,       \* the target adds LAN DNS to a host that had none
    pc, preserve, attempts,
    before,       \* history: the host when the attempt began
    errs,         \* a step of the rollback failed
    outcome,      \* what the last attempt reported
    interrupted,  \* the journal holds an operation that died (Lifecycle)
    leftDown      \* history: an attempt ended with K3s stopped for one of the
                  \* reasons it may, and K3s still is

vars == <<host, k3s, backups, mine, previous, armed, k3sChanged, newDNS, pc, preserve,
          attempts, before, errs, outcome, interrupted, leftDown>>

Label == {"idle", "metadata", "source", "backup", "preload", "snapshot", "stop",
          "config", "registries", "unit", "binary", "start", "packages", "cluster",
          "agent", "dns", "charts", "zonctl", "inventory", "receipt",
          "revert", "restore"}

Outcome == {"none", "refused", "succeeded", "preserved", "rolled back", "abandoned"}

TypeOK ==
    /\ host \in [Item -> Content]
    /\ k3s \in {"active", "stopping", "stopped", "failed"}
    /\ backups \subseteq Image
    /\ mine \in Image \cup {NoBackup}
    /\ previous \in [K3sFile -> Content \cup {"none"}]
    /\ armed \subseteq Item
    /\ k3sChanged \in BOOLEAN /\ newDNS \in BOOLEAN
    /\ pc \in Label
    /\ preserve \in BOOLEAN
    /\ attempts \in 0..MaxAttempts
    /\ before \in [Item -> Content]
    /\ errs \in BOOLEAN
    /\ outcome \in Outcome
    /\ interrupted \in BOOLEAN /\ leftDown \in BOOLEAN

Old == [i \in Item |-> "old"]

Init ==
    /\ host = Old /\ before = Old
    /\ k3s = "active"
    /\ backups = {} /\ mine = NoBackup
    /\ previous = [f \in K3sFile |-> "none"]
    /\ armed = {}
    /\ k3sChanged \in BOOLEAN /\ newDNS \in BOOLEAN
    /\ pc = "idle" /\ preserve = FALSE /\ attempts = 0
    /\ errs = FALSE /\ outcome = "none"
    /\ interrupted = FALSE /\ leftDown = FALSE

\* What never changes while an attempt runs, and what most steps leave alone.
attempt == <<k3sChanged, newDNS, preserve, attempts, before, interrupted>>
saved == <<backups, mine, previous>>

Goto(label) == pc' = label /\ UNCHANGED <<outcome, errs>>
Return(result) == pc' = "idle" /\ outcome' = result /\ UNCHANGED errs

\* failUpgrade: the rollback, or nothing at all under --preserve-failed-state.
failUpgrade == IF preserve THEN Return("preserved") ELSE Goto("revert")

\* What an error of systemctl leaves of K3s (module Backup): a stop that it no
\* longer waits for goes on, a start is retried by systemd or never reached it.
StopFails == k3s' = k3s \/ (k3s # "stopped" /\ k3s' = "stopping")
StartFails == k3s' \in {k3s, "failed"}

Changed(i, content) == [host EXCEPT ![i] = content]

\* Fault: the error of the step is dropped.
Change_ignoresError(step, i, left, next) ==
    /\ pc = step
    /\ host' \in {Changed(i, "new"), Changed(i, left)}
    /\ Goto(next)

\* A step that changes one item: done and on to the next, or failed, with
\* the item as a failure of this step leaves it.
Change(step, i, left, next) ==
    /\ pc = step
    /\ \/ host' = Changed(i, "new") /\ Goto(next)
       \/ host' = Changed(i, left) /\ failUpgrade

-----------------------------------------------------------------------------
(* Before the backup: an error is returned and nothing is rolled back.     *)

Begin ==
    /\ pc = "idle" /\ ~interrupted
    /\ attempts < MaxAttempts
    /\ host["receipt"] = "old"
    /\ attempts' = attempts + 1
    /\ preserve' \in Preserve
    /\ before' = host
    /\ armed' = {} /\ mine' = NoBackup
    /\ pc' = "metadata" /\ outcome' = "none" /\ errs' = FALSE
    /\ UNCHANGED <<host, k3s, backups, previous, k3sChanged, newDNS, interrupted>>

StageMetadata ==
    /\ pc = "metadata"
    /\ \/ host' = Changed("metadata", "new") /\ Goto("source")
       \/ host' = Changed("metadata", "mixed") /\ Return("refused")
    /\ UNCHANGED <<k3s, saved, armed, attempt>>

\* The supported-source matrix and the PostgreSQL refusal.
CheckSource ==
    /\ pc = "source"
    /\ Goto("backup") \/ Return("refused")
    /\ UNCHANGED <<host, k3s, saved, armed, attempt>>

\* Fault: the manifest is returned without having been saved.
TakeBackup_unsaved ==
    /\ pc = "backup"
    /\ mine' = [data |-> host["data"], metadata |-> host["metadata"]]
    /\ Goto("preload")
    /\ UNCHANGED <<host, k3s, backups, previous, armed, attempt>>

\* backup.Create and backup.Verify.  A backup that fails for its stop has not
\* started K3s again; one that fails behind it has, if systemctl let it.
TakeBackup ==
    /\ pc = "backup"
    /\ LET image == [data |-> host["data"], metadata |-> host["metadata"]]
       IN \/ /\ k3s' = "active"
             /\ mine' = image /\ backups' = backups \cup {image}
             /\ Goto("preload")
          \/ /\ StopFails \/ k3s' \in {"active", "failed", "stopped"}
             /\ backups' \in {backups, backups \cup {image}}
             /\ Return("refused")
             /\ UNCHANGED mine
    /\ UNCHANGED <<host, previous, armed, attempt>>

-----------------------------------------------------------------------------
(* After the backup: every failure goes through failUpgrade, but one.      *)

PreloadImages ==
    /\ pc = "preload"
    /\ Goto(IF k3sChanged THEN "snapshot" ELSE "registries") \/ failUpgrade
    /\ UNCHANGED <<host, k3s, saved, armed, attempt>>

\* Fault: the rollback is armed by nobody.
SnapshotFiles_notArmed ==
    /\ pc = "snapshot"
    /\ previous' = [f \in K3sFile |-> host[f]] /\ Goto("stop")
    /\ UNCHANGED <<host, k3s, backups, mine, armed, attempt>>

\* snapshotFile for each file; the rollback reads the snapshots only after
\* all of them have been taken (binaryReverted), so what a failure here
\* leaves of them is left out.
SnapshotFiles ==
    /\ pc = "snapshot"
    /\ \/ /\ previous' = [f \in K3sFile |-> host[f]]
          /\ armed' = armed \cup K3sFile
          /\ Goto("stop")
       \/ failUpgrade /\ UNCHANGED <<previous, armed>>
    /\ UNCHANGED <<host, k3s, backups, mine, attempt>>

StopK3s ==
    /\ pc = "stop"
    /\ \/ k3s' = "stopped" /\ Goto("config")
       \/ StopFails /\ failUpgrade
    /\ UNCHANGED <<host, saved, armed, attempt>>

\* The K3s files are written atomically: a failure leaves the old one.
WriteConfig ==
    /\ Change("config", "config", host["config"], "registries")
    /\ UNCHANGED <<k3s, saved, armed, attempt>>

WriteRegistries ==
    /\ Change("registries", "registries", host["registries"], IF k3sChanged THEN "unit" ELSE "start")
    /\ UNCHANGED <<k3s, saved, armed, attempt>>

\* Fault: the error is returned without failUpgrade.
WriteUnit_returns ==
    /\ pc = "unit"
    /\ \/ host' = Changed("unit", "new") /\ Goto("binary")
       \/ UNCHANGED host /\ Return("abandoned")
    /\ UNCHANGED <<k3s, saved, armed, attempt>>

WriteUnit ==
    /\ Change("unit", "unit", host["unit"], "binary")
    /\ UNCHANGED <<k3s, saved, armed, attempt>>

InstallBinary ==
    /\ Change("binary", "binary", host["binary"], "start")
    /\ UNCHANGED <<k3s, saved, armed, attempt>>

\* EnableAndStart, or Restart when only registries.yaml changed.
StartK3s ==
    /\ pc = "start"
    /\ \/ k3s' = "active" /\ Goto("packages")
       \/ StartFails /\ failUpgrade
    /\ UNCHANGED <<host, saved, armed, attempt>>

\* InstallRequiredPackages: a dpkg that fails half-way returns no rollback.
InstallPackages ==
    /\ Change("packages", "packages", "mixed", "cluster")
    /\ armed' = IF pc' = "cluster" THEN armed \cup {"packages"} ELSE armed
    /\ UNCHANGED <<k3s, saved, attempt>>

\* Namespaces, secrets, baseline, labels, the message broker: changes of the
\* cluster, which live in the data directory; a failure leaves some of them.
PrepareCluster ==
    /\ Change("cluster", "data", "new", "agent")
    /\ UNCHANGED <<k3s, saved, armed, attempt>>

\* hostagent.InstallOrUpdate undoes its own failure, as far as it can.
InstallHostAgent ==
    /\ Change("agent", "agent", "mixed", "dns")
    /\ armed' = IF pc' = "dns" THEN armed \cup {"agent"} ELSE armed
    /\ UNCHANGED <<k3s, saved, attempt>>

\* PrepareHostDNS, rolled back only on a host that had no LAN DNS before,
\* and the stop of the stock DNS daemons, which may fail after it.
PrepareHostDNS ==
    /\ pc = "dns"
    /\ \/ /\ host' = Changed("dns", "new")
          /\ armed' = IF newDNS THEN armed \cup {"dns"} ELSE armed
          /\ Goto("charts") \/ failUpgrade
       \/ /\ host' = Changed("dns", "mixed")
          /\ failUpgrade
          /\ UNCHANGED armed
    /\ UNCHANGED <<k3s, saved, attempt>>

ApplyCharts ==
    /\ Change("charts", "data", "new", "zonctl")
    /\ UNCHANGED <<k3s, saved, armed, attempt>>

InstallZonctl ==
    /\ Change("zonctl", "zonctl", "mixed", "inventory")
    /\ UNCHANGED <<k3s, saved, armed, attempt>>

\* The control-plane node must be in the receipt's inventory; this one error
\* is returned directly.
FindControlPlane ==
    /\ pc = "inventory"
    /\ Goto("receipt") \/ Return("abandoned")
    /\ UNCHANGED <<host, k3s, saved, armed, attempt>>

\* state.Save is atomic; the rollback of zonctl is best effort.
SaveReceipt ==
    /\ pc = "receipt"
    /\ \/ host' = Changed("receipt", "new") /\ Return("succeeded")
       \/ /\ host' \in IF preserve THEN {host}
                       ELSE {Changed("zonctl", before["zonctl"]), Changed("zonctl", "mixed")}
          /\ failUpgrade
    /\ UNCHANGED <<k3s, saved, armed, attempt>>

-----------------------------------------------------------------------------
(* The pod network K3s takes from its configuration: an install pins it,   *)
(* an upgrade writes the file without it, and K3s uses its own default.    *)

DefaultClusterCIDR == "10.44.0.0/16"
UpstreamClusterCIDR == "10.42.0.0/16"
Render(cidr) == IF cidr # "" THEN cidr ELSE UpstreamClusterCIDR
PodNetwork == Render(IF host["config"] = "old" THEN DefaultClusterCIDR ELSE "")

-----------------------------------------------------------------------------
(* The rollback: errors are collected and never stop it.                   *)

\* revertFile and the rollbacks of the host changes.
Revert ==
    /\ pc = "revert"
    /\ \E i \in armed :
          /\ armed' = armed \ {i}
          /\ \/ /\ host' = Changed(i, IF i \in K3sFile THEN previous[i] ELSE before[i])
                /\ UNCHANGED errs
             \/ /\ host' = Changed(i, "mixed")
                /\ errs' = TRUE
    /\ UNCHANGED <<k3s, saved, attempt, pc, outcome>>

\* backup.Restore up to the first file it removes: verify and stop.
BeginRestore ==
    /\ pc = "revert" /\ armed = {}
    /\ \/ k3s' = "stopped" /\ host' = Changed("data", "mixed") /\ Goto("restore")
       \/ /\ StopFails
          /\ errs' = TRUE /\ pc' = "idle" /\ outcome' = "rolled back"
          /\ UNCHANGED host
    /\ UNCHANGED <<saved, armed, attempt>>

\* backup.Restore to its end: the trees are back and K3s is started, or one
\* of them failed; a start is attempted in any case.
FinishRestore ==
    /\ pc = "restore"
    /\ LET restored == [host EXCEPT !["data"] = mine.data, !["metadata"] = mine.metadata]
       IN \/ host' = restored /\ k3s' = "active" /\ UNCHANGED errs
          \/ host' = restored /\ StartFails /\ errs' = TRUE
          \/ /\ host' \in {host, [host EXCEPT !["data"] = mine.data, !["metadata"] = "mixed"]}
             /\ k3s' = "active" \/ StartFails
             /\ errs' = TRUE
    /\ pc' = "idle" /\ outcome' = "rolled back"
    /\ UNCHANGED <<saved, armed, attempt>>

-----------------------------------------------------------------------------
(* The environment.                                                        *)

Crash ==
    /\ pc # "idle"
    /\ pc' = "idle" /\ outcome' = "none" /\ interrupted' = TRUE
    /\ armed' = {} /\ mine' = NoBackup /\ before' = Old /\ errs' = FALSE
    /\ UNCHANGED <<host, k3s, backups, previous, k3sChanged, newDNS, preserve, attempts>>

\* Restart=always.
SystemdRestart ==
    /\ k3s = "failed"
    /\ k3s' = "active"
    /\ UNCHANGED <<host, saved, armed, attempt, pc, errs, outcome>>

\* The stop that systemctl has stopped waiting for comes to its end.
StopEnds ==
    /\ k3s = "stopping"
    /\ k3s' = "stopped" /\ leftDown' = TRUE
    /\ UNCHANGED <<host, saved, armed, attempt, pc, errs, outcome>>

\* It fails before the restart when the unit is not listed.
Repair ==
    /\ pc = "idle"
    /\ k3s' = "active" \/ (k3s # "active" /\ StartFails)
    /\ interrupted' = FALSE
    /\ outcome' = "none"
    /\ armed' = {} /\ mine' = NoBackup /\ before' = Old /\ errs' = FALSE
    /\ UNCHANGED <<host, backups, previous, k3sChanged, newDNS, pc, preserve, attempts>>

Rollback == Revert \/ BeginRestore \/ FinishRestore

Step ==
    \/ StageMetadata \/ CheckSource \/ TakeBackup \/ PreloadImages \/ SnapshotFiles
    \/ StopK3s \/ WriteConfig \/ WriteRegistries \/ WriteUnit \/ InstallBinary
    \/ StartK3s \/ InstallPackages \/ PrepareCluster \/ InstallHostAgent
    \/ PrepareHostDNS \/ ApplyCharts \/ InstallZonctl \/ FindControlPlane \/ SaveReceipt
    \/ Rollback

\* The reasons: a death, a rollback with errors, --preserve-failed-state, and a
\* pre-upgrade backup that could not start K3s again.
Remember ==
    leftDown' =
        /\ k3s' = "stopped"
        /\ \/ leftDown
           \/ /\ pc # "idle" /\ pc' = "idle"
              /\ interrupted' \/ errs' \/ outcome' = "preserved" \/ pc = "backup"

Next ==
    \/ (Begin \/ Step \/ Crash \/ SystemdRestart \/ Repair) /\ Remember
    \/ StopEnds

Spec == Init /\ [][Next]_vars

-----------------------------------------------------------------------------
(* Properties.                                                             *)

\* "take and verify a mandatory pre-upgrade backup" (upgrade.go): once the
\* data of the old release is gone from the host it is in a verified backup,
\* through failures, deaths and further attempts.
OldDataIsBackedUp ==
    host["data"] # "old" => \E b \in backups : b.data = "old"

\* "The K3s binary/config/unit (if changed) are put back and the data
\* directory is restored" (upgrade.go): wherever the upgrade failed, a
\* rollback without errors returns the K3s files, the data and the receipt to
\* what they were when the attempt began.
Promised == K3sFile \cup {"data", "receipt"}
CleanRollback ==
    outcome = "rolled back" /\ ~errs => \A i \in Promised : host[i] = before[i]

\* A receipt of the new release is only ever found on a host on which every
\* part of it was installed, however many attempts and deaths came before.
ReceiptMeansUpgraded ==
    host["receipt"] = "new" =>
        \A i \in Item \ K3sFile : host[i] = "new"
K3sIsUpgraded ==
    host["receipt"] = "new" /\ k3sChanged => \A f \in K3sFile : host[f] = "new"
NewReceipt == ReceiptMeansUpgraded /\ K3sIsUpgraded

\* A failed upgrade does not leave the appliance down (failUpgrade and its
\* rollback, upgrade.go): K3s is left stopped only by a death, on request, by a
\* rollback that reports errors, by a pre-upgrade backup whose own stop or
\* start systemctl failed (an upgrade returns its error without a rollback),
\* or by a stop that ended after systemctl had given up on it; and later
\* attempts may at most leave it as they found it.
NotLeftStopped == pc = "idle" /\ k3s = "stopped" => leftDown

\* "empty uses DefaultClusterCIDR" (k3s/config.go): the configuration an
\* upgrade writes leaves the CIDR empty, and K3s keeps the pod network the
\* cluster was installed with.
PodNetworkStays == k3s = "active" => PodNetwork = DefaultClusterCIDR

=============================================================================
