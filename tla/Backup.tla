------------------------------ MODULE Backup ------------------------------
(***************************************************************************)
(* The K3s-directory backup and restore of one node (internal/backup):     *)
(* create stops K3s, copies the data directory and a second tree file by   *)
(* file, publishes a manifest of digests and starts K3s; restore verifies, *)
(* stops, clears, copies back and starts.  Around them: K3s and its        *)
(* containers, which write into the directory, a process that dies, a host *)
(* that reboots, a copy that decays on disk, and the repair command.       *)
(*                                                                         *)
(* A file's content is the version of the write that produced it; 0 is no  *)
(* file.  The unit's KillMode=process leaves the containers running when   *)
(* K3s is stopped, so the datastore (written by K3s) and the local-path    *)
(* volumes (written by containers), both below the data directory, are     *)
(* kept apart.  Of the dispatch skeleton this module knows that one        *)
(* operation runs at a time and that none but repair begins over one that  *)
(* died; DispatchedBackup composes the two and does not assume it.         *)
(*                                                                         *)
(* Simplifications: a digest is the content it was computed from; a backup *)
(* decays only while no operation uses it; clearing and copying of a tree  *)
(* touch its files in any order; a reboot finds no operation running (the  *)
(* process that it kills has died before it).                              *)
(***************************************************************************)
EXTENDS Naturals

CONSTANTS
    Datastore,    \* files of the data directory K3s itself writes
    Volume,       \* files of the data directory containers write
    Cache,        \* files of the second tree: metadata bundles or models
    BackupId,     \* backups the operator may take
    MaxVersion,   \* bound on the writes
    Layout,       \* the datastore files that exist at each version
    NoBackup, NoManifest

ASSUME FileAssumption ==
    /\ Datastore \cap Volume = {} /\ Datastore \cap Cache = {} /\ Volume \cap Cache = {}
    /\ Datastore # {}

ASSUME VersionAssumption ==
    /\ MaxVersion \in Nat \ {0}
    /\ Layout \in [1..MaxVersion -> SUBSET Datastore]

Data == Datastore \cup Volume
File == Data \cup Cache
Version == 0..MaxVersion
Rotten == MaxVersion + 1          \* content no write produced
Content == [File -> Version \cup {Rotten}]

ASSUME NullAssumption == NoBackup \notin BackupId /\ NoManifest \notin Content

VARIABLES
    live,         \* the host's trees
    version,      \* the last write
    copy,         \* [BackupId -> the trees below backups/<id>]
    manifest,     \* [BackupId -> the digests in backups/<id>/manifest.json]
    k3s,          \* the K3s unit
    containers,   \* whether the node's containers run
    stage, op, target, pending,  \* the running operation, and the files its copy has left
    interrupted,  \* the journal holds an operation nobody will end (Lifecycle)
    leftDown      \* history: K3s was left stopped by a death or by systemctl, and
                  \* still is

backupVars == <<live, version, copy, manifest, k3s, containers, stage, op, target,
                pending, interrupted, leftDown>>

Stage == {"idle", "verify", "stop", "saveData", "saveCache", "manifest",
          "clearData", "putData", "clearCache", "putCache", "start", "repair"}

BackupTypeOK ==
    /\ live \in Content
    /\ version \in Version
    /\ copy \in [BackupId -> Content]
    /\ manifest \in [BackupId -> Content \cup {NoManifest}]
    /\ k3s \in {"active", "stopping", "stopped", "failed"}
    /\ containers \in BOOLEAN
    /\ stage \in Stage
    /\ op \in {"none", "backup", "restore", "repair"}
    /\ target \in BackupId \cup {NoBackup}
    /\ pending \subseteq File
    /\ interrupted \in BOOLEAN /\ leftDown \in BOOLEAN

Files(tree) == {f \in File : tree[f] # 0}

\* The datastore is one K3s wrote, complete and of a single moment.
Whole(tree) ==
    \E v \in 1..MaxVersion :
        \A f \in Datastore : tree[f] = IF f \in Layout[v] THEN v ELSE 0

\* Verify: every file of the manifest is there with its digest.
Verify(b) ==
    /\ manifest[b] # NoManifest
    /\ \A f \in Files(manifest[b]) : copy[b][f] = manifest[b][f]

Empty == [f \in File |-> 0]

BackupInit ==
    /\ version = 1
    /\ \E cache \in {0, 1} :
          live = [f \in File |-> CASE f \in Layout[1] \cup Volume -> 1
                                   [] f \in Cache -> cache
                                   [] OTHER -> 0]
    /\ copy = [b \in BackupId |-> Empty]
    /\ manifest = [b \in BackupId |-> NoManifest]
    /\ k3s = "active" /\ containers = TRUE
    /\ stage = "idle" /\ op = "none" /\ target = NoBackup /\ pending = {}
    /\ interrupted = FALSE /\ leftDown = FALSE

-----------------------------------------------------------------------------
(* The environment.                                                        *)

operation == <<stage, op, target, pending>>
disk == <<live, version, copy, manifest>>
service == <<k3s, containers, leftDown>>

\* K3s commits to its datastore.  On a directory that is not whole it also
\* runs and writes, but what it writes does not make the directory whole.
DatastoreWrite ==
    /\ k3s \in {"active", "stopping"} /\ Whole(live)
    /\ version < MaxVersion
    /\ version' = version + 1
    /\ live' = [f \in File |-> CASE f \notin Datastore -> live[f]
                                 [] f \in Layout[version'] -> version'
                                 [] OTHER -> 0]
    /\ UNCHANGED <<copy, manifest, service, operation>>

VolumeWrite ==
    /\ containers /\ Volume # {}
    /\ version < MaxVersion
    /\ version' = version + 1
    /\ live' = [f \in File |-> IF f \in Volume THEN version' ELSE live[f]]
    /\ UNCHANGED <<copy, manifest, service, operation>>

\* Another command (models-import, upgrade) replaces the second tree.
StageCache ==
    /\ stage = "idle"
    /\ version < MaxVersion
    /\ version' = version + 1
    /\ live' = [f \in File |-> IF f \in Cache THEN version' ELSE live[f]]
    /\ UNCHANGED <<copy, manifest, service, operation>>

Decay(b) ==
    /\ b # target
    /\ manifest[b] # NoManifest
    /\ \E f \in Files(manifest[b]) : copy' = [copy EXCEPT ![b][f] = Rotten]
    /\ UNCHANGED <<live, version, manifest, service, operation>>

\* Restart=always and no limit on a start: systemd goes on with a start that
\* failed, and with one that systemctl has stopped waiting for.
SystemdRestart ==
    /\ k3s = "failed"
    /\ k3s' = "active" /\ containers' = TRUE /\ UNCHANGED leftDown
    /\ UNCHANGED <<disk, operation>>

\* The stop that systemctl has stopped waiting for comes to its end.
StopEnds ==
    /\ k3s = "stopping"
    /\ k3s' = "stopped" /\ leftDown' = TRUE /\ UNCHANGED containers
    /\ UNCHANGED <<disk, operation>>

Return ==
    /\ stage' = "idle" /\ op' = "none" /\ target' = NoBackup /\ pending' = {}

\* The zonctl process dies, also before the first step of its body or behind
\* the last (or it cannot write the outcome): its record stays in progress.
BackupDies ==
    /\ Return
    /\ leftDown' = (k3s = "stopped")
    /\ UNCHANGED <<disk, k3s, containers>>

\* The unit is enabled, so the boot starts K3s, whatever state the
\* directory is in.
Reboot ==
    /\ stage = "idle"
    /\ \/ k3s' = "active" /\ containers' = TRUE
       \/ k3s' = "failed" /\ containers' = FALSE
    /\ leftDown' = FALSE
    /\ UNCHANGED <<disk, operation>>

-----------------------------------------------------------------------------
(* Steps both operations share.                                            *)

\* EnableAndStart is daemon-reload, enable and start.  A start that fails, or
\* takes longer than systemctl waits, systemd goes on with; but an error
\* before systemd has taken the start on leaves the unit as it was.
StartK3s ==
    \/ k3s' = "active" /\ containers' = TRUE /\ leftDown' = FALSE
    \/ k3s' = "failed" /\ UNCHANGED containers /\ leftDown' = FALSE
    \/ UNCHANGED <<k3s, containers>> /\ leftDown' = (k3s = "stopped")

\* The error returns after a successful stop: EnableAndStart, error dropped.
Abort ==
    /\ Return
    /\ StartK3s
    /\ UNCHANGED disk

Proceed(label, files) ==
    /\ stage' = label /\ pending' = files
    /\ UNCHANGED <<op, target>>

\* Fault: the copy starts without waiting for K3s to stop.
Stop_forgotten ==
    /\ stage = "stop"
    /\ IF op = "backup" THEN Proceed("saveData", Files(live) \cap Data)
                        ELSE Proceed("clearData", {})
    /\ UNCHANGED <<disk, service>>

\* ops.Stop; when it fails the operation returns without a start, and the
\* timeout that made it fail ends systemctl, not the stop.
Stop ==
    /\ stage = "stop"
    /\ \/ /\ k3s' = "stopped"
          /\ IF op = "backup" THEN Proceed("saveData", Files(live) \cap Data)
                              ELSE Proceed("clearData", {})
          /\ leftDown' = FALSE
       \/ /\ k3s' = k3s \/ (k3s # "stopped" /\ k3s' = "stopping")
          /\ Return
          /\ UNCHANGED leftDown
    /\ UNCHANGED <<disk, containers>>

\* The last step of both: EnableAndStart, whose error is returned.
StartAgain ==
    /\ stage = "start"
    /\ Return
    /\ StartK3s
    /\ UNCHANGED disk

-----------------------------------------------------------------------------
(* create                                                                  *)

BeginBackup(b) ==
    /\ stage = "idle"
    /\ copy[b] = Empty /\ manifest[b] = NoManifest
    /\ stage' = "stop" /\ op' = "backup" /\ target' = b
    /\ UNCHANGED <<disk, service, pending>>

\* Fault: the error return of a failed copy leaves K3s stopped.
Save_noRestart(from, to, next) ==
    /\ stage = from
    /\ \/ /\ pending # {}
          /\ \E f \in pending :
                /\ copy' = [copy EXCEPT ![target][f] = live[f]]
                /\ Proceed(from, pending \ {f})
          /\ UNCHANGED <<live, version, manifest, service>>
       \/ /\ pending = {}
          /\ Proceed(to, next)
          /\ UNCHANGED <<disk, service>>
       \/ Return /\ UNCHANGED <<disk, service>>

\* copyDir from the host into the backup, and on to the next tree.
Save(from, to, next) ==
    /\ stage = from
    /\ \/ /\ pending # {}
          /\ \E f \in pending :
                /\ copy' = [copy EXCEPT ![target][f] = live[f]]
                /\ Proceed(from, pending \ {f})
          /\ UNCHANGED <<live, version, manifest, service>>
       \/ /\ pending = {}
          /\ Proceed(to, next)
          /\ UNCHANGED <<disk, service>>
       \/ Abort

SaveData == Save("saveData", "saveCache", Files(live) \cap Cache)
SaveCache == Save("saveCache", "manifest", {})

\* SaveManifest writes atomically: the backup exists from here on.
SaveManifest ==
    /\ stage = "manifest"
    /\ \/ /\ manifest' = [manifest EXCEPT ![target] = copy[target]]
          /\ Proceed("start", {})
          /\ UNCHANGED <<live, version, copy, service>>
       \/ Abort

-----------------------------------------------------------------------------
(* restore                                                                 *)

BeginRestore(b) ==
    /\ stage = "idle"
    /\ manifest[b] # NoManifest
    /\ stage' = "verify" /\ op' = "restore" /\ target' = b
    /\ UNCHANGED <<disk, service, pending>>

\* Fault: the manifest is loaded but the digests are not recomputed.
VerifyTarget_skipped ==
    /\ stage = "verify"
    /\ Proceed("stop", {})
    /\ UNCHANGED <<disk, service>>

VerifyTarget ==
    /\ stage = "verify"
    /\ IF Verify(target) THEN Proceed("stop", {}) ELSE Return
    /\ UNCHANGED <<disk, service>>

\* Fault: the old tree is left in place and copied over.
Clear_skipped(tree, from, to) ==
    /\ stage = from
    /\ Proceed(to, Files(copy[target]) \cap tree)
    /\ UNCHANGED <<disk, service>>

\* os.RemoveAll of a tree, entry by entry.
Clear(tree, from, to) ==
    /\ stage = from
    /\ \/ /\ \E f \in Files(live) \cap tree : live' = [live EXCEPT ![f] = 0]
          /\ UNCHANGED <<version, copy, manifest, service, operation>>
       \/ /\ Files(live) \cap tree = {}
          /\ Proceed(to, Files(copy[target]) \cap tree)
          /\ UNCHANGED <<disk, service>>
       \/ Abort

\* copyDir from the backup onto the host, and on to the next phase.
Put(from, to) ==
    /\ stage = from
    /\ \/ /\ pending # {}
          /\ \E f \in pending :
                /\ live' = [live EXCEPT ![f] = copy[target][f]]
                /\ Proceed(from, pending \ {f})
          /\ UNCHANGED <<version, copy, manifest, service>>
       \/ /\ pending = {}
          /\ Proceed(to, {})
          /\ UNCHANGED <<disk, service>>
       \/ Abort

ClearData == Clear(Data, "clearData", "putData")
PutData ==
    Put("putData", IF Files(copy[target]) \cap Cache # {} THEN "clearCache" ELSE "start")
ClearCache == Clear(Cache, "clearCache", "putCache")
PutCache == Put("putCache", "start")

-----------------------------------------------------------------------------
(* repair: starts K3s if it is not active, and touches nothing else.       *)

BeginRepair ==
    /\ stage = "idle"
    /\ stage' = "repair" /\ op' = "repair"
    /\ UNCHANGED <<disk, service, target, pending>>

\* Without an owned installation on record, or when systemctl does not list
\* the unit, it fails before the restart.
RepairK3s ==
    /\ stage = "repair"
    /\ Return
    /\ \/ k3s # "active" /\ StartK3s
       \/ UNCHANGED service
    /\ UNCHANGED disk

-----------------------------------------------------------------------------
Create == Stop \/ SaveData \/ SaveCache \/ SaveManifest \/ StartAgain
Restore == VerifyTarget \/ ClearData \/ PutData \/ ClearCache \/ PutCache
Body == Create \/ Restore \/ RepairK3s

Environment ==
    \/ DatastoreWrite \/ VolumeWrite \/ SystemdRestart \/ StopEnds
    \/ \E b \in BackupId : Decay(b)

\* The operations the gate of dispatch keeps from an interrupted node.
BeginGated == StageCache \/ \E b \in BackupId : BeginBackup(b) \/ BeginRestore(b)

BackupNext ==
    \/ ~interrupted /\ BeginGated /\ UNCHANGED interrupted
    \/ BeginRepair /\ interrupted' = FALSE
    \/ (Body \/ Environment \/ Reboot) /\ UNCHANGED interrupted
    \/ BackupDies /\ interrupted' = TRUE

BackupSpec == BackupInit /\ [][BackupNext]_backupVars

-----------------------------------------------------------------------------
(* Properties.                                                             *)

\* "Stop K3s for a consistent snapshot" (backup.go): the manifest that makes
\* a backup usable describes the datastore and the second tree as they stand
\* at one moment, although they were copied file by file.
ManifestIsAPointInTime ==
    [][\A b \in BackupId :
          manifest[b] = NoManifest /\ manifest'[b] # NoManifest =>
              \A f \in Datastore \cup Cache : manifest'[b][f] = live[f]]_backupVars

\* A restore that got as far as starting K3s has put back exactly what the
\* manifest records, with no file of the replaced datastore left over.
RestoredIsTheBackup ==
    op = "restore" /\ stage = "start" =>
        \A f \in Datastore \cup Cache :
            /\ f \in Datastore => live[f] = manifest[target][f]
            /\ f \in Cache /\ manifest[target][f] # 0 => live[f] = manifest[target][f]

\* Nothing breaks a whole datastore but a restore whose backup has just been
\* verified: whenever the only copy on the host goes, the one it is replaced
\* from is complete and intact (backup.go, Restore).
LossOnlyUnderAVerifiedBackup ==
    [][Whole(live) /\ ~Whole(live') => op = "restore" /\ Verify(target)]_backupVars

\* "a failed backup does not leave the appliance down" (backup.go): whatever
\* fails behind the stop, K3s is started again before the operation returns.
\* It is left stopped only by a process that died or by systemctl itself: a
\* stop that ends after systemctl has given up on it, or a start of which
\* systemd never heard because daemon-reload, enable or the call failed.
NotLeftStopped == stage = "idle" /\ k3s = "stopped" => leftDown

\* "rollback paths MUST call CleanupNodeNetwork afterward ... otherwise the
\* next start inherits a split-brain runtime" (k3s/unit.go): a restore starts
\* K3s only after the containers of the replaced state are gone.
NoSplitBrain ==
    [][op = "restore" /\ k3s = "stopped" /\ k3s' = "active" => ~containers]_backupVars

=============================================================================
