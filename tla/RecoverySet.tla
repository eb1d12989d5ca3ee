---------------------------- MODULE RecoverySet ----------------------------
(***************************************************************************)
(* The PostgreSQL recovery set of a one-host appliance: backup dumps the   *)
(* database, archives the quiesced blob storage and publishes a manifest   *)
(* (cmd/zonctl/recovery_set_commands.go, internal/recoveryset); restore    *)
(* replaces both on a running appliance; an install in bootstrap mode      *)
(* restore-recovery-set puts them on a new one (internal/install).         *)
(* Around them: Deployments whose pods follow their replica counts late    *)
(* and write while they run, a set that decays, a zonctl that dies, repair,*)
(* factory-reset and fresh installs.                                       *)
(*                                                                         *)
(* The content of the database or of an object is the version of the write *)
(* that produced it.  The installer lock (Lifecycle) admits one operation  *)
(* at a time, and a dead one blocks backup, restore and install.           *)
(*                                                                         *)
(* Simplifications: a digest is the content it was computed from; a set    *)
(* decays only while no operation uses it; factory-reset and a fresh       *)
(* install are single steps (Install has theirs); there is one set, in one *)
(* directory, which the operator may empty.                                *)
(***************************************************************************)
EXTENDS Naturals, FiniteSets

CONSTANTS
    Object,        \* the objects of blob storage
    MaxVersion,    \* bound on the writes
    Replicas,      \* the replica counts the charts ask for
    NoArchive, NoManifest

Deployment == {"controlplane", "automation-runtime", "blob-storage"}

ASSUME VersionAssumption == MaxVersion \in Nat \ {0}
ASSUME ReplicaAssumption == Replicas \in [Deployment -> Nat \ {0}]

Absent == 0
Version == 1..MaxVersion
Broken == MaxVersion + 1          \* half written, mixed or rotten
Fresh == MaxVersion + 2           \* an empty schema
Blobs == [Object -> Version \cup {Absent, Broken}]
Member == {"configuration", "receipt", "scope"}    \* the other files of a set

Manifest == [dump : Version \cup {Broken, Fresh}, archive : Blobs,
             member : [Member -> {"absent", "part", "whole"}]]

ASSUME NullAssumption == NoArchive \notin Blobs /\ NoManifest \notin Manifest

VARIABLES
    installed,     \* the appliance is installed
    replicas,      \* [Deployment -> .spec.replicas]
    pods,          \* the Deployments with a pod that still runs
    database, blob, version,
    dump, archive, member, manifest,    \* the files of the set
    pc, op, failed,                     \* the running operation
    pending,       \* the objects its copy has left
    saved,         \* the replica count archiveQuiescedBlobStorage read
    interrupted,   \* the journal holds an operation that died
    snapshot,      \* history: blob storage when its last pod was seen gone
    disturbed,     \* history: a pod wrote while the data was replaced
    excused        \* history: a death or a failed scale command since all was up

cluster == <<installed, replicas>>
data == <<database, blob, version>>
set == <<dump, archive, member, manifest>>
notes == <<snapshot, disturbed>>
operation == <<pc, op, failed, pending, saved>>
process == <<operation, notes>>
vars == <<cluster, pods, data, set, process, interrupted, excused>>

Quiesced == {"wait", "archive", "scale up"}
Replacing == {"clear", "extract", "drop", "load", "resume blob-storage", "exclusive", "bare load"}
Label == Quiesced \cup Replacing \cup
         {"idle", "configuration", "dump", "verify dump", "replicas", "scale down", "rollout",
          "receipt", "scope", "manifest", "final", "verify", "quiesce controlplane",
          "quiesce automation-runtime", "quiesce blob-storage", "resume controlplane", "resume automation-runtime", "check", "release"}

TypeOK ==
    /\ installed \in BOOLEAN /\ interrupted \in BOOLEAN
    /\ replicas \in [Deployment -> Nat]
    /\ pods \subseteq Deployment
    /\ database \in Version \cup {Absent, Broken, Fresh}
    /\ blob \in Blobs /\ snapshot \in Blobs
    /\ version \in Version
    /\ dump \in Version \cup {Absent, Broken, Fresh}
    /\ archive \in Blobs \cup {NoArchive}
    /\ member \in [Member -> {"absent", "part", "whole"}]
    /\ manifest \in Manifest \cup {NoManifest}
    /\ pc \in Label
    /\ op \in {"none", "backup", "restore", "bootstrap"}
    /\ failed \in BOOLEAN
    /\ pending \subseteq Object
    /\ saved \in Nat /\ (pc \in Quiesced => saved >= 1)
    /\ disturbed \in BOOLEAN /\ excused \in BOOLEAN

Objects(b) == {o \in Object : b[o] # Absent}
NoObject == [o \in Object |-> Absent]
Files == [dump |-> dump, archive |-> archive, member |-> member]
EmptyDirectory ==
    dump = Absent /\ archive = NoArchive /\ manifest = NoManifest
    /\ \A m \in Member : member[m] = "absent"

\* Load and VerifyFiles: every declared file is there with its digest.
Verifies == manifest # NoManifest /\ Files = manifest

Init ==
    /\ installed = TRUE /\ replicas = Replicas /\ pods = Deployment
    /\ version = 1 /\ database = 1
    /\ blob \in [Object -> {Absent, 1}]
    /\ dump = Absent /\ archive = NoArchive /\ manifest = NoManifest
    /\ member = [m \in Member |-> "absent"]
    /\ pc = "idle" /\ op = "none" /\ failed = FALSE /\ pending = {} /\ saved = 0
    /\ interrupted = FALSE
    /\ snapshot = NoObject /\ disturbed = FALSE /\ excused = FALSE

-----------------------------------------------------------------------------
(* The pods.                                                               *)

Disturb == disturbed' = (disturbed \/ pc \in Replacing)

\* The control plane and the runtime write to the database.
DatabaseWrite ==
    /\ pods \cap {"controlplane", "automation-runtime"} # {}
    /\ database # Absent /\ version < MaxVersion
    /\ version' = version + 1
    /\ database' = IF database \in Version THEN version' ELSE Broken
    /\ Disturb
    /\ UNCHANGED <<cluster, pods, blob, set, operation, snapshot, interrupted, excused>>

\* Blob storage stores and deletes objects.
BlobWrite ==
    /\ "blob-storage" \in pods
    /\ version < MaxVersion
    /\ version' = version + 1
    /\ \E o \in Object, v \in {version', Absent} : blob' = [blob EXCEPT ![o] = v]
    /\ Disturb
    /\ UNCHANGED <<cluster, pods, database, set, operation, snapshot, interrupted, excused>>

\* Pods start and end some time after the count of their Deployment changed.
PodsFollow(d) ==
    /\ d \in pods <=> replicas[d] = 0
    /\ pods' = IF d \in pods THEN pods \ {d} ELSE pods \cup {d}
    /\ UNCHANGED <<cluster, data, set, process, interrupted, excused>>

-----------------------------------------------------------------------------
(* Steps the operations share.                                             *)

Goto(label) == pc' = label /\ UNCHANGED <<op, failed, pending, saved, notes>>

\* The process ends, and with it what it knew.
Return ==
    /\ pc' = "idle" /\ op' = "none" /\ failed' = FALSE /\ pending' = {} /\ saved' = 0
    /\ snapshot' = NoObject /\ disturbed' = FALSE

\* A step that changes nothing but goes on or gives up.
Checked(from, to) ==
    /\ pc = from
    /\ Goto(to) \/ Return
    /\ UNCHANGED <<cluster, pods, data, set, interrupted, excused>>

\* kubectl scale, by a caller that goes on at `ok` or leaves as `Error` says.
\* A command that fails may have had its effect.
Scale(d, n, Ok, Error) ==
    /\ UNCHANGED <<installed, pods, data, set, interrupted>>
    /\ \/ replicas' = [replicas EXCEPT ![d] = n] /\ Ok /\ UNCHANGED excused
       \/ /\ replicas' \in {replicas, [replicas EXCEPT ![d] = n]}
          /\ Error /\ excused' = TRUE

-----------------------------------------------------------------------------
(* runPostgresRecoveryBackup                                               *)

BeginBackup ==
    /\ pc = "idle" /\ ~interrupted /\ installed
    /\ EmptyDirectory
    /\ pc' = "configuration" /\ op' = "backup"
    /\ UNCHANGED <<cluster, pods, data, set, failed, pending, saved, notes, interrupted, excused>>

\* A file of the set is written; a failure may leave a part of it.
WriteMember(m, next) ==
    /\ pc = m
    /\ \/ member' = [member EXCEPT ![m] = "whole"] /\ Goto(next)
       \/ \E part \in {"absent", "part"} : member' = [member EXCEPT ![m] = part] /\ Return
    /\ UNCHANGED <<cluster, pods, data, dump, archive, manifest, interrupted, excused>>

\* Export: pg_dump streams one transaction's view into a temporary file,
\* which gets its name when it is complete.
Export ==
    /\ pc = "dump"
    /\ \/ database # Absent /\ dump' = database /\ Goto("verify dump")
       \/ UNCHANGED dump /\ Return
    /\ UNCHANGED <<cluster, pods, data, archive, member, manifest, interrupted, excused>>

VerifyRestore == Checked("verify dump", "replicas")

ReadReplicas ==
    /\ pc = "replicas"
    /\ \/ /\ replicas["blob-storage"] >= 1
          /\ pc' = "scale down" /\ saved' = replicas["blob-storage"]
          /\ UNCHANGED <<op, failed, pending, notes>>
       \/ Return
    /\ UNCHANGED <<cluster, pods, data, set, interrupted, excused>>

\* An error of this command returns before the count is put back.
ScaleDown ==
    /\ pc = "scale down"
    /\ Scale("blob-storage", 0, Goto("wait"), Return)

\* The deferred function follows, with the error of what failed.
Defer == pc' = "scale up" /\ failed' = TRUE /\ pending' = {} /\ UNCHANGED <<op, saved, notes>>

StartArchive ==
    /\ archive' = NoObject /\ snapshot' = blob
    /\ pc' = "archive" /\ pending' = Objects(blob)
    /\ UNCHANGED <<op, failed, saved, disturbed>>

\* Fault: the archive is made without waiting for the pods.
AwaitPods_skipped ==
    /\ pc = "wait"
    /\ StartArchive
    /\ UNCHANGED <<cluster, pods, data, dump, member, manifest, interrupted, excused>>

\* kubectl wait --for=delete, 120 seconds.
AwaitPods ==
    /\ pc = "wait"
    /\ \/ "blob-storage" \notin pods /\ StartArchive
       \/ Defer /\ UNCHANGED archive
    /\ UNCHANGED <<cluster, pods, data, dump, member, manifest, interrupted, excused>>

\* Fault: an error returns without putting the count back.
ArchiveObject_returns ==
    /\ pc = "archive"
    /\ \/ \E o \in pending : /\ archive' = [archive EXCEPT ![o] = blob[o]]
                             /\ pending' = pending \ {o}
                             /\ UNCHANGED <<pc, op, failed, saved, notes>>
       \/ pending = {} /\ Goto("scale up") /\ UNCHANGED archive
       \/ Return /\ UNCHANGED archive
    /\ UNCHANGED <<cluster, pods, data, dump, member, manifest, interrupted, excused>>

\* archiveDirectory, object by object.
ArchiveObject ==
    /\ pc = "archive"
    /\ \/ \E o \in pending : /\ archive' = [archive EXCEPT ![o] = blob[o]]
                             /\ pending' = pending \ {o}
                             /\ UNCHANGED <<pc, op, failed, saved, notes>>
       \/ pending = {} /\ Goto("scale up") /\ UNCHANGED archive
       \/ Defer /\ UNCHANGED archive
    /\ UNCHANGED <<cluster, pods, data, dump, member, manifest, interrupted, excused>>

\* The deferred scale to the count that was read, in a context of its own.
ScaleUp ==
    /\ pc = "scale up"
    /\ Scale("blob-storage", saved, Goto("rollout"), Return)

\* kubectl rollout status, and the error of the archive.
AwaitRollout ==
    /\ pc = "rollout"
    /\ \/ ~failed /\ "blob-storage" \in pods /\ Goto("receipt")
       \/ Return
    /\ UNCHANGED <<cluster, pods, data, set, interrupted, excused>>

\* Save: the manifest appears at once, with the digests computed so far.
SaveManifest ==
    /\ pc = "manifest"
    /\ \/ manifest' = Files /\ Goto("final")
       \/ UNCHANGED manifest /\ Return
    /\ UNCHANGED <<cluster, pods, data, dump, archive, member, interrupted, excused>>

FinalVerify ==
    /\ pc = "final"
    /\ Return
    /\ UNCHANGED <<cluster, pods, data, set, interrupted, excused>>

WriteConfiguration == WriteMember("configuration", "dump")
CopyReceipt == WriteMember("receipt", "scope")
WriteScope == WriteMember("scope", "manifest")

-----------------------------------------------------------------------------
(* runPostgresRecoveryRestore                                              *)

BeginRestore ==
    /\ pc = "idle" /\ ~interrupted /\ installed
    /\ manifest # NoManifest
    /\ pc' = "verify" /\ op' = "restore"
    /\ UNCHANGED <<cluster, pods, data, set, failed, pending, saved, notes, interrupted,
                   excused>>

\* Fault: the manifest is loaded but the files are not read.
VerifySet_skipped ==
    /\ pc = "verify"
    /\ Goto("quiesce controlplane")
    /\ UNCHANGED <<cluster, pods, data, set, interrupted, excused>>

VerifySet ==
    /\ pc = "verify"
    /\ \/ Verifies /\ Goto("quiesce controlplane")
       \/ Return
    /\ UNCHANGED <<cluster, pods, data, set, interrupted, excused>>

\* An error returns at once and leaves the earlier Deployments at zero.
Quiesce(d, label, next) == pc = label /\ Scale(d, 0, Goto(next), Return)

\* What fails from here on is reported after the Deployments are resumed.
Resume == pc' = "resume blob-storage" /\ failed' = TRUE /\ pending' = {} /\ UNCHANGED <<op, saved, notes>>

\* Fault: the old objects stay and the archive is written over them.
ClearBlobs_skipped ==
    /\ pc = "clear"
    /\ pc' = "extract" /\ pending' = Objects(archive) /\ UNCHANGED <<op, failed, saved, notes>>
    /\ UNCHANGED <<cluster, pods, data, set, interrupted, excused>>

\* restoreTar: os.RemoveAll of the blob root.
ClearBlobs ==
    /\ pc = "clear"
    /\ \/ \E o \in Objects(blob) : blob' = [blob EXCEPT ![o] = Absent]
          /\ UNCHANGED process
       \/ /\ Objects(blob) = {}
          /\ pc' = "extract" /\ pending' = Objects(archive)
          /\ UNCHANGED <<blob, op, failed, saved, notes>>
       \/ Resume /\ UNCHANGED blob
    /\ UNCHANGED <<cluster, pods, database, version, set, interrupted, excused>>

\* restoreTar: its entries, written over what is there.
ExtractBlobs ==
    /\ pc = "extract"
    /\ \/ \E o \in pending : /\ blob' = [blob EXCEPT ![o] = archive[o]]
                             /\ pending' = pending \ {o}
                             /\ UNCHANGED <<pc, op, failed, saved, notes>>
       \/ pending = {} /\ Goto("drop") /\ UNCHANGED blob
       \/ \E o \in pending : blob' \in {blob, [blob EXCEPT ![o] = Broken]} /\ Resume
    /\ UNCHANGED <<cluster, pods, database, version, set, interrupted, excused>>

\* kubectl cp of the dump, and psql, whose two statements are one transaction.
DropSchema ==
    /\ pc = "drop"
    /\ \/ database' = Fresh /\ Goto("load")
       \/ database' \in {database, Fresh} /\ Resume
    /\ UNCHANGED <<cluster, pods, blob, version, set, interrupted, excused>>

\* pg_restore, not in one transaction, into whatever the schema holds by now.
Load(from, Ok, Error) ==
    /\ pc = from
    /\ \/ database' = (IF database = Fresh THEN dump ELSE Broken) /\ Ok
       \/ database' \in {database, Broken} /\ Error
    /\ UNCHANGED <<pods, blob, version, set, interrupted>>

LoadDump ==
    /\ Load("load", Goto("resume blob-storage"), Resume)
    /\ UNCHANGED <<cluster, excused>>

\* Every Deployment gets one replica; the errors are dropped.
ResumeOne(d, label, next) ==
    /\ pc = label
    /\ Scale(d, 1, Goto(next), Goto(next))

\* The last one: the outcome.  All three were scaled, so all is up again
\* unless one of these commands failed.
ResumeLast ==
    /\ pc = "resume automation-runtime"
    /\ Scale("automation-runtime", 1, Return, Return)

-----------------------------------------------------------------------------
(* Install in bootstrap mode restore-recovery-set, on a target without an  *)
(* appliance and without a database directory.                             *)

BeginBootstrap ==
    /\ pc = "idle" /\ ~interrupted /\ ~installed
    /\ manifest # NoManifest
    /\ pc' = "check" /\ op' = "bootstrap"
    /\ UNCHANGED <<cluster, pods, data, set, failed, pending, saved, notes, interrupted,
                   excused>>

\* The set, then the database directory.
CheckTarget ==
    /\ pc = "check"
    /\ \/ /\ Verifies /\ database = Absent
          /\ pc' = "exclusive" /\ pending' = Objects(archive) /\ UNCHANGED <<op, failed, saved, notes>>
       \/ Return
    /\ UNCHANGED <<cluster, pods, data, set, interrupted, excused>>

\* restoreBootstrapBlobStorage: nothing is cleared, and an entry that exists
\* is an error.  The ace-infra release then brings PostgreSQL up.
ExtractExclusively ==
    /\ pc = "exclusive"
    /\ \/ \E o \in pending : /\ blob[o] = Absent
                             /\ blob' = [blob EXCEPT ![o] = archive[o]]
                             /\ pending' = pending \ {o}
                             /\ UNCHANGED <<pc, op, failed, saved, notes, database>>
       \/ pending = {} /\ database' = Fresh /\ Goto("bare load") /\ UNCHANGED blob
       \/ \E o \in pending : /\ blob' \in {blob} \cup (IF blob[o] = Absent
                                                      THEN {[blob EXCEPT ![o] = Broken]} ELSE {})
                             /\ Return /\ UNCHANGED database
    /\ UNCHANGED <<cluster, pods, version, set, interrupted, excused>>

\* restoreBootstrapPostgres: the control plane is not there yet.  A failure
\* rolls the releases back but keeps this mode's database directory.
LoadBare ==
    /\ Load("bare load", Goto("release"), Return)
    /\ UNCHANGED <<cluster, excused>>

\* The releases of the control plane, and the receipt.
Release ==
    /\ pc = "release"
    /\ Return
    /\ \/ installed' = TRUE /\ replicas' = Replicas /\ excused' = FALSE
       \/ UNCHANGED <<cluster, excused>>
    /\ UNCHANGED <<pods, data, set, interrupted>>

-----------------------------------------------------------------------------
(* Around the operations.                                                  *)

\* The set loses a file to its medium.
Decay ==
    /\ pc = "idle" /\ Verifies
    /\ \/ dump' = Broken /\ UNCHANGED archive
       \/ \E o \in Objects(archive) : archive' = [archive EXCEPT ![o] = Broken] /\ UNCHANGED dump
    /\ UNCHANGED <<cluster, pods, data, member, manifest, process, interrupted, excused>>

\* The operator empties the directory.
Discard ==
    /\ pc = "idle" /\ ~EmptyDirectory
    /\ dump' = Absent /\ archive' = NoArchive /\ manifest' = NoManifest
    /\ member' = [m \in Member |-> "absent"]
    /\ UNCHANGED <<cluster, pods, data, process, interrupted, excused>>

Crash ==
    /\ pc # "idle"
    /\ Return
    /\ interrupted' = TRUE /\ excused' = TRUE
    /\ UNCHANGED <<cluster, pods, data, set>>

\* Repair starts K3s and knows nothing of replica counts.
Repair ==
    /\ pc = "idle" /\ interrupted
    /\ interrupted' = FALSE
    /\ UNCHANGED <<cluster, pods, data, set, process, excused>>

\* The blob root is not among what factory-reset removes.
FactoryReset ==
    /\ pc = "idle"
    /\ installed' = FALSE /\ replicas' = [d \in Deployment |-> 0] /\ pods' = {}
    /\ database' = Absent
    /\ interrupted' = FALSE
    /\ UNCHANGED <<blob, version, set, process, excused>>

FreshInstall ==
    /\ pc = "idle" /\ ~interrupted /\ ~installed
    /\ database = Absent /\ version < MaxVersion
    /\ installed' = TRUE /\ replicas' = Replicas /\ excused' = FALSE
    /\ version' = version + 1 /\ database' = version'
    /\ UNCHANGED <<pods, blob, set, process, interrupted>>

-----------------------------------------------------------------------------
Backup ==
    \/ WriteConfiguration \/ Export \/ VerifyRestore \/ ReadReplicas \/ ScaleDown \/ AwaitPods
    \/ ArchiveObject \/ ScaleUp \/ AwaitRollout \/ CopyReceipt \/ WriteScope
    \/ SaveManifest \/ FinalVerify

Restore ==
    \/ VerifySet
    \/ Quiesce("controlplane", "quiesce controlplane", "quiesce automation-runtime")
    \/ Quiesce("automation-runtime", "quiesce automation-runtime", "quiesce blob-storage")
    \/ Quiesce("blob-storage", "quiesce blob-storage", "clear")
    \/ ClearBlobs \/ ExtractBlobs \/ DropSchema \/ LoadDump
    \/ ResumeOne("blob-storage", "resume blob-storage", "resume controlplane")
    \/ ResumeOne("controlplane", "resume controlplane", "resume automation-runtime")
    \/ ResumeLast

Bootstrap == CheckTarget \/ ExtractExclusively \/ LoadBare \/ Release

Step == Backup \/ Restore \/ Bootstrap

Next ==
    \/ BeginBackup \/ BeginRestore \/ BeginBootstrap \/ Step
    \/ DatabaseWrite \/ BlobWrite \/ \E d \in Deployment : PodsFollow(d)
    \/ Decay \/ Discard \/ Crash \/ Repair \/ FactoryReset \/ FreshInstall

Spec == Init /\ [][Next]_vars

\* Every command zonctl waits for has a timeout or ends by itself.
FairSpec == Spec /\ WF_vars(Step)

-----------------------------------------------------------------------------
(* Properties.                                                             *)

\* "an interrupted backup is never mistaken for a usable recovery point"
\* (recoveryset.go, Save), and the archive is blob storage as it stood at
\* one moment, with no request in flight (archiveQuiescedBlobStorage): a
\* manifest names whole files and the objects of the moment the last pod of
\* blob storage was gone.
PublishedIsAPointInTime ==
    [][manifest' \notin {manifest, NoManifest} =>
          /\ \A m \in Member : manifest'.member[m] = "whole"
          /\ manifest'.archive = snapshot]_vars

\* The data of the appliance is given up only under a set that verifies
\* (recoveryset.go: "restore adapters must call this before touching a
\* target").
LossOnlyUnderAVerifiedSet ==
    [][op = "restore" =>
          /\ database \in Version /\ database' \notin Version => Verifies
          /\ \A o \in Object : blob[o] # Absent /\ blob'[o] = Absent /\ version' = version => Verifies]_vars

\* The database and blob storage are those of the set.
TheSet == database = manifest.dump /\ blob = manifest.archive

\* A restore nobody wrote into has put back exactly the set: no object of the
\* replaced appliance is left ("Leaving files that were not in the recovery
\* set would create a mixed-time restore", restoreTar).
RestoredIsTheSet ==
    op = "restore" /\ pc = "resume blob-storage" /\ ~failed /\ ~disturbed => TheSet

\* An install in this mode on a "clean target" (docs/backup-restore.md), which
\* factory-reset promises to deliver (teardown.go), has exactly the set.
\* Expected to be violated.
BootstrappedIsTheSet == op = "bootstrap" /\ pc = "release" => TheSet

\* "This makes the outage explicit, bounded, and reversible" and "The original
\* replica count is read first and restored even when archiving fails"
\* (recovery_set_commands.go); a restore "restarts affected services"
\* (docs/backup-restore.md) even when it failed: whatever is scaled to zero, in
\* the end all is asked for again, unless zonctl died or a scale command failed.
Outage == installed /\ ~excused /\ \E d \in Deployment : replicas[d] = 0
OutageEnds == Outage ~> ~Outage

=============================================================================
