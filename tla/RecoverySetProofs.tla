------------------------- MODULE RecoverySetProofs -------------------------
(***************************************************************************)
(* Theorems about the recovery set, for any objects, any bound on the      *)
(* writes and any replica counts.                                          *)
(*                                                                         *)
(* The argument: a label says which files of the set the backup has behind *)
(* it (Gathered); from the wait for the pods on the Deployment of blob     *)
(* storage stays at zero, so that nobody writes while its objects are      *)
(* copied one by one (Archived).  Behind the verification nobody touches   *)
(* the set (Verified), and what a restore has put back so far is, object   *)
(* by object, what the set holds, unless a pod wrote (Putting).            *)
(***************************************************************************)
EXTENDS RecoverySet, TLAPS

BackupLabels ==
    {"configuration", "dump", "verify dump", "replicas", "scale down", "wait", "archive",
     "scale up", "rollout", "receipt", "scope", "manifest", "final"}
RestoreLabels ==
    {"quiesce controlplane", "quiesce automation-runtime", "quiesce blob-storage", "clear",
     "extract", "drop", "load", "resume blob-storage", "resume controlplane",
     "resume automation-runtime"}
BootstrapLabels == {"exclusive", "bare load", "release"}

\* Which operation a label belongs to.
Operating ==
    /\ op = "none" => pc = "idle"
    /\ op = "backup" => pc \in BackupLabels
    /\ op = "restore" => pc \in RestoreLabels \cup {"verify"}
    /\ op = "bootstrap" => pc \in BootstrapLabels \cup {"check"}

Gathered ==
    /\ pc \in BackupLabels \ {"configuration"} => member["configuration"] = "whole"
    /\ pc \in BackupLabels \ {"configuration", "dump"} => dump # Absent
    /\ pc \in {"scope", "manifest", "final"} => member["receipt"] = "whole"
    /\ pc \in {"manifest", "final"} => member["scope"] = "whole"
    /\ pc = "scale down" => saved >= 1

Archived ==
    /\ pc \in {"wait", "archive"} => replicas["blob-storage"] = 0
    /\ pc = "archive" =>
          /\ "blob-storage" \notin pods /\ blob = snapshot /\ archive \in Blobs
          /\ \A o \in Object : archive[o] = IF o \in pending THEN Absent ELSE snapshot[o]
    /\ pc \in {"scale up", "rollout"} /\ ~failed => archive = snapshot
    /\ pc \in {"receipt", "scope", "manifest", "final"} => archive = snapshot

Verified == pc \in RestoreLabels \cup BootstrapLabels => Verifies

Putting ==
    /\ pc = "extract" /\ ~disturbed =>
          \A o \in Object : blob[o] = IF o \in pending THEN Absent ELSE archive[o]
    /\ pc \in {"drop", "load"} /\ ~disturbed => blob = archive
    /\ pc = "load" /\ ~disturbed => database = Fresh
    /\ pc = "resume blob-storage" /\ ~failed /\ ~disturbed => TheSet

RecoveryInv == TypeOK /\ Operating /\ Gathered /\ Archived /\ Verified /\ Putting

-----------------------------------------------------------------------------
(* Types, and which operation runs.                                        *)

ClusterTypes ==
    /\ installed \in BOOLEAN /\ interrupted \in BOOLEAN /\ excused \in BOOLEAN
    /\ replicas \in [Deployment -> Nat] /\ pods \subseteq Deployment

DataTypes ==
    /\ database \in Version \cup {Absent, Broken, Fresh}
    /\ blob \in Blobs /\ version \in Version

SetTypes ==
    /\ dump \in Version \cup {Absent, Broken, Fresh}
    /\ archive \in Blobs \cup {NoArchive}
    /\ member \in [Member -> {"absent", "part", "whole"}]
    /\ manifest \in Manifest \cup {NoManifest}

OperationTypes ==
    /\ pc \in Label /\ op \in {"none", "backup", "restore", "bootstrap"}
    /\ failed \in BOOLEAN /\ pending \subseteq Object
    /\ saved \in Nat /\ (pc \in Quiesced => saved >= 1)
    /\ snapshot \in Blobs /\ disturbed \in BOOLEAN

Types == ClusterTypes /\ DataTypes /\ SetTypes /\ OperationTypes

LEMMA TypeParts == TypeOK <=> Types
BY DEF TypeOK, Types, ClusterTypes, DataTypes, SetTypes, OperationTypes

LEMMA TypesNext == Types' => TypeOK'
BY DEF TypeOK, Types, ClusterTypes, DataTypes, SetTypes, OperationTypes

\* The values.
LEMMA Values ==
    /\ Version \subseteq Nat /\ Absent \notin Version /\ Broken \notin Version /\ Fresh \notin Version
    /\ Fresh # Absent /\ Broken # Absent /\ 1 \in Version
    /\ NoObject \in Blobs /\ NoArchive \notin Blobs /\ NoManifest \notin Manifest
    /\ "blob-storage" \in Deployment /\ "controlplane" \in Deployment /\ "automation-runtime" \in Deployment
    /\ "configuration" \in Member /\ "receipt" \in Member /\ "scope" \in Member
BY VersionAssumption, NullAssumption
   DEF Version, Absent, Broken, Fresh, NoObject, Blobs, Deployment, Member

LEMMA NextVersion == version \in Version /\ version < MaxVersion => version + 1 \in Version
BY VersionAssumption DEF Version

\* A set that verifies holds what its manifest says, and is complete.
LEMMA VerifiedSet ==
    SetTypes /\ Verifies => /\ manifest \in Manifest /\ archive \in Blobs
                            /\ archive = manifest.archive /\ dump = manifest.dump /\ dump # Absent
BY Values DEF SetTypes, Verifies, Files, Manifest

\* The process ends.
LEMMA Returned ==
    ASSUME Return
    PROVE  OperationTypes' /\ Operating' /\ Gathered' /\ Archived' /\ Verified' /\ Putting'
BY Values DEF Return, OperationTypes, Operating, Gathered, Archived, Verified, Putting, Label,
   Quiesced, Replacing, BackupLabels, RestoreLabels, BootstrapLabels

LEMMA NextOperation == Types /\ Operating /\ Gathered /\ Next => OperationTypes' /\ Operating'
<1> SUFFICES ASSUME Types, Operating, Gathered, Next PROVE OperationTypes' /\ Operating'
  OBVIOUS
<1>0. /\ OperationTypes /\ DataTypes /\ SetTypes /\ pending \subseteq Object /\ failed \in BOOLEAN
      /\ snapshot \in Blobs /\ blob \in Blobs /\ saved \in Nat /\ replicas \in [Deployment -> Nat]
  BY DEF Types, OperationTypes, DataTypes, ClusterTypes
<1>b. Objects(blob) \subseteq Object /\ Objects(archive) \subseteq Object
  BY DEF Objects
<1> USE <1>0, <1>b
<1>s. Return => OperationTypes' /\ Operating'
  BY Returned
<1>1. CASE BeginBackup \/ BeginRestore \/ BeginBootstrap
  BY <1>1 DEF BeginBackup, BeginRestore, BeginBootstrap, OperationTypes, Operating, Label, Quiesced,
     Replacing, BackupLabels, RestoreLabels, BootstrapLabels, notes
<1>2. CASE Backup
  <2>1. \/ Return
        \/ /\ pc \in BackupLabels /\ pc' \in BackupLabels /\ op' = op
           /\ pending' \subseteq Object /\ failed' \in BOOLEAN /\ snapshot' \in Blobs
           /\ disturbed' = disturbed
           /\ \/ saved' = saved /\ (pc' \in Quiesced => saved >= 1)
              \/ saved' \in Nat /\ pc' = "scale down"
    <3>1. CASE WriteConfiguration \/ CopyReceipt \/ WriteScope \/ Export \/ VerifyRestore
      BY <3>1 DEF WriteConfiguration, CopyReceipt, WriteScope, WriteMember, Export, VerifyRestore,
         Checked, Goto, notes, BackupLabels, Quiesced
    <3>2. CASE ReadReplicas
      BY <3>2, Values DEF ReadReplicas, notes, BackupLabels
    <3>3. CASE ScaleDown
      BY <3>3 DEF ScaleDown, Scale, Goto, notes, BackupLabels, Gathered
    <3>4. CASE AwaitPods \/ ArchiveObject
      BY <3>4 DEF AwaitPods, ArchiveObject, StartArchive, Defer, Goto, notes, BackupLabels,
         OperationTypes, Quiesced
    <3>5. CASE ScaleUp \/ AwaitRollout \/ SaveManifest \/ FinalVerify
      BY <3>5 DEF ScaleUp, Scale, AwaitRollout, SaveManifest, FinalVerify, Goto, notes, BackupLabels,
         Quiesced
    <3> QED BY <1>2, <3>1, <3>2, <3>3, <3>4, <3>5 DEF Backup
  <2>2. CASE ~Return
    BY <2>1, <2>2 DEF OperationTypes, Operating, Label, Quiesced, Replacing, BackupLabels,
       RestoreLabels, BootstrapLabels
  <2> QED BY <2>2, <1>s
<1>3. CASE Restore
  <2>1. \/ Return
        \/ /\ pc \in RestoreLabels \cup {"verify"} /\ pc' \in RestoreLabels
           /\ op' = op /\ saved' = saved /\ disturbed' = disturbed /\ snapshot' = snapshot
           /\ pending' \subseteq Object /\ failed' \in BOOLEAN
    <3>1. CASE VerifySet
      BY <3>1 DEF VerifySet, Goto, notes, RestoreLabels
    <3>2. ASSUME NEW d, NEW label \in RestoreLabels, NEW next \in RestoreLabels,
                 Quiesce(d, label, next) \/ ResumeOne(d, label, next)
          PROVE  \/ Return
                 \/ /\ pc \in RestoreLabels /\ pc' \in RestoreLabels
                    /\ UNCHANGED <<op, saved, disturbed, snapshot, pending, failed>>
      BY <3>2 DEF Quiesce, ResumeOne, Scale, Goto, notes
    <3>3. CASE ClearBlobs
      BY <3>3 DEF ClearBlobs, Resume, process, operation, notes, RestoreLabels
    <3>4. CASE ExtractBlobs
      BY <3>4 DEF ExtractBlobs, Resume, Goto, notes, RestoreLabels
    <3>5. CASE DropSchema \/ LoadDump
      BY <3>5 DEF DropSchema, LoadDump, Load, Resume, Goto, notes, RestoreLabels
    <3>6. CASE ResumeLast
      BY <3>6 DEF ResumeLast, Scale
    <3>7. \/ VerifySet \/ ClearBlobs \/ ExtractBlobs \/ DropSchema \/ LoadDump \/ ResumeLast
          \/ \E d \in Deployment, label \in RestoreLabels, next \in RestoreLabels :
                Quiesce(d, label, next) \/ ResumeOne(d, label, next)
      BY <1>3, Values DEF Restore, RestoreLabels
    <3> QED BY <3>1, <3>2, <3>3, <3>4, <3>5, <3>6, <3>7
  <2>2. CASE ~Return
    BY <2>1, <2>2 DEF OperationTypes, Operating, Label, Quiesced, Replacing, BackupLabels,
       RestoreLabels, BootstrapLabels
  <2> QED BY <2>2, <1>s
<1>4. CASE Bootstrap
  <2>1. \/ Return
        \/ /\ pc \in BootstrapLabels \cup {"check"} /\ pc' \in BootstrapLabels
           /\ op' = op /\ saved' = saved /\ disturbed' = disturbed /\ snapshot' = snapshot
           /\ pending' \subseteq Object /\ failed' = failed
    BY <1>4 DEF Bootstrap, CheckTarget, ExtractExclusively, LoadBare, Load, Release, Goto, notes,
       BootstrapLabels
  <2>2. CASE ~Return
    BY <2>1, <2>2 DEF OperationTypes, Operating, Label, Quiesced, Replacing, BackupLabels,
       RestoreLabels, BootstrapLabels
  <2> QED BY <2>2, <1>s
<1>5. CASE DatabaseWrite \/ BlobWrite
  BY <1>5 DEF DatabaseWrite, BlobWrite, Disturb, operation, OperationTypes, Operating
<1>6. CASE Crash
  BY <1>6, <1>s DEF Crash
<1>7. CASE UNCHANGED process
  BY <1>7 DEF process, operation, notes, OperationTypes, Operating
<1>8. Decay \/ Discard \/ Repair \/ FactoryReset \/ FreshInstall \/ (\E d \in Deployment : PodsFollow(d))
         => UNCHANGED process
  BY DEF Decay, Discard, Repair, FactoryReset, FreshInstall, PodsFollow
<1> QED BY <1>1, <1>2, <1>3, <1>4, <1>5, <1>6, <1>7, <1>8 DEF Next, Step

LEMMA NextCluster == Types /\ Next => ClusterTypes'
<1> SUFFICES ASSUME Types, Next PROVE ClusterTypes'
  OBVIOUS
<1>0. ClusterTypes /\ OperationTypes
  BY DEF Types
<1> USE <1>0
<1>1. ASSUME NEW d \in Deployment, NEW n \in Nat, replicas' \in {replicas, [replicas EXCEPT ![d] = n]},
             excused' \in {excused, TRUE}, UNCHANGED <<installed, pods, interrupted>>
      PROVE  ClusterTypes'
  BY <1>1 DEF ClusterTypes
<1>2. CASE ScaleDown \/ ScaleUp
  <2>1. \E n \in Nat : /\ replicas' \in {replicas, [replicas EXCEPT !["blob-storage"] = n]}
                       /\ excused' \in {excused, TRUE} /\ UNCHANGED <<installed, pods, interrupted>>
    <3>1. saved \in Nat
      BY DEF OperationTypes
    <3> QED BY <1>2, <3>1 DEF ScaleDown, ScaleUp, Scale
  <2> QED BY <2>1, <1>1, Values
<1>3. CASE Restore
  <2>1. ASSUME NEW d \in Deployment, NEW label, NEW next, Quiesce(d, label, next) \/ ResumeOne(d, label, next)
        PROVE  ClusterTypes'
    BY <2>1, <1>1 DEF Quiesce, ResumeOne, Scale
  <2>2. CASE ResumeLast
    BY <2>2, <1>1, Values DEF ResumeLast, Scale
  <2>3. CASE VerifySet \/ ClearBlobs \/ ExtractBlobs \/ DropSchema \/ LoadDump
    BY <2>3 DEF VerifySet, ClearBlobs, ExtractBlobs, DropSchema, LoadDump, Load, cluster, ClusterTypes
  <2> QED BY <1>3, <2>1, <2>2, <2>3, Values DEF Restore
<1>4. CASE Bootstrap
  <2>1. CASE Release
    BY <2>1, ReplicaAssumption DEF Release, cluster, ClusterTypes
  <2>2. CASE CheckTarget \/ ExtractExclusively \/ LoadBare
    BY <2>2 DEF CheckTarget, ExtractExclusively, LoadBare, Load, cluster, ClusterTypes
  <2> QED BY <1>4, <2>1, <2>2 DEF Bootstrap
<1>5. CASE Backup
  <2>1. CASE WriteConfiguration \/ CopyReceipt \/ WriteScope \/ Export \/ VerifyRestore \/ ReadReplicas
    BY <2>1 DEF WriteConfiguration, CopyReceipt, WriteScope, WriteMember, Export, VerifyRestore, Checked,
       ReadReplicas, cluster, ClusterTypes
  <2>2. CASE AwaitPods \/ ArchiveObject \/ AwaitRollout \/ SaveManifest \/ FinalVerify
    BY <2>2 DEF AwaitPods, ArchiveObject, AwaitRollout, SaveManifest, FinalVerify, cluster, ClusterTypes
  <2> QED BY <1>2, <1>5, <2>1, <2>2 DEF Backup
<1>6. CASE BeginBackup \/ BeginRestore \/ BeginBootstrap \/ DatabaseWrite \/ BlobWrite \/ Decay \/ Discard
  BY <1>6 DEF BeginBackup, BeginRestore, BeginBootstrap, DatabaseWrite, BlobWrite, Decay, Discard,
     cluster, ClusterTypes
<1>7. CASE Crash \/ Repair
  BY <1>7 DEF Crash, Repair, cluster, ClusterTypes
<1>f. CASE FactoryReset
  BY <1>f DEF FactoryReset, cluster, ClusterTypes
<1>g. CASE FreshInstall
  BY <1>g, ReplicaAssumption DEF FreshInstall, cluster, ClusterTypes
<1>8. ASSUME NEW d \in Deployment, PodsFollow(d) PROVE ClusterTypes'
  BY <1>8 DEF PodsFollow, cluster, ClusterTypes
<1> QED BY <1>3, <1>4, <1>5, <1>6, <1>7, <1>f, <1>g, <1>8 DEF Next, Step

LEMMA NextData == Types /\ Verified /\ Next => DataTypes'
<1> SUFFICES ASSUME Types, Verified, Next PROVE DataTypes'
  OBVIOUS
<1>0. DataTypes /\ SetTypes /\ OperationTypes
  BY DEF Types
<1> USE <1>0
<1>v. pc \in RestoreLabels \cup BootstrapLabels => archive \in Blobs
  BY VerifiedSet DEF Verified
<1>u. CASE UNCHANGED data
  BY <1>u DEF data, DataTypes
<1>1. CASE DatabaseWrite \/ BlobWrite
  <2>1. version < MaxVersion /\ version' = version + 1 /\ version' \in Version
    BY <1>1, NextVersion DEF DatabaseWrite, BlobWrite, DataTypes
  <2>2. CASE DatabaseWrite
    BY <2>1, <2>2 DEF DatabaseWrite, DataTypes
  <2>3. CASE BlobWrite
    BY <2>1, <2>3 DEF BlobWrite, DataTypes, Blobs
  <2> QED BY <1>1, <2>2, <2>3
<1>2. CASE ClearBlobs
  BY <1>2 DEF ClearBlobs, DataTypes, Blobs
<1>3. CASE ExtractBlobs
  <2>1. pending \subseteq Object /\ archive \in Blobs
    BY <1>3, <1>v DEF ExtractBlobs, RestoreLabels, OperationTypes
  <2> QED BY <1>3, <2>1 DEF ExtractBlobs, DataTypes, Blobs
<1>4. CASE ExtractExclusively
  <2>1. pending \subseteq Object /\ archive \in Blobs
    BY <1>4, <1>v DEF ExtractExclusively, BootstrapLabels, OperationTypes
  <2> QED BY <1>4, <2>1 DEF ExtractExclusively, DataTypes, Blobs
<1>5. CASE DropSchema \/ LoadDump \/ LoadBare
  BY <1>5 DEF DropSchema, LoadDump, LoadBare, Load, DataTypes, SetTypes
<1>6. CASE FactoryReset
  BY <1>6 DEF FactoryReset, DataTypes
<1>7. CASE FreshInstall
  BY <1>7, NextVersion DEF FreshInstall, DataTypes
<1>8. CASE Backup
  <2>1. CASE WriteConfiguration \/ CopyReceipt \/ WriteScope \/ Export \/ VerifyRestore \/ ReadReplicas
    BY <1>u, <2>1 DEF WriteConfiguration, CopyReceipt, WriteScope, WriteMember, Export, VerifyRestore,
       Checked, ReadReplicas
  <2>2. CASE ScaleDown \/ ScaleUp \/ AwaitPods \/ ArchiveObject \/ AwaitRollout \/ SaveManifest \/ FinalVerify
    BY <1>u, <2>2 DEF ScaleDown, ScaleUp, Scale, AwaitPods, ArchiveObject, AwaitRollout, SaveManifest,
       FinalVerify
  <2> QED BY <1>8, <2>1, <2>2 DEF Backup
<1>9. CASE Restore
  <2>1. VerifySet \/ ResumeLast => UNCHANGED data
    BY DEF VerifySet, ResumeLast, Scale
  <2>2. ASSUME NEW d, NEW label, NEW next, Quiesce(d, label, next) \/ ResumeOne(d, label, next)
        PROVE  UNCHANGED data
    BY <2>2 DEF Quiesce, ResumeOne, Scale
  <2> QED BY <1>2, <1>3, <1>5, <1>9, <1>u, <2>1, <2>2 DEF Restore
<1>10. CheckTarget \/ Release => UNCHANGED data
  BY DEF CheckTarget, Release
<1>11. BeginBackup \/ BeginRestore \/ BeginBootstrap \/ Decay \/ Discard \/ Crash \/ Repair => UNCHANGED data
  BY DEF BeginBackup, BeginRestore, BeginBootstrap, Decay, Discard, Crash, Repair
<1>12. ASSUME NEW d, PodsFollow(d) PROVE UNCHANGED data
  BY <1>12 DEF PodsFollow
<1> QED BY <1>u, <1>1, <1>4, <1>5, <1>6, <1>7, <1>8, <1>9, <1>10, <1>11, <1>12 DEF Next, Step, Bootstrap

LEMMA NextSet == Types /\ Gathered /\ Archived /\ Next => SetTypes'
<1> SUFFICES ASSUME Types, Gathered, Archived, Next PROVE SetTypes'
  OBVIOUS
<1>0. DataTypes /\ SetTypes /\ OperationTypes
  BY DEF Types
<1> USE <1>0
<1>u. CASE UNCHANGED set
  BY <1>u DEF set, SetTypes
<1>1. CASE WriteConfiguration \/ CopyReceipt \/ WriteScope
  BY <1>1, Values DEF WriteConfiguration, CopyReceipt, WriteScope, WriteMember, SetTypes
<1>2. CASE Export
  BY <1>2 DEF Export, SetTypes, DataTypes
<1>3. CASE AwaitPods
  BY <1>3, Values DEF AwaitPods, StartArchive, SetTypes
<1>4. CASE ArchiveObject
  <2>1. archive \in Blobs /\ pending \subseteq Object
    BY <1>4 DEF ArchiveObject, Archived, OperationTypes
  <2> QED BY <1>4, <2>1 DEF ArchiveObject, SetTypes, DataTypes, Blobs
<1>5. CASE SaveManifest
  <2>1. dump # Absent /\ archive \in Blobs
    BY <1>5 DEF SaveManifest, Gathered, Archived, BackupLabels, OperationTypes
  <2> QED BY <1>5, <2>1 DEF SaveManifest, SetTypes, Files, Manifest
<1>6. CASE Decay
  <2>1. archive \in Blobs
    BY <1>6, VerifiedSet DEF Decay
  <2> QED BY <1>6, <2>1 DEF Decay, Objects, SetTypes, Blobs
<1>7. CASE Discard
  BY <1>7 DEF Discard, SetTypes
<1>8. CASE Backup
  <2>1. VerifyRestore \/ ReadReplicas \/ ScaleDown \/ ScaleUp \/ AwaitRollout \/ FinalVerify => UNCHANGED set
    BY DEF VerifyRestore, Checked, ReadReplicas, ScaleDown, ScaleUp, Scale, AwaitRollout, FinalVerify
  <2> QED BY <1>1, <1>2, <1>3, <1>4, <1>5, <1>8, <1>u, <2>1 DEF Backup
<1>9. Restore => UNCHANGED set
  BY DEF Restore, VerifySet, Quiesce, ClearBlobs, ExtractBlobs, DropSchema, LoadDump, Load, ResumeOne,
     ResumeLast, Scale
<1>10. Bootstrap => UNCHANGED set
  BY DEF Bootstrap, CheckTarget, ExtractExclusively, LoadBare, Load, Release
<1>11. BeginBackup \/ BeginRestore \/ BeginBootstrap \/ DatabaseWrite \/ BlobWrite => UNCHANGED set
  BY DEF BeginBackup, BeginRestore, BeginBootstrap, DatabaseWrite, BlobWrite
<1>12. Crash \/ Repair \/ FactoryReset \/ FreshInstall => UNCHANGED set
  BY DEF Crash, Repair, FactoryReset, FreshInstall
<1>13. ASSUME NEW d, PodsFollow(d) PROVE UNCHANGED set
  BY <1>13 DEF PodsFollow
<1> QED BY <1>u, <1>6, <1>7, <1>8, <1>9, <1>10, <1>11, <1>12, <1>13 DEF Next, Step

-----------------------------------------------------------------------------
(* What an operation has behind it.                                        *)

Begin == BeginBackup \/ BeginRestore \/ BeginBootstrap
Write == DatabaseWrite \/ BlobWrite
Idle == Decay \/ Discard \/ Repair \/ FactoryReset \/ FreshInstall

\* Where each kind of step starts and ends.
LEMMA Places ==
    /\ Backup => pc \in BackupLabels
    /\ Restore => /\ pc \in RestoreLabels \cup {"verify"} /\ pc' \in RestoreLabels \cup {"idle"}
                  /\ UNCHANGED set
    /\ Bootstrap => /\ pc \in BootstrapLabels \cup {"check"} /\ pc' \in BootstrapLabels \cup {"idle"}
                    /\ UNCHANGED set
    /\ Begin => pc' \in {"configuration", "verify", "check"} /\ UNCHANGED set
    /\ Write => UNCHANGED <<cluster, pods, set, operation, snapshot>> /\ disturbed' = (disturbed \/ pc \in Replacing)
    /\ \A d : PodsFollow(d) => UNCHANGED <<cluster, data, set, process>>
    /\ Idle => pc' = "idle"
    /\ Crash => Return
<1>1. Backup => pc \in BackupLabels
  BY DEF Backup, WriteConfiguration, CopyReceipt, WriteScope, WriteMember, Export, VerifyRestore, Checked,
     ReadReplicas, ScaleDown, AwaitPods, ArchiveObject, ScaleUp, AwaitRollout, SaveManifest, FinalVerify,
     BackupLabels
<1>2. Restore => pc \in RestoreLabels \cup {"verify"} /\ pc' \in RestoreLabels \cup {"idle"}
  BY DEF Restore, VerifySet, Quiesce, ClearBlobs, ExtractBlobs, DropSchema, LoadDump, Load, ResumeOne,
     ResumeLast, Scale, Goto, Return, Resume, process, operation, RestoreLabels
<1>3. Restore => UNCHANGED set
  BY DEF Restore, VerifySet, Quiesce, ClearBlobs, ExtractBlobs, DropSchema, LoadDump, Load, ResumeOne,
     ResumeLast, Scale
<1>4. Bootstrap => /\ pc \in BootstrapLabels \cup {"check"} /\ pc' \in BootstrapLabels \cup {"idle"}
                   /\ UNCHANGED set
  BY DEF Bootstrap, CheckTarget, ExtractExclusively, LoadBare, Load, Release, Goto, Return, BootstrapLabels
<1>5. Begin => pc' \in {"configuration", "verify", "check"} /\ UNCHANGED set
  BY DEF Begin, BeginBackup, BeginRestore, BeginBootstrap
<1>6. Write => UNCHANGED <<cluster, pods, set, operation, snapshot>> /\ disturbed' = (disturbed \/ pc \in Replacing)
  BY DEF Write, DatabaseWrite, BlobWrite, Disturb
<1>7. \A d : PodsFollow(d) => UNCHANGED <<cluster, data, set, process>>
  BY DEF PodsFollow
<1>8. Idle => pc' = "idle"
  BY DEF Idle, Decay, Discard, Repair, FactoryReset, FreshInstall, process, operation
<1>9. Crash => Return
  BY DEF Crash
<1> QED BY <1>1, <1>2, <1>3, <1>4, <1>5, <1>6, <1>7, <1>8, <1>9

LEMMA Kinds ==
    Next => \/ Begin \/ Backup \/ Restore \/ Bootstrap \/ Write \/ Idle \/ Crash
            \/ \E d \in Deployment : PodsFollow(d)
BY DEF Next, Step, Begin, Write, Idle

LEMMA NextGathered == Types /\ Gathered /\ Next => Gathered'
<1> SUFFICES ASSUME Types, Gathered, Next PROVE Gathered'
  OBVIOUS
<1>0. SetTypes /\ OperationTypes
  BY DEF Types
<1>t. pc' \notin BackupLabels => Gathered'
  BY DEF Gathered, BackupLabels
<1>u. CASE UNCHANGED <<pc, saved, dump, member>>
  BY <1>u DEF Gathered
<1>1. CASE Backup
  <2>1. CASE WriteConfiguration \/ CopyReceipt \/ WriteScope
    BY <1>0, <1>t, <2>1, Values DEF WriteConfiguration, CopyReceipt, WriteScope, WriteMember, Goto, Return,
       Gathered, BackupLabels, SetTypes
  <2>2. CASE Export
    BY <1>0, <1>t, <2>2 DEF Export, Goto, Return, Gathered, BackupLabels
  <2>3. CASE VerifyRestore \/ ReadReplicas
    BY <1>t, <2>3 DEF VerifyRestore, Checked, ReadReplicas, Goto, Return, Gathered, BackupLabels, set
  <2>4. CASE ScaleDown \/ ScaleUp \/ AwaitRollout
    BY <1>t, <2>4 DEF ScaleDown, ScaleUp, Scale, AwaitRollout, Goto, Return, Gathered, BackupLabels, set
  <2>5. CASE AwaitPods \/ ArchiveObject
    BY <1>t, <2>5 DEF AwaitPods, ArchiveObject, StartArchive, Defer, Goto, Gathered, BackupLabels
  <2>6. CASE SaveManifest \/ FinalVerify
    BY <1>t, <2>6 DEF SaveManifest, FinalVerify, Goto, Return, Gathered, BackupLabels
  <2> QED BY <1>1, <2>1, <2>2, <2>3, <2>4, <2>5, <2>6 DEF Backup
<1>2. Restore \/ Bootstrap \/ Idle \/ Crash => pc' \notin BackupLabels
  BY Places DEF BackupLabels, RestoreLabels, BootstrapLabels, Return
<1>3. CASE Begin
  BY <1>3, Places DEF Gathered, BackupLabels
<1>4. Write \/ (\E d \in Deployment : PodsFollow(d)) => UNCHANGED <<pc, saved, dump, member>>
  BY Places DEF operation, process, set
<1> QED BY <1>t, <1>u, <1>1, <1>2, <1>3, <1>4, Kinds

LEMMA NextArchived == Types /\ Archived /\ Next => Archived'
<1> SUFFICES ASSUME Types, Archived, Next PROVE Archived'
  OBVIOUS
<1>0. SetTypes /\ OperationTypes /\ DataTypes /\ ClusterTypes
  BY DEF Types
<1>t. pc' \notin {"wait", "archive", "scale up", "rollout", "receipt", "scope", "manifest", "final"} => Archived'
  BY DEF Archived
<1>u. CASE UNCHANGED <<replicas, pods, data, set, process>>
  BY <1>u DEF Archived, data, set, process, operation, notes
<1>1. CASE Backup
  <2>1. CASE WriteConfiguration \/ Export \/ VerifyRestore \/ ReadReplicas
    BY <1>t, <2>1 DEF WriteConfiguration, WriteMember, Export, VerifyRestore, Checked, ReadReplicas, Goto, Return
  <2>2. CASE CopyReceipt \/ WriteScope \/ SaveManifest \/ FinalVerify
    BY <1>t, <2>2 DEF CopyReceipt, WriteScope, WriteMember, SaveManifest, FinalVerify, Goto, Return, notes, Archived
  <2>3. CASE ScaleDown
    <3>1. CASE pc' = "wait" /\ replicas' = [replicas EXCEPT !["blob-storage"] = 0]
      BY <1>0, <3>1, Values DEF Archived, ClusterTypes
    <3>2. CASE Return
      BY <3>2, Returned
    <3> QED BY <2>3, <3>1, <3>2 DEF ScaleDown, Scale, Goto
  <2>4. CASE AwaitPods
    <3>1. CASE StartArchive /\ "blob-storage" \notin pods
      <4>1. \A o \in Object : archive'[o] = IF o \in pending' THEN Absent ELSE snapshot'[o]
        BY <3>1 DEF StartArchive, NoObject, Objects
      <4> QED BY <1>0, <2>4, <3>1, <4>1, Values DEF AwaitPods, StartArchive, Archived, cluster, data
    <3>2. CASE Defer
      BY <2>4, <3>2 DEF AwaitPods, Defer, Archived
    <3> QED BY <2>4, <3>1, <3>2 DEF AwaitPods
  <2>5. CASE ArchiveObject
    <3>0. pc = "archive" /\ archive \in Blobs /\ blob = snapshot /\ pending \subseteq Object /\ snapshot \in Blobs
      BY <1>0, <2>5 DEF ArchiveObject, Archived, OperationTypes
    <3>1. ASSUME NEW o \in pending, archive' = [archive EXCEPT ![o] = blob[o]], pending' = pending \ {o},
                 UNCHANGED <<pc, op, failed, saved, notes>>
          PROVE  Archived'
      <4>1. archive' \in Blobs
        BY <3>0, <3>1 DEF Blobs
      <4>2. \A p \in Object : archive'[p] = IF p \in pending' THEN Absent ELSE snapshot[p]
        BY <3>0, <3>1 DEF Archived, Blobs
      <4> QED BY <2>5, <3>0, <3>1, <4>1, <4>2 DEF ArchiveObject, Archived, cluster, data, notes
    <3>2. CASE pending = {} /\ Goto("scale up") /\ UNCHANGED archive
      <4>1. \A o \in Object : archive[o] = snapshot[o]
        BY <3>0, <3>2 DEF Archived
      <4>2. archive = snapshot
        BY <3>0, <4>1 DEF Blobs
      <4> QED BY <3>2, <4>2 DEF Goto, notes, Archived
    <3>3. CASE Defer
      BY <3>3 DEF Defer, Archived
    <3> QED BY <2>5, <3>1, <3>2, <3>3 DEF ArchiveObject
  <2>6. CASE ScaleUp \/ AwaitRollout
    BY <1>t, <2>6 DEF ScaleUp, Scale, AwaitRollout, Goto, Return, notes, set, Archived
  <2> QED BY <1>1, <2>1, <2>2, <2>3, <2>4, <2>5, <2>6 DEF Backup
<1>2. Restore \/ Bootstrap \/ Idle \/ Crash \/ Begin => Archived'
  BY <1>t, Places DEF RestoreLabels, BootstrapLabels, Return
<1>3. CASE Write
  <2>1. UNCHANGED <<replicas, pods, archive, pc, pending, failed, snapshot>>
    BY <1>3, Places DEF cluster, set, operation
  <2>2. "blob-storage" \notin pods => UNCHANGED blob
    BY <1>3 DEF Write, DatabaseWrite, BlobWrite
  <2> QED BY <2>1, <2>2 DEF Archived
<1>4. ASSUME NEW d \in Deployment, PodsFollow(d) PROVE Archived'
  <2>1. UNCHANGED <<replicas, archive, blob, pc, pending, failed, snapshot>>
    BY <1>4, Places DEF cluster, data, set, process, operation, notes
  <2>2. replicas["blob-storage"] = 0 /\ "blob-storage" \notin pods => "blob-storage" \notin pods'
    BY <1>4 DEF PodsFollow
  <2> QED BY <2>1, <2>2 DEF Archived
<1> QED BY <1>1, <1>2, <1>3, <1>4, Kinds

LEMMA NextVerified == Types /\ Verified /\ Next => Verified'
<1> SUFFICES ASSUME Types, Verified, Next PROVE Verified'
  OBVIOUS
<1>t. pc' \notin RestoreLabels \cup BootstrapLabels => Verified'
  BY DEF Verified
<1>u. UNCHANGED set /\ Verifies => Verified'
  BY DEF set, Verified, Verifies, Files
<1>1. CASE Restore \/ Bootstrap
  <2>1. CASE pc \in {"verify", "check"}
    <3>1. Restore /\ pc = "verify" => VerifySet
      BY DEF Restore, Quiesce, ClearBlobs, ExtractBlobs, DropSchema, LoadDump, Load, ResumeOne, ResumeLast
    <3>2. Bootstrap /\ pc = "check" => CheckTarget
      BY DEF Bootstrap, ExtractExclusively, LoadBare, Load, Release
    <3>3. pc' = "idle" \/ Verifies
      BY <1>1, <2>1, <3>1, <3>2, Places DEF VerifySet, CheckTarget, Return, RestoreLabels, BootstrapLabels
    <3> QED BY <1>1, <1>t, <1>u, <3>3, Places DEF RestoreLabels, BootstrapLabels
  <2>2. CASE pc \notin {"verify", "check"}
    BY <1>1, <1>u, <2>2, Places DEF Verified
  <2> QED BY <2>1, <2>2
<1>2. CASE Backup
  <2>1. pc' \in BackupLabels \cup {"idle"}
    BY <1>2 DEF Backup, WriteConfiguration, CopyReceipt, WriteScope, WriteMember, Export, VerifyRestore,
       Checked, ReadReplicas, ScaleDown, Scale, AwaitPods, StartArchive, ArchiveObject, Defer, ScaleUp,
       AwaitRollout, SaveManifest, FinalVerify, Goto, Return, BackupLabels
  <2> QED BY <1>t, <2>1 DEF BackupLabels, RestoreLabels, BootstrapLabels
<1>3. CASE Begin \/ Idle \/ Crash
  BY <1>3, <1>t, Places DEF RestoreLabels, BootstrapLabels, Return
<1>4. CASE Write \/ \E d \in Deployment : PodsFollow(d)
  <2>1. UNCHANGED <<pc, set>>
    BY <1>4, Places DEF operation, process
  <2> QED BY <1>t, <1>u, <2>1 DEF Verified
<1> QED BY <1>1, <1>2, <1>3, <1>4, Kinds

LEMMA NextPutting == Types /\ Verified /\ Putting /\ Next => Putting'
<1> SUFFICES ASSUME Types, Verified, Putting, Next PROVE Putting'
  OBVIOUS
<1>0. SetTypes /\ OperationTypes /\ DataTypes
  BY DEF Types
<1>t. pc' \notin {"extract", "drop", "load", "resume blob-storage"} => Putting'
  BY DEF Putting
<1>v. pc \in RestoreLabels => /\ archive \in Blobs /\ archive = manifest.archive /\ dump = manifest.dump
  BY <1>0, VerifiedSet DEF Verified
<1>1. CASE Restore
  <2>1. CASE VerifySet \/ ResumeLast
    BY <1>t, <2>1 DEF VerifySet, ResumeLast, Scale, Goto, Return
  <2>2. CASE Quiesce("controlplane", "quiesce controlplane", "quiesce automation-runtime")
             \/ Quiesce("automation-runtime", "quiesce automation-runtime", "quiesce blob-storage")
             \/ Quiesce("blob-storage", "quiesce blob-storage", "clear")
    BY <1>t, <2>2 DEF Quiesce, Scale, Goto, Return
  <2>3. CASE ResumeOne("blob-storage", "resume blob-storage", "resume controlplane")
             \/ ResumeOne("controlplane", "resume controlplane", "resume automation-runtime")
    BY <1>t, <2>3 DEF ResumeOne, Scale, Goto
  <2>r. Resume => Putting'
    BY DEF Resume, Putting
  <2>4. CASE ClearBlobs
    <3>1. CASE \E o \in Objects(blob) : blob' = [blob EXCEPT ![o] = Absent] /\ UNCHANGED process
      BY <1>t, <2>4, <3>1 DEF ClearBlobs, process, operation
    <3>2. CASE Objects(blob) = {} /\ pc' = "extract" /\ pending' = Objects(archive)
               /\ UNCHANGED <<blob, op, failed, saved, notes>>
      <4>1. \A o \in Object : blob[o] = IF o \in Objects(archive) THEN Absent ELSE archive[o]
        BY <3>2 DEF Objects
      <4>2. archive' = archive
        BY <2>4 DEF ClearBlobs, set
      <4> QED BY <3>2, <4>1, <4>2 DEF Putting
    <3> QED BY <2>4, <2>r, <3>1, <3>2 DEF ClearBlobs
  <2>5. CASE ExtractBlobs
    <3>0. /\ pc = "extract" /\ archive \in Blobs /\ blob \in Blobs /\ pending \subseteq Object
          /\ archive' = archive
      BY <1>0, <1>v, <2>5 DEF ExtractBlobs, RestoreLabels, DataTypes, OperationTypes, set
    <3>1. ASSUME NEW o \in pending, blob' = [blob EXCEPT ![o] = archive[o]], pending' = pending \ {o},
                 UNCHANGED <<pc, op, failed, saved, notes>>
          PROVE  Putting'
      <4>1. blob' \in Blobs /\ \A p \in Object : blob'[p] = IF p = o THEN archive[o] ELSE blob[p]
        BY <3>0, <3>1 DEF Blobs
      <4>2. ~disturbed => \A p \in Object : blob'[p] = IF p \in pending' THEN Absent ELSE archive[p]
        BY <3>0, <3>1, <4>1 DEF Putting
      <4> QED BY <3>0, <3>1, <4>2 DEF Putting, notes
    <3>2. CASE pending = {} /\ Goto("drop") /\ UNCHANGED blob
      <4>1. ~disturbed => \A o \in Object : blob[o] = archive[o]
        BY <3>0, <3>2 DEF Putting
      <4>2. ~disturbed => blob = archive
        BY <3>0, <4>1 DEF Blobs
      <4> QED BY <3>0, <3>2, <4>2 DEF Goto, notes, Putting
    <3> QED BY <2>5, <2>r, <3>1, <3>2 DEF ExtractBlobs
  <2>6. CASE DropSchema
    BY <2>6, <2>r DEF DropSchema, Goto, notes, set, Putting
  <2>7. CASE LoadDump
    <3>0. pc = "load" /\ archive = manifest.archive /\ dump = manifest.dump
      BY <1>v, <2>7 DEF LoadDump, Load, RestoreLabels
    <3>1. CASE database' = (IF database = Fresh THEN dump ELSE Broken) /\ Goto("resume blob-storage")
      <4>1. ~disturbed => database' = dump /\ blob = archive
        BY <3>0, <3>1 DEF Putting
      <4>2. UNCHANGED <<blob, set, disturbed>>
        BY <2>7, <3>1 DEF LoadDump, Load, Goto, notes
      <4> QED BY <3>0, <3>1, <4>1, <4>2 DEF Goto, Putting, TheSet, set
    <3> QED BY <2>7, <2>r, <3>1 DEF LoadDump, Load
  <2> QED BY <1>1, <2>1, <2>2, <2>3, <2>4, <2>5, <2>6, <2>7 DEF Restore
<1>2. Bootstrap \/ Begin \/ Idle \/ Crash => Putting'
  BY <1>t, Places DEF BootstrapLabels, Return
<1>3. CASE Backup
  <2>1. pc' \in BackupLabels \cup {"idle"}
    BY <1>3 DEF Backup, WriteConfiguration, CopyReceipt, WriteScope, WriteMember, Export, VerifyRestore,
       Checked, ReadReplicas, ScaleDown, Scale, AwaitPods, StartArchive, ArchiveObject, Defer, ScaleUp,
       AwaitRollout, SaveManifest, FinalVerify, Goto, Return, BackupLabels
  <2> QED BY <1>t, <2>1 DEF BackupLabels
<1>4. CASE Write
  BY <1>4, <1>t, Places DEF operation, Replacing, Putting
<1>5. ASSUME NEW d \in Deployment, PodsFollow(d) PROVE Putting'
  <2>1. UNCHANGED <<pc, failed, pending, disturbed, database, blob, dump, archive, manifest>>
    BY <1>5, Places DEF data, set, process, operation, notes
  <2> QED BY <2>1 DEF Putting, TheSet
<1> QED BY <1>1, <1>2, <1>3, <1>4, <1>5, Kinds

-----------------------------------------------------------------------------
LEMMA InitInv == Init => RecoveryInv
<1> SUFFICES ASSUME Init PROVE RecoveryInv
  OBVIOUS
<1>1. blob \in Blobs
  BY Values DEF Init, Blobs
<1>2. Types
  BY <1>1, Values, ReplicaAssumption DEF Init, Types, ClusterTypes, DataTypes, SetTypes, OperationTypes,
     Label, Quiesced, Replacing
<1>3. Operating /\ Gathered /\ Archived /\ Verified /\ Putting
  BY DEF Init, Operating, Gathered, Archived, Verified, Putting, BackupLabels, RestoreLabels, BootstrapLabels
<1> QED BY <1>2, <1>3, TypeParts DEF RecoveryInv

LEMMA NextInv == RecoveryInv /\ [Next]_vars => RecoveryInv'
<1> SUFFICES ASSUME RecoveryInv, [Next]_vars PROVE RecoveryInv'
  OBVIOUS
<1>1. Types /\ Operating /\ Gathered /\ Archived /\ Verified /\ Putting
  BY TypeParts DEF RecoveryInv
<1>2. CASE Next
  <2>1. OperationTypes' /\ ClusterTypes' /\ DataTypes' /\ SetTypes' /\ Operating'
    BY <1>1, <1>2, NextOperation, NextCluster, NextData, NextSet
  <2>2. Gathered' /\ Archived' /\ Verified' /\ Putting'
    BY <1>1, <1>2, NextGathered, NextArchived, NextVerified, NextPutting
  <2> QED BY <2>1, <2>2, TypesNext DEF RecoveryInv, Types
<1>3. CASE UNCHANGED vars
  <2>1. /\ UNCHANGED <<installed, replicas, pods, database, blob, version, interrupted, excused>>
        /\ UNCHANGED <<dump, archive, member, manifest, pc, op, failed, pending, saved, snapshot, disturbed>>
    BY <1>3 DEF vars, cluster, data, set, process, operation, notes
  <2>2. TypeOK'
    BY <1>1, <2>1, TypesNext DEF Types, ClusterTypes, DataTypes, SetTypes, OperationTypes
  <2>3. Operating' /\ Gathered' /\ Archived'
    BY <1>1, <2>1 DEF Operating, Gathered, Archived
  <2>4. Verified' /\ Putting'
    BY <1>1, <2>1 DEF Verified, Verifies, Files, Putting, TheSet
  <2> QED BY <2>2, <2>3, <2>4 DEF RecoveryInv
<1> QED BY <1>2, <1>3

LEMMA Invariance == Spec => []RecoveryInv
BY InitInv, NextInv, PTL DEF Spec

\* The set, the appliance and the operations keep their types.
THEOREM TypeCorrect == Spec => []TypeOK
BY Invariance, PTL DEF RecoveryInv

\* A restore nobody wrote into has put back exactly the set (restoreTar and
\* runPostgresRecoveryRestore).
THEOREM RestoredTheorem == Spec => []RestoredIsTheSet
<1>1. RecoveryInv => RestoredIsTheSet
  BY DEF RecoveryInv, Putting, RestoredIsTheSet
<1> QED BY <1>1, Invariance, PTL

\* The only step that publishes a manifest is Save, behind all that it names.
LEMMA Publishes ==
    ASSUME RecoveryInv, Next, manifest' \notin {manifest, NoManifest}
    PROVE  /\ \A m \in Member : manifest'.member[m] = "whole"
           /\ manifest'.archive = snapshot
<1>1. SaveManifest
  <2>1. Restore \/ Bootstrap \/ Begin \/ Write \/ (\E d \in Deployment : PodsFollow(d)) => manifest' = manifest
    BY Places DEF set
  <2>2. Decay \/ Repair \/ FactoryReset \/ FreshInstall \/ Crash => manifest' = manifest
    BY DEF Decay, Repair, FactoryReset, FreshInstall, Crash, set
  <2>3. Discard => manifest' = NoManifest
    BY DEF Discard
  <2>4. Backup => SaveManifest \/ manifest' = manifest
    BY DEF Backup, WriteConfiguration, CopyReceipt, WriteScope, WriteMember, Export, VerifyRestore, Checked,
       ReadReplicas, ScaleDown, ScaleUp, Scale, AwaitPods, ArchiveObject, AwaitRollout, FinalVerify, set
  <2> QED BY <2>1, <2>2, <2>3, <2>4, Kinds DEF Idle
<1>2. manifest' = Files /\ pc = "manifest"
  BY <1>1 DEF SaveManifest
<1>3. archive = snapshot /\ \A m \in Member : member[m] = "whole"
  BY <1>2 DEF RecoveryInv, Archived, Gathered, BackupLabels, Member
<1> QED BY <1>2, <1>3 DEF Files

\* A manifest is published only when every file is whole and the archive is
\* blob storage of the moment its last pod was gone (archiveQuiescedBlobStorage).
THEOREM PublishedTheorem == Spec => PublishedIsAPointInTime
<1>1. RecoveryInv /\ [Next]_vars =>
        [manifest' \notin {manifest, NoManifest} =>
          /\ \A m \in Member : manifest'.member[m] = "whole"
          /\ manifest'.archive = snapshot]_vars
  BY Publishes
<1> QED BY <1>1, Invariance, PTL DEF Spec, PublishedIsAPointInTime

\* What a restore takes away, it takes away under a set that verifies.
LEMMA Loses ==
    ASSUME RecoveryInv, Next, op = "restore"
    PROVE  /\ database \in Version /\ database' \notin Version => Verifies
           /\ \A o \in Object : blob[o] # Absent /\ blob'[o] = Absent /\ version' = version => Verifies
<1>1. CASE pc \in RestoreLabels
  BY <1>1 DEF RecoveryInv, Verified
<1>2. CASE pc = "verify"
  <2>1. CASE Write
    <3>1. version < MaxVersion /\ version' = version + 1
      BY <2>1 DEF Write, DatabaseWrite, BlobWrite
    <3>2. version \in Version
      BY DEF RecoveryInv, TypeOK
    <3>3. version' \in Version /\ version' # version
      BY <3>1, <3>2, NextVersion, Values
    <3>4. database \in Version => database' \in Version
      BY <2>1, <3>3 DEF Write, DatabaseWrite, BlobWrite
    <3> QED BY <3>3, <3>4
  <2>2. CASE ~Write
    <3>1. Begin \/ Idle => pc = "idle"
      BY DEF Begin, BeginBackup, BeginRestore, BeginBootstrap, Idle, Decay, Discard, Repair, FactoryReset,
         FreshInstall
    <3>2. Restore => VerifySet
      BY <1>2 DEF Restore, Quiesce, ClearBlobs, ExtractBlobs, DropSchema, LoadDump, Load, ResumeOne, ResumeLast
    <3>3. VerifySet \/ Crash \/ (\E d \in Deployment : PodsFollow(d)) => UNCHANGED data
      BY DEF VerifySet, Crash, PodsFollow
    <3>4. ~Backup /\ ~Bootstrap
      BY <1>2, Places DEF BackupLabels, BootstrapLabels
    <3>5. UNCHANGED data
      BY <1>2, <2>2, <3>1, <3>2, <3>3, <3>4, Kinds
    <3> QED BY <3>5 DEF data
  <2> QED BY <2>1, <2>2
<1> QED BY <1>1, <1>2 DEF RecoveryInv, Operating

\* The data of the appliance is given up only under a set that verifies
\* (recoveryset.VerifyFiles before the first scale command).
THEOREM LossTheorem == Spec => LossOnlyUnderAVerifiedSet
<1>1. RecoveryInv /\ [Next]_vars =>
        [op = "restore" =>
          /\ database \in Version /\ database' \notin Version => Verifies
          /\ \A o \in Object : blob[o] # Absent /\ blob'[o] = Absent /\ version' = version => Verifies]_vars
  BY Loses
<1> QED BY <1>1, Invariance, PTL DEF Spec, LossOnlyUnderAVerifiedSet

=============================================================================
