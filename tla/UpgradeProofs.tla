--------------------------- MODULE UpgradeProofs ---------------------------
(***************************************************************************)
(* Theorems about the upgrade, for any bound on the attempts.              *)
(*                                                                         *)
(* None of the properties is inductive alone: each is about the end of an  *)
(* attempt and rests on what every stage finds.  The invariant says so     *)
(* stage by stage: which items are new (Done), which old ones the rollback *)
(* can still put back (Kept), that the old data is in a backup from the    *)
(* backup stage on (BackedUp) and that K3s runs behind the start (Up).     *)
(***************************************************************************)
EXTENDS Upgrade, TLAPS

Early == {"idle", "metadata", "source", "backup"}

\* What the types of a rollback rest on: once past the backup there is one to
\* restore, and each K3s file to put back has a snapshot.
Armed ==
    /\ pc \notin Early => mine \in Image
    /\ \A f \in armed \cap K3sFile : previous[f] \in Content

TypeInv == TypeOK /\ Armed

\* The set of the stages.
LEMMA Labels ==
    Label = {"idle", "metadata", "source", "backup", "preload", "snapshot", "stop",
             "config", "registries", "unit", "binary", "start", "packages", "cluster",
             "agent", "dns", "charts", "zonctl", "inventory", "receipt",
             "revert", "restore"}
BY DEF Label
\* The members of the other sets.
LEMMA Members ==
    /\ "old" \in Content /\ "new" \in Content /\ "mixed" \in Content
    /\ "none" \in Outcome /\ "refused" \in Outcome /\ "succeeded" \in Outcome
    /\ "preserved" \in Outcome /\ "rolled back" \in Outcome /\ "abandoned" \in Outcome
    /\ "binary" \in Item /\ "config" \in Item /\ "unit" \in Item /\ "registries" \in Item
    /\ "metadata" \in Item /\ "data" \in Item /\ "packages" \in Item /\ "agent" \in Item
    /\ "dns" \in Item /\ "zonctl" \in Item /\ "receipt" \in Item
BY DEF Outcome, Content, Item, K3sFile

\* The K3s files are items of their own.
LEMMA FilesApart ==
    /\ K3sFile \subseteq Item
    /\ K3sFile \cap {"registries", "metadata", "data", "packages", "agent", "dns", "zonctl",
                     "receipt"} = {}
BY DEF K3sFile, Item

\* What a backup of a host holds.
LEMMA Images ==
    /\ \A h \in [Item -> Content] : [data |-> h["data"], metadata |-> h["metadata"]] \in Image
    /\ \A m \in Image : m.data \in Content /\ m.metadata \in Content
BY DEF Image, Item

\* A stage leaves every item with a content.
LEMMA StepKeepsHost == TypeInv /\ Step => (host \in [Item -> Content])'
<1> SUFFICES ASSUME TypeInv, Step PROVE (host \in [Item -> Content])'
  OBVIOUS
<1>0. host \in [Item -> Content] /\ before \in [Item -> Content]
  BY DEF TypeInv, TypeOK
<1> USE <1>0, Members DEF Change, Changed
<1>1. CASE StageMetadata
  BY <1>1 DEF StageMetadata
<1>2. CASE CheckSource
  BY <1>2 DEF CheckSource
<1>3. CASE TakeBackup
  BY <1>3 DEF TakeBackup
<1>4. CASE PreloadImages
  BY <1>4 DEF PreloadImages
<1>5. CASE SnapshotFiles
  BY <1>5 DEF SnapshotFiles
<1>6. CASE StopK3s
  BY <1>6 DEF StopK3s
<1>7. CASE WriteConfig
  BY <1>7 DEF WriteConfig
<1>8. CASE WriteRegistries
  BY <1>8 DEF WriteRegistries
<1>9. CASE WriteUnit
  BY <1>9 DEF WriteUnit
<1>10. CASE InstallBinary
  BY <1>10 DEF InstallBinary
<1>11. CASE StartK3s
  BY <1>11 DEF StartK3s
<1>12. CASE InstallPackages
  BY <1>12 DEF InstallPackages
<1>13. CASE PrepareCluster
  BY <1>13 DEF PrepareCluster
<1>14. CASE InstallHostAgent
  BY <1>14 DEF InstallHostAgent
<1>15. CASE PrepareHostDNS
  BY <1>15 DEF PrepareHostDNS
<1>16. CASE ApplyCharts
  BY <1>16 DEF ApplyCharts
<1>17. CASE InstallZonctl
  BY <1>17 DEF InstallZonctl
<1>18. CASE FindControlPlane
  BY <1>18 DEF FindControlPlane
<1>19. CASE SaveReceipt
  <2>1. host' \in {host, Changed("receipt", "new"), Changed("zonctl", before["zonctl"]),
                   Changed("zonctl", "mixed")}
    BY <1>19 DEF SaveReceipt
  <2>2. before["zonctl"] \in Content
    OBVIOUS
  <2> QED
    BY <2>1, <2>2
<1>20. CASE Revert
  <2>1. \E i \in Item, c \in Content : host' = [host EXCEPT ![i] = c]
    BY <1>20, FilesApart DEF Revert, TypeInv, TypeOK, Armed
  <2> QED
    BY <2>1
<1>21. CASE BeginRestore
  BY <1>21 DEF BeginRestore
<1>22. CASE FinishRestore
  <2>1. mine.data \in Content /\ mine.metadata \in Content
    BY <1>22, Images DEF FinishRestore, TypeInv, Armed, Early
  <2>2. \A c \in Content : [host EXCEPT !["data"] = mine.data, !["metadata"] = c]
                              \in [Item -> Content]
    BY <2>1
  <2>3. \/ host' = host
        \/ \E c \in Content : host' = [host EXCEPT !["data"] = mine.data, !["metadata"] = c]
    <3>1. DEFINE put(c) == [host EXCEPT !["data"] = mine.data, !["metadata"] = c]
    <3>2. host' \in {host, put(mine.metadata), put("mixed")}
      BY <1>22 DEF FinishRestore
    <3> QED
      BY <2>1, <3>2
  <2> QED
    BY <2>2, <2>3
<1> QED
  BY <1>1, <1>2, <1>3, <1>4, <1>5, <1>6, <1>7, <1>8, <1>9, <1>10, <1>11, <1>12,
     <1>13, <1>14, <1>15, <1>16, <1>17, <1>18, <1>19, <1>20, <1>21, <1>22 DEF Step, Rollback

\* Every stage keeps the types.
LEMMA StepKeepsTypes == TypeInv /\ Step /\ Remember => TypeInv'
<1> SUFFICES ASSUME TypeInv, Step, Remember PROVE TypeInv'
  OBVIOUS
<1>0. host' \in [Item -> Content]
  BY StepKeepsHost DEF TypeInv, TypeOK
<1>l. leftDown' \in BOOLEAN
  BY DEF Remember
<1> USE <1>0, <1>l, Labels, Members, FilesApart
    DEF TypeInv, TypeOK, Armed, Early, attempt, saved, Goto, Return, failUpgrade, Change,
        StopFails, StartFails
<1>1. CASE StageMetadata
  BY <1>1 DEF StageMetadata
<1>2. CASE CheckSource
  BY <1>2 DEF CheckSource
<1>3. CASE TakeBackup
  <2>1. [data |-> host["data"], metadata |-> host["metadata"]] \in Image
    BY Images
  <2> QED
    BY <1>3, <2>1 DEF TakeBackup
<1>4. CASE PreloadImages
  BY <1>4 DEF PreloadImages
<1>5. CASE SnapshotFiles
  BY <1>5 DEF SnapshotFiles
<1>6. CASE StopK3s
  BY <1>6 DEF StopK3s
<1>7. CASE WriteConfig
  BY <1>7 DEF WriteConfig
<1>8. CASE WriteRegistries
  BY <1>8 DEF WriteRegistries
<1>9. CASE WriteUnit
  BY <1>9 DEF WriteUnit
<1>10. CASE InstallBinary
  BY <1>10 DEF InstallBinary
<1>11. CASE StartK3s
  BY <1>11 DEF StartK3s
<1>12. CASE InstallPackages
  BY <1>12 DEF InstallPackages
<1>13. CASE PrepareCluster
  BY <1>13 DEF PrepareCluster
<1>14. CASE InstallHostAgent
  BY <1>14 DEF InstallHostAgent
<1>15. CASE PrepareHostDNS
  BY <1>15 DEF PrepareHostDNS
<1>16. CASE ApplyCharts
  BY <1>16 DEF ApplyCharts
<1>17. CASE InstallZonctl
  BY <1>17 DEF InstallZonctl
<1>18. CASE FindControlPlane
  BY <1>18 DEF FindControlPlane
<1>19. CASE SaveReceipt
  BY <1>19 DEF SaveReceipt
<1>20. CASE Revert
  BY <1>20 DEF Revert
<1>21. CASE BeginRestore
  BY <1>21 DEF BeginRestore
<1>22. CASE FinishRestore
  BY <1>22 DEF FinishRestore
<1> QED
  BY <1>1, <1>2, <1>3, <1>4, <1>5, <1>6, <1>7, <1>8, <1>9, <1>10, <1>11, <1>12,
     <1>13, <1>14, <1>15, <1>16, <1>17, <1>18, <1>19, <1>20, <1>21, <1>22 DEF Step, Rollback

-----------------------------------------------------------------------------
(* The inductive invariant, one part per property.                         *)

\* OldDataIsBackedUp: already from the backup on, before any data changes.
BackedUp ==
    host["data"] # "old" \/ pc \notin Early => \E b \in backups : b.data = "old"

\* NotLeftStopped: up to the backup K3s is down only if it was left so, and
\* the stages behind the start run with K3s up.
Up ==
    /\ pc \in {"idle", "metadata", "source", "backup"} /\ k3s = "stopped" => leftDown
    /\ leftDown => k3s = "stopped"
    /\ pc \in {"packages", "cluster", "agent", "dns", "charts", "zonctl", "inventory", "receipt"}
          => k3s = "active"

\* CleanRollback: the backup holds the data of the begin of the attempt, and
\* so does, for each K3s file, its snapshot if it is to be put back and the
\* host if it is not.
DataKept ==
    /\ pc \in Early \ {"idle"} => host["data"] = before["data"]
    /\ pc \notin Early => mine.data = before["data"]
FilesKept ==
    pc # "idle" =>
        \A f \in K3sFile :
            IF f \in armed THEN previous[f] = before[f] ELSE host[f] = before[f] \/ errs
FilesArmed ==
    /\ pc \in {"stop", "config", "unit", "binary"} \/ (pc = "registries" /\ k3sChanged)
          => K3sFile \subseteq armed
    /\ pc \in {"metadata", "source", "backup", "preload", "snapshot"} => armed = {}
    /\ pc = "restore" => armed = {}
    /\ armed \subseteq K3sFile \cup {"packages", "agent", "dns"}
ErrorsOfRollback ==
    pc # "idle" => outcome = "none" /\ (pc \notin {"revert", "restore"} => ~errs)
Kept == DataKept /\ FilesKept /\ FilesArmed /\ ErrorsOfRollback /\ CleanRollback

\* NewReceipt: what each stage finds done, stage by stage from the last.
Stage8 == {"inventory", "receipt"}
Stage7 == Stage8 \cup {"zonctl"}
Stage6 == Stage7 \cup {"charts"}
Stage5 == Stage6 \cup {"dns"}
Stage4 == Stage5 \cup {"agent"}
Stage3 == Stage4 \cup {"cluster"}
Stage2 == Stage3 \cup {"packages", "start"}
Stage1 == Stage2 \cup {"source", "backup", "preload", "snapshot", "stop", "config",
                      "registries", "unit", "binary"}
Progress ==
    /\ pc \in Stage8 => host["zonctl"] = "new"
    /\ pc \in Stage6 => host["dns"] = "new"
    /\ pc \in Stage5 => host["agent"] = "new"
    /\ pc \in Stage4 => host["data"] = "new"
    /\ pc \in Stage3 => host["packages"] = "new"
    /\ pc \in Stage2 \cup {"unit", "binary"} => host["registries"] = "new"
    /\ pc \in Stage1 => host["metadata"] = "new"
FilesProgress ==
    k3sChanged =>
        /\ pc \in Stage2 => host["binary"] = "new"
        /\ pc \in Stage2 \cup {"binary"} => host["unit"] = "new"
        /\ pc \in Stage2 \cup {"registries", "unit", "binary"} => host["config"] = "new"
ReceiptIsLast ==
    /\ pc # "idle" => host["receipt"] = "old" /\ before["receipt"] = "old"
    /\ NewReceipt
Done == Progress /\ FilesProgress /\ ReceiptIsLast

UpgradeInv == TypeInv /\ BackedUp /\ Up /\ Kept /\ Done

\* The two ends of TakeBackup.
LEMMA BackupOutcomes ==
    ASSUME TakeBackup
    PROVE  \/ /\ pc' = "preload"
              /\ mine' \in backups' /\ mine'.data = host["data"]
           \/ pc' = "idle"
BY DEF TakeBackup, Goto, Return

\* No stage loses the backup of the old data, and none changes the data without it.
LEMMA StepKeepsBackup == UpgradeInv /\ Step => BackedUp'
<1> SUFFICES ASSUME UpgradeInv, Step PROVE BackedUp'
  OBVIOUS
<1> USE Members
    DEF UpgradeInv, TypeInv, TypeOK, Armed, Early, BackedUp, attempt, saved, Goto, Return,
        failUpgrade, Changed, Change
<1>1. CASE StageMetadata
  BY <1>1 DEF StageMetadata
<1>2. CASE CheckSource
  BY <1>2 DEF CheckSource
<1>3. CASE TakeBackup
  <2>1. pc = "backup" /\ UNCHANGED host /\ backups \subseteq backups'
    BY <1>3 DEF TakeBackup
  <2>2. CASE host["data"] = "old"
    <3>1. pc' \notin Early => \E b \in backups' : b.data = "old"
      BY <1>3, <2>2, BackupOutcomes
    <3> QED
      BY <2>1, <2>2, <3>1
  <2>3. CASE host["data"] # "old"
    BY <2>1, <2>3
  <2> QED
    BY <2>2, <2>3
<1>4. CASE PreloadImages
  BY <1>4 DEF PreloadImages
<1>5. CASE SnapshotFiles
  BY <1>5 DEF SnapshotFiles
<1>6. CASE StopK3s
  BY <1>6 DEF StopK3s
<1>7. CASE WriteConfig
  BY <1>7 DEF WriteConfig
<1>8. CASE WriteRegistries
  BY <1>8 DEF WriteRegistries
<1>9. CASE WriteUnit
  BY <1>9 DEF WriteUnit
<1>10. CASE InstallBinary
  BY <1>10 DEF InstallBinary
<1>11. CASE StartK3s
  BY <1>11 DEF StartK3s
<1>12. CASE InstallPackages
  BY <1>12 DEF InstallPackages
<1>13. CASE PrepareCluster
  BY <1>13 DEF PrepareCluster
<1>14. CASE InstallHostAgent
  BY <1>14 DEF InstallHostAgent
<1>15. CASE PrepareHostDNS
  BY <1>15 DEF PrepareHostDNS
<1>16. CASE ApplyCharts
  BY <1>16 DEF ApplyCharts
<1>17. CASE InstallZonctl
  BY <1>17 DEF InstallZonctl
<1>18. CASE FindControlPlane
  BY <1>18 DEF FindControlPlane
<1>19. CASE SaveReceipt
  BY <1>19 DEF SaveReceipt
<1>20. CASE Revert
  BY <1>20 DEF Revert
<1>21. CASE BeginRestore
  BY <1>21 DEF BeginRestore
<1>22. CASE FinishRestore
  BY <1>22 DEF FinishRestore
<1> QED
  BY <1>1, <1>2, <1>3, <1>4, <1>5, <1>6, <1>7, <1>8, <1>9, <1>10, <1>11, <1>12,
     <1>13, <1>14, <1>15, <1>16, <1>17, <1>18, <1>19, <1>20, <1>21, <1>22 DEF Step, Rollback

\* K3s is stopped only between the stop and the start, or with a reason.
LEMMA StepKeepsUp == UpgradeInv /\ Step /\ Remember => Up'
<1> SUFFICES ASSUME UpgradeInv, Step, Remember PROVE Up'
  OBVIOUS
<1> USE DEF UpgradeInv, TypeInv, TypeOK, Early, Up, Remember, attempt, saved, Goto,
        Return, failUpgrade, Changed, Change, StopFails, StartFails
<1>1. CASE StageMetadata
  BY <1>1 DEF StageMetadata
<1>2. CASE CheckSource
  BY <1>2 DEF CheckSource
<1>3. CASE TakeBackup
  BY <1>3 DEF TakeBackup
<1>4. CASE PreloadImages
  BY <1>4 DEF PreloadImages
<1>5. CASE SnapshotFiles
  BY <1>5 DEF SnapshotFiles
<1>6. CASE StopK3s
  BY <1>6 DEF StopK3s
<1>7. CASE WriteConfig
  BY <1>7 DEF WriteConfig
<1>8. CASE WriteRegistries
  BY <1>8 DEF WriteRegistries
<1>9. CASE WriteUnit
  BY <1>9 DEF WriteUnit
<1>10. CASE InstallBinary
  BY <1>10 DEF InstallBinary
<1>11. CASE StartK3s
  BY <1>11 DEF StartK3s
<1>12. CASE InstallPackages
  BY <1>12 DEF InstallPackages
<1>13. CASE PrepareCluster
  BY <1>13 DEF PrepareCluster
<1>14. CASE InstallHostAgent
  BY <1>14 DEF InstallHostAgent
<1>15. CASE PrepareHostDNS
  BY <1>15 DEF PrepareHostDNS
<1>16. CASE ApplyCharts
  BY <1>16 DEF ApplyCharts
<1>17. CASE InstallZonctl
  BY <1>17 DEF InstallZonctl
<1>18. CASE FindControlPlane
  BY <1>18 DEF FindControlPlane
<1>19. CASE SaveReceipt
  BY <1>19 DEF SaveReceipt
<1>20. CASE Revert
  BY <1>20 DEF Revert
<1>21. CASE BeginRestore
  BY <1>21 DEF BeginRestore
<1>22. CASE FinishRestore
  BY <1>22 DEF FinishRestore
<1> QED
  BY <1>1, <1>2, <1>3, <1>4, <1>5, <1>6, <1>7, <1>8, <1>9, <1>10, <1>11, <1>12,
     <1>13, <1>14, <1>15, <1>16, <1>17, <1>18, <1>19, <1>20, <1>21, <1>22 DEF Step, Rollback

\* Each K3s file stays unchanged, or its snapshot does and is armed.
LEMMA StepKeepsFiles == UpgradeInv /\ Step => (FilesKept /\ FilesArmed /\ ErrorsOfRollback)'
<1> SUFFICES ASSUME UpgradeInv, Step PROVE (FilesKept /\ FilesArmed /\ ErrorsOfRollback)'
  OBVIOUS
<1> USE FilesApart
    DEF UpgradeInv, TypeInv, TypeOK, Kept, FilesKept, FilesArmed, ErrorsOfRollback, attempt,
        saved, Goto, Return, failUpgrade, Changed, Change
<1>1. CASE StageMetadata
  BY <1>1 DEF StageMetadata
<1>2. CASE CheckSource
  BY <1>2 DEF CheckSource
<1>3. CASE TakeBackup
  BY <1>3 DEF TakeBackup
<1>4. CASE PreloadImages
  BY <1>4 DEF PreloadImages
<1>5. CASE SnapshotFiles
  BY <1>5 DEF SnapshotFiles
<1>6. CASE StopK3s
  BY <1>6 DEF StopK3s
<1>7. CASE WriteConfig
  BY <1>7 DEF WriteConfig
<1>8. CASE WriteRegistries
  BY <1>8 DEF WriteRegistries
<1>9. CASE WriteUnit
  BY <1>9 DEF WriteUnit
<1>10. CASE InstallBinary
  BY <1>10 DEF InstallBinary
<1>11. CASE StartK3s
  BY <1>11 DEF StartK3s
<1>12. CASE InstallPackages
  BY <1>12 DEF InstallPackages
<1>13. CASE PrepareCluster
  BY <1>13 DEF PrepareCluster
<1>14. CASE InstallHostAgent
  BY <1>14 DEF InstallHostAgent
<1>15. CASE PrepareHostDNS
  BY <1>15 DEF PrepareHostDNS
<1>16. CASE ApplyCharts
  BY <1>16 DEF ApplyCharts
<1>17. CASE InstallZonctl
  BY <1>17 DEF InstallZonctl
<1>18. CASE FindControlPlane
  BY <1>18 DEF FindControlPlane
<1>19. CASE SaveReceipt
  BY <1>19 DEF SaveReceipt
<1>20. CASE Revert
  BY <1>20 DEF Revert
<1>21. CASE BeginRestore
  BY <1>21 DEF BeginRestore
<1>22. CASE FinishRestore
  BY <1>22 DEF FinishRestore
<1> QED
  BY <1>1, <1>2, <1>3, <1>4, <1>5, <1>6, <1>7, <1>8, <1>9, <1>10, <1>11, <1>12,
     <1>13, <1>14, <1>15, <1>16, <1>17, <1>18, <1>19, <1>20, <1>21, <1>22 DEF Step, Rollback

\* The data stays unchanged up to the backup, and the backup stays.
LEMMA StepKeepsData == UpgradeInv /\ Step => DataKept'
<1> SUFFICES ASSUME UpgradeInv, Step PROVE DataKept'
  OBVIOUS
<1> USE Members
    DEF UpgradeInv, TypeInv, TypeOK, Armed, Early, Kept, DataKept, attempt, saved, Goto,
        Return, failUpgrade, Changed, Change
<1>1. CASE StageMetadata
  BY <1>1 DEF StageMetadata
<1>2. CASE CheckSource
  BY <1>2 DEF CheckSource
<1>3. CASE TakeBackup
  <2>1. pc' \notin Early => mine'.data = host["data"]
    BY <1>3, BackupOutcomes
  <2>2. pc' \in Early => pc' = "idle"
    BY <1>3 DEF TakeBackup
  <2>3. pc = "backup" /\ UNCHANGED <<host, before>>
    BY <1>3 DEF TakeBackup
  <2> QED
    BY <2>1, <2>2, <2>3
<1>4. CASE PreloadImages
  BY <1>4 DEF PreloadImages
<1>5. CASE SnapshotFiles
  BY <1>5 DEF SnapshotFiles
<1>6. CASE StopK3s
  BY <1>6 DEF StopK3s
<1>7. CASE WriteConfig
  BY <1>7 DEF WriteConfig
<1>8. CASE WriteRegistries
  BY <1>8 DEF WriteRegistries
<1>9. CASE WriteUnit
  BY <1>9 DEF WriteUnit
<1>10. CASE InstallBinary
  BY <1>10 DEF InstallBinary
<1>11. CASE StartK3s
  BY <1>11 DEF StartK3s
<1>12. CASE InstallPackages
  BY <1>12 DEF InstallPackages
<1>13. CASE PrepareCluster
  BY <1>13 DEF PrepareCluster
<1>14. CASE InstallHostAgent
  BY <1>14 DEF InstallHostAgent
<1>15. CASE PrepareHostDNS
  BY <1>15 DEF PrepareHostDNS
<1>16. CASE ApplyCharts
  BY <1>16 DEF ApplyCharts
<1>17. CASE InstallZonctl
  BY <1>17 DEF InstallZonctl
<1>18. CASE FindControlPlane
  BY <1>18 DEF FindControlPlane
<1>19. CASE SaveReceipt
  BY <1>19 DEF SaveReceipt
<1>20. CASE Revert
  BY <1>20 DEF Revert
<1>21. CASE BeginRestore
  BY <1>21 DEF BeginRestore
<1>22. CASE FinishRestore
  BY <1>22 DEF FinishRestore
<1> QED
  BY <1>1, <1>2, <1>3, <1>4, <1>5, <1>6, <1>7, <1>8, <1>9, <1>10, <1>11, <1>12,
     <1>13, <1>14, <1>15, <1>16, <1>17, <1>18, <1>19, <1>20, <1>21, <1>22 DEF Step, Rollback

\* Each stage adds its own item to what is done and takes nothing back.
LEMMA StepKeepsDone == UpgradeInv /\ Step => Done'
<1> SUFFICES ASSUME UpgradeInv, Step PROVE Done'
  OBVIOUS
<1>0. host \in [Item -> Content]
  BY DEF UpgradeInv, TypeInv, TypeOK
<1> USE <1>0, Members
    DEF UpgradeInv, Done, Progress, FilesProgress, ReceiptIsLast, Stage1, Stage2, Stage3, Stage4,
        Stage5, Stage6, Stage7, Stage8, NewReceipt, ReceiptMeansUpgraded, K3sIsUpgraded,
        attempt, saved, Goto, Return, failUpgrade, Changed, Change
<1>1. CASE StageMetadata
  BY <1>1 DEF StageMetadata
<1>2. CASE CheckSource
  BY <1>2 DEF CheckSource
<1>3. CASE TakeBackup
  BY <1>3 DEF TakeBackup
<1>4. CASE PreloadImages
  BY <1>4 DEF PreloadImages
<1>5. CASE SnapshotFiles
  BY <1>5 DEF SnapshotFiles
<1>6. CASE StopK3s
  BY <1>6 DEF StopK3s
<1>7. CASE WriteConfig
  BY <1>7 DEF WriteConfig
<1>8. CASE WriteRegistries
  BY <1>8 DEF WriteRegistries
<1>9. CASE WriteUnit
  BY <1>9 DEF WriteUnit
<1>10. CASE InstallBinary
  BY <1>10 DEF InstallBinary
<1>11. CASE StartK3s
  BY <1>11 DEF StartK3s
<1>12. CASE InstallPackages
  BY <1>12 DEF InstallPackages
<1>13. CASE PrepareCluster
  BY <1>13, ZenonT(60) DEF PrepareCluster
<1>14. CASE InstallHostAgent
  BY <1>14 DEF InstallHostAgent
<1>15. CASE PrepareHostDNS
  BY <1>15, ZenonT(60) DEF PrepareHostDNS
<1>16. CASE ApplyCharts
  BY <1>16, ZenonT(60) DEF ApplyCharts
<1>17. CASE InstallZonctl
  BY <1>17, ZenonT(60) DEF InstallZonctl
<1>18. CASE FindControlPlane
  BY <1>18 DEF FindControlPlane
<1>19. CASE SaveReceipt
  <2>1. CASE host' = Changed("receipt", "new") /\ Return("succeeded")
    BY <1>19, <2>1 DEF SaveReceipt, Item, K3sFile
  <2>2. CASE ~(host' = Changed("receipt", "new") /\ Return("succeeded"))
    <3>1. host'["receipt"] = "old" /\ before'["receipt"] = "old"
      BY <1>19, <2>2 DEF SaveReceipt
    <3>2. pc' \in {"idle", "revert"}
      BY <1>19, <2>2 DEF SaveReceipt
    <3> QED
      BY <3>1, <3>2
  <2> QED
    BY <2>1, <2>2
<1>20. CASE Revert
  <2>1. "receipt" \notin armed
    BY FilesApart DEF Kept, FilesArmed
  <2>2. host'["receipt"] = "old" /\ before'["receipt"] = "old" /\ pc' = "revert"
    BY <1>20, <2>1 DEF Revert
  <2> QED
    BY <2>2
<1>21. CASE BeginRestore
  BY <1>21 DEF BeginRestore
<1>22. CASE FinishRestore
  BY <1>22 DEF FinishRestore
<1> QED
  BY <1>1, <1>2, <1>3, <1>4, <1>5, <1>6, <1>7, <1>8, <1>9, <1>10, <1>11, <1>12,
     <1>13, <1>14, <1>15, <1>16, <1>17, <1>18, <1>19, <1>20, <1>21, <1>22 DEF Step, Rollback

\* A rollback that reports no error has put back what it promises.
LEMMA StepKeepsClean == UpgradeInv /\ Step => CleanRollback'
<1> SUFFICES ASSUME UpgradeInv, Step, outcome' = "rolled back", ~errs', NEW i \in Promised
             PROVE host'[i] = before'[i]
  BY DEF CleanRollback
<1> USE DEF UpgradeInv
<1>1. FinishRestore
  <2>1. pc # "idle"
    BY DEF Step, StageMetadata, CheckSource, TakeBackup, PreloadImages, SnapshotFiles,
           StopK3s, WriteConfig, WriteRegistries, WriteUnit, InstallBinary, StartK3s,
           InstallPackages, PrepareCluster, InstallHostAgent, PrepareHostDNS, ApplyCharts,
           InstallZonctl, FindControlPlane, SaveReceipt, Change, Rollback, Revert,
           BeginRestore, FinishRestore
  <2>2. outcome = "none"
    BY <2>1 DEF Kept, ErrorsOfRollback
  <2>3. CASE Revert \/ BeginRestore
    BY <2>2, <2>3 DEF Revert, BeginRestore, Goto
  <2>4. CASE Step /\ ~Rollback
    BY <2>2, <2>4
       DEF Step, StageMetadata, CheckSource, TakeBackup, PreloadImages, SnapshotFiles,
           StopK3s, WriteConfig, WriteRegistries, WriteUnit, InstallBinary, StartK3s,
           InstallPackages, PrepareCluster, InstallHostAgent, PrepareHostDNS, ApplyCharts,
           InstallZonctl, FindControlPlane, SaveReceipt, Change, failUpgrade, Goto, Return
  <2> QED
    BY <2>3, <2>4 DEF Rollback
<1>2. host' = [host EXCEPT !["data"] = mine.data, !["metadata"] = mine.metadata]
  BY <1>1 DEF FinishRestore
<1>3. mine.data = before["data"] /\ armed = {} /\ ~errs /\ UNCHANGED before
  <2>1. pc = "restore" /\ UNCHANGED <<before, armed>>
    BY <1>1 DEF FinishRestore, attempt
  <2>2. mine.data = before["data"] /\ armed = {}
    BY <2>1 DEF Kept, DataKept, FilesArmed, Early
  <2>3. ~errs
    BY <1>1 DEF FinishRestore
  <2> QED
    BY <2>1, <2>2, <2>3
<1>4. CASE i = "data"
  BY <1>2, <1>3, <1>4, Members DEF TypeInv, TypeOK
<1>5. CASE i \in K3sFile
  <2>1. host[i] = before[i]
    BY <1>1, <1>3, <1>5 DEF Kept, FilesKept, FinishRestore
  <2> QED
    BY <1>2, <1>3, <1>5, <2>1, FilesApart DEF TypeInv, TypeOK
<1>6. CASE i = "receipt"
  BY <1>1, <1>2, <1>3, <1>6, Members DEF FinishRestore, Done, ReceiptIsLast, TypeInv, TypeOK
<1> QED
  BY <1>4, <1>5, <1>6 DEF Promised

-----------------------------------------------------------------------------

\* The begin of an attempt and what happens around it.
LEMMA AroundKeepsInv ==
    ASSUME UpgradeInv,
           ((Begin \/ Crash \/ SystemdRestart \/ Repair) /\ Remember) \/ StopEnds
    PROVE  UpgradeInv'
<1> USE DEF UpgradeInv
<1>1. UNCHANGED host
  BY DEF Begin, Crash, SystemdRestart, StopEnds, Repair
<1>2. TypeInv'
  <2>1. Old \in [Item -> Content]
    BY DEF Old, Content
  <2>0. Begin => attempts' \in 0..MaxAttempts
    BY BoundAssumption DEF Begin, TypeInv, TypeOK
  <2>l. leftDown' \in BOOLEAN
    BY DEF Remember, StopEnds
  <2> USE <1>1, <2>1, <2>l, Labels, Members DEF TypeInv, TypeOK, Armed, Early, saved, attempt
  <2>2. CASE Begin
    <3>1. /\ attempts' \in 0..MaxAttempts /\ preserve' \in BOOLEAN /\ before' \in [Item -> Content]
          /\ armed' = {} /\ mine' = NoBackup /\ pc' = "metadata" /\ outcome' = "none"
          /\ errs' = FALSE
      BY <2>0, <2>2, BoundAssumption DEF Begin
    <3>2. UNCHANGED <<host, k3s, backups, previous, k3sChanged, newDNS, interrupted>>
      BY <2>2 DEF Begin
    <3> QED
      BY <3>1, <3>2
  <2>3. CASE Crash
    BY <2>3 DEF Crash
  <2>4. CASE SystemdRestart
    BY <2>4 DEF SystemdRestart
  <2>5. CASE Repair
    BY <2>5 DEF Repair, StartFails
  <2>6. CASE StopEnds
    BY <2>6 DEF StopEnds
  <2> QED
    BY <2>2, <2>3, <2>4, <2>5, <2>6
<1>3. BackedUp'
  BY <1>1 DEF BackedUp, Early, Begin, Crash, SystemdRestart, StopEnds, Repair, saved
<1>4. Up'
  BY DEF Up, TypeInv, TypeOK, Remember, Begin, Crash, SystemdRestart, StopEnds, Repair, StartFails,
         attempt
<1>5. Kept'
  <2>1. CASE Begin
    BY <1>1, <2>1 DEF Begin, Kept, DataKept, FilesKept, FilesArmed, ErrorsOfRollback,
                      CleanRollback, Early
  <2>2. CASE SystemdRestart \/ StopEnds
    <3>1. UNCHANGED <<pc, host, before, mine, previous, armed, errs, outcome, k3sChanged>>
      BY <2>2 DEF SystemdRestart, StopEnds, saved, attempt
    <3> QED
      BY <3>1 DEF Kept, DataKept, FilesKept, FilesArmed, ErrorsOfRollback, CleanRollback
  <2>3. CASE Crash \/ Repair
    BY <1>1, <2>3 DEF Crash, Repair, Kept, DataKept, FilesKept, FilesArmed, ErrorsOfRollback,
                      CleanRollback, Early
  <2> QED
    BY <2>1, <2>2, <2>3
<1>6. Done'
  BY <1>1 DEF Done, Progress, FilesProgress, ReceiptIsLast, NewReceipt, ReceiptMeansUpgraded,
              K3sIsUpgraded, Stage1, Stage2, Stage3, Stage4, Stage5, Stage6, Stage7, Stage8,
              Begin, Crash, SystemdRestart, StopEnds, Repair, saved, attempt
<1> QED
  BY <1>2, <1>3, <1>4, <1>5, <1>6

\* The inductive invariant of the upgrade.
THEOREM UpgradeInvariant == Spec => []UpgradeInv
<1>1. Init => UpgradeInv
  <2> SUFFICES ASSUME Init PROVE UpgradeInv
    OBVIOUS
  <2>1. TypeInv
    <3>1. Old \in [Item -> Content] /\ "none" \in Content \cup {"none"} /\ 0 \in 0..MaxAttempts
      BY BoundAssumption DEF Old, Content
    <3> QED
      BY <3>1, Labels, Members DEF Init, TypeInv, TypeOK, Armed, Early
  <2>2. BackedUp /\ Up /\ Kept
    BY Members DEF Init, Old, BackedUp, Early, Up, Kept, DataKept, FilesKept,
                   FilesArmed, ErrorsOfRollback, CleanRollback
  <2>3. Done
    BY Members DEF Init, Old, Done, Progress, FilesProgress, ReceiptIsLast, NewReceipt,
                   ReceiptMeansUpgraded, K3sIsUpgraded, Stage1, Stage2, Stage3, Stage4, Stage5,
                   Stage6, Stage7, Stage8
  <2> QED
    BY <2>1, <2>2, <2>3 DEF UpgradeInv
<1>2. UpgradeInv /\ [Next]_vars => UpgradeInv'
  <2> SUFFICES ASSUME UpgradeInv, [Next]_vars PROVE UpgradeInv'
    OBVIOUS
  <2>1. CASE Step /\ Remember
    BY <2>1, StepKeepsTypes, StepKeepsBackup, StepKeepsUp, StepKeepsFiles, StepKeepsData,
       StepKeepsClean, StepKeepsDone DEF UpgradeInv, Kept
  <2>2. CASE ((Begin \/ Crash \/ SystemdRestart \/ Repair) /\ Remember) \/ StopEnds
    BY <2>2, AroundKeepsInv
  <2>3. CASE UNCHANGED vars
    <3> USE <2>3 DEF vars, UpgradeInv
    <3>1. TypeInv' /\ BackedUp' /\ Up'
      BY DEF TypeInv, TypeOK, Armed, BackedUp, Up
    <3>2. Kept'
      BY DEF Kept, DataKept, FilesKept, FilesArmed, ErrorsOfRollback, CleanRollback
    <3>3. Done'
      BY DEF Done, Progress, FilesProgress, ReceiptIsLast, NewReceipt, ReceiptMeansUpgraded,
             K3sIsUpgraded
    <3> QED
      BY <3>1, <3>2, <3>3
  <2> QED
    BY <2>1, <2>2, <2>3 DEF Next
<1> QED
  BY <1>1, <1>2, PTL DEF Spec

-----------------------------------------------------------------------------

\* Type correctness.
THEOREM TypeCorrect == Spec => []TypeOK
<1>1. UpgradeInv => TypeOK
  BY DEF UpgradeInv, TypeInv
<1> QED
  BY <1>1, UpgradeInvariant, PTL

\* Once the data of the old release is gone it is in a verified backup,
\* through any number of attempts and deaths.
THEOREM OldDataTheorem == Spec => []OldDataIsBackedUp
<1>1. UpgradeInv => OldDataIsBackedUp
  BY DEF UpgradeInv, BackedUp, OldDataIsBackedUp
<1> QED
  BY <1>1, UpgradeInvariant, PTL

\* A rollback without errors returns what upgrade.go promises to put back.
THEOREM CleanRollbackTheorem == Spec => []CleanRollback
<1>1. UpgradeInv => CleanRollback
  BY DEF UpgradeInv, Kept
<1> QED
  BY <1>1, UpgradeInvariant, PTL

\* The receipt of the new release is found on a fully upgraded host only.
THEOREM NewReceiptTheorem == Spec => []NewReceipt
<1>1. UpgradeInv => NewReceipt
  BY DEF UpgradeInv, Done, ReceiptIsLast
<1> QED
  BY <1>1, UpgradeInvariant, PTL

\* A failed upgrade does not leave K3s down, but for the reasons Remember names
\* and a stop that ends late.
THEOREM NotLeftStoppedTheorem == Spec => []NotLeftStopped
<1>1. UpgradeInv => NotLeftStopped
  BY DEF UpgradeInv, Up, NotLeftStopped
<1> QED
  BY <1>1, UpgradeInvariant, PTL

=============================================================================
