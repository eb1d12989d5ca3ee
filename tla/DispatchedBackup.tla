------------------------- MODULE DispatchedBackup -------------------------
(***************************************************************************)
(* The backup and restore of one node as zonctl runs them: the body        *)
(* (Backup) inside the dispatch skeleton (Lifecycle).  Several invocations *)
(* of backup, restore, repair and models-import compete for the installer  *)
(* lock and may die anywhere; K3s, its containers, the disk and reboots go *)
(* on beside them.                                                         *)
(*                                                                         *)
(* Backup assumes that one operation runs at a time and that only repair   *)
(* begins over one that died.  Nothing of this is assumed here: what       *)
(* Backup calls interrupted is read off the journal, and a body begins     *)
(* because its process got that far.                                       *)
(*                                                                         *)
(* Simplifications: factory-reset, uninstall and dry runs are left out     *)
(* (they are Lifecycle's); a reboot comes up when every process is gone,   *)
(* each by its own death; touched holds the processes whose body began.    *)
(***************************************************************************)
EXTENDS LifecycleSerial, Backup

NodeCommand == {"backup", "restore", "repair", "models-import"}

OnlyNodeCommands == Command \subseteq NodeCommand /\ DryRuns \subseteq {FALSE}

node == <<live, version, copy, manifest, k3s, containers, leftDown,
          stage, op, target, pending>>

dispatchedVars == <<vars, backupVars>>

DispatchedInit == Init /\ BackupInit

\* The steps of dispatch around the body.
Around(p) ==
    \/ Start(p) \/ PrepareStateDir(p) \/ OpenLockFile(p) \/ FlockFile(p)
    \/ ReadCurrent(p) \/ RecordOutcome(p) \/ Release(p)

\* journal.Begin, and the switch to the body.
BeginBody(p) ==
    /\ Begin(p)
    /\ IF pc'[p] = "body" /\ cmd[p] = "repair" THEN BeginRepair ELSE UNCHANGED node

\* The body of p begins its work on the node.
BeginWork(p) ==
    /\ p \notin touched /\ TouchHost(p)
    /\ \/ cmd[p] = "backup" /\ \E b \in BackupId : BeginBackup(b)
       \/ cmd[p] = "restore" /\ \E b \in BackupId : BeginRestore(b)
       \/ cmd[p] = "models-import" /\ StageCache

\* The body of p proceeds.
Work(p) == cmd[p] = op /\ TouchHost(p) /\ Body

\* The body of p returns: it is through, or refused before it began.
EndWork(p) == stage = "idle" /\ EndBody(p) /\ UNCHANGED node

Die(p) == Crash(p) /\ IF Running(p) THEN BackupDies ELSE UNCHANGED node

Outside ==
    /\ Environment \/ (Reboot /\ \A p \in Process : pc[p] = "idle")
    /\ UNCHANGED vars

DispatchedNext ==
    /\ \/ \E p \in Process :
             \/ Around(p) /\ UNCHANGED node
             \/ BeginBody(p) \/ BeginWork(p) \/ Work(p) \/ EndWork(p) \/ Die(p)
       \/ Outside
    /\ interrupted' = Abandoned'

DispatchedSpec == DispatchedInit /\ [][DispatchedNext]_dispatchedVars

-----------------------------------------------------------------------------
(* Properties.                                                             *)

\* What Backup assumes of the dispatch skeleton, the skeleton provides: one
\* body at a time, and none but repair over an interrupted one (dispatch.go).
ImplementsBackup == BackupSpec

\* From the first step of a body to its last the journal on disk is in
\* progress and names the operation, so that its death at any point, K3s
\* stopped and the directory half replaced, stops the next command (Begin of
\* journal.go is persisted before the body runs).
WorkIsRecorded == stage # "idle" => Interrupted(journal) /\ journal.type = op

\* A body that is about to begin finds no other body at work on the node
\* ("only one appliance operation runs at a time", lock.go).
NodeIsFree ==
    \A p \in Process :
        Running(p) /\ p \notin touched /\ stage # "idle" => cmd[p] = "repair" /\ op = "repair"

=============================================================================
