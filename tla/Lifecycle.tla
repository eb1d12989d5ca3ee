---------------------------- MODULE Lifecycle ----------------------------
(***************************************************************************)
(* The skeleton every mutating zonctl command runs through                 *)
(* (cmd/zonctl/dispatch.go): prepare the state directory, take the         *)
(* installer lock (internal/lifecycle/lock.go), read the single-record     *)
(* transaction journal (internal/lifecycle/journal.go), refuse or begin,   *)
(* run the command body, record the outcome, release the lock.             *)
(*                                                                         *)
(* Several zonctl processes run side by side and each may die at any       *)
(* point.  A lock is held on the inode a process opened, not on the path:  *)
(* factory-reset unlinks the file, so the two are kept apart.              *)
(*                                                                         *)
(* Simplifications: a body is a first change of the host, an end, and, for *)
(* factory-reset, the removal of the state directory; what else it does is *)
(* the business of the modules of the commands.  Transaction and inode     *)
(* identities are reused once nothing refers to them, which stands for the *)
(* fresh ones the code draws.                                              *)
(***************************************************************************)
EXTENDS FiniteSets

CONSTANTS
    Process,      \* zonctl invocations
    Command,      \* the mutating commands the operator may run
    Inode,        \* inodes the state directory's file system can hand out
    TxnId,        \* transaction identities newTransactionID can draw
    DryRuns,      \* whether the operator may pass --dry-run
    NoProcess, NoInode, NoTxn

ASSUME ConstantsAssumption ==
    /\ NoProcess \notin Process
    /\ NoInode \notin Inode
    /\ DryRuns \subseteq BOOLEAN

\* The commands the switch of dispatch.go routes to a body.
Mutating == {"install", "cluster-server-stage", "cluster-server-enrollment-create",
             "cluster-finalize", "repair", "backup", "restore", "upgrade",
             "uninstall", "factory-reset", "models-import",
             "cluster-enrollment-create", "cluster-join", "cluster-worker-upgrade",
             "cluster-node-register", "cluster-inference-deploy",
             "cluster-node-remove", "configuration-import"}

ASSUME CommandAssumption == Command \subseteq Mutating

NoReset == "factory-reset" \notin Command

allowsInterruptedRecovery(c) == c \in {"repair", "uninstall", "factory-reset"}

Resumable == {"cluster-server-stage", "cluster-finalize"}

\* The bodies that look at opts.dryRun before they change anything.
HonoursDryRun == {"cluster-server-stage", "cluster-finalize",
                  "cluster-server-enrollment-create", "cluster-enrollment-create",
                  "cluster-join", "cluster-worker-upgrade", "cluster-node-register",
                  "cluster-inference-deploy", "cluster-node-remove",
                  "configuration-import"}

Status == {"in-progress", "completed", "failed"}
Transaction == [id : TxnId, type : Command, status : Status]

ASSUME NoTxnAssumption == NoTxn \notin Transaction

VARIABLES
    stateDir,     \* whether the state directory exists
    lockFile,     \* the inode linked at stateDir/installer.lock
    journal,      \* the record in stateDir/transaction.json
    flock,        \* [Inode -> the process holding its exclusive flock]
    pc, cmd, dry, \* per process: where it is, its command, its --dry-run flag
    fd,           \* per process: the inode its lock file descriptor refers to
    txn,          \* per process: the transaction it holds in memory
    result,       \* per process: whether its body succeeded
    touched,      \* the processes whose body has changed the host
    unrecovered   \* history: an operation died after changing the host and no
                  \* recovery command (or rerun of it) has succeeded since

vars == <<stateDir, lockFile, journal, flock, pc, cmd, dry, fd, txn, result,
          touched, unrecovered>>

Label == {"idle", "prepare", "open", "flock", "current", "begin", "body",
          "unlink", "reset", "finish", "release"}

TypeOK ==
    /\ stateDir \in BOOLEAN
    /\ lockFile \in Inode \cup {NoInode}
    /\ journal \in Transaction \cup {NoTxn}
    /\ flock \in [Inode -> Process \cup {NoProcess}]
    /\ pc \in [Process -> Label]
    /\ cmd \in [Process -> Command \cup {"none"}]
    /\ dry \in [Process -> BOOLEAN]
    /\ fd \in [Process -> Inode \cup {NoInode}]
    /\ txn \in [Process -> Transaction \cup {NoTxn}]
    /\ result \in [Process -> BOOLEAN]
    /\ touched \subseteq Process
    /\ unrecovered \in BOOLEAN

\* A process between a successful AcquireLock and its Release.
Locked(p) ==
    /\ pc[p] \in {"current", "begin", "body", "unlink", "reset", "finish", "release"}
    /\ ~dry[p]

\* A process between the Begin of its transaction and the end of its body.
Running(p) == pc[p] \in {"body", "unlink", "reset"}

Interrupted(t) == t # NoTxn /\ t.status = "in-progress"

\* Fault: only an interrupted install closes the gate.
MayBegin_afterInstall(c, t) ==
    Interrupted(t) /\ t.type = "install" => allowsInterruptedRecovery(c)

\* The gate of dispatch.go: may command c begin over the record t?
MayBegin(c, t) ==
    Interrupted(t) =>
        allowsInterruptedRecovery(c) \/ (c \in Resumable /\ c = t.type)

\* Neither on disk nor in the memory of a process.
Unused(id) ==
    \A t \in {journal} \cup {txn[q] : q \in Process} : t # NoTxn => t.id # id

Goto(p, label) == pc' = [pc EXCEPT ![p] = label]

Init ==
    /\ stateDir \in BOOLEAN
    /\ lockFile = NoInode
    /\ journal = NoTxn
    /\ flock = [i \in Inode |-> NoProcess]
    /\ pc = [p \in Process |-> "idle"]
    /\ cmd = [p \in Process |-> "none"]
    /\ dry = [p \in Process |-> FALSE]
    /\ fd = [p \in Process |-> NoInode]
    /\ txn = [p \in Process |-> NoTxn]
    /\ result = [p \in Process |-> FALSE]
    /\ touched = {}
    /\ unrecovered = FALSE

\* The process is gone: its descriptor is closed, which drops its flock, and
\* its memory is lost.  A normal exit and a death differ in what they leave
\* on disk, not in this.
Exit(p) ==
    /\ Goto(p, "idle")
    /\ cmd' = [cmd EXCEPT ![p] = "none"]
    /\ dry' = [dry EXCEPT ![p] = FALSE]
    /\ fd' = [fd EXCEPT ![p] = NoInode]
    /\ txn' = [txn EXCEPT ![p] = NoTxn]
    /\ result' = [result EXCEPT ![p] = FALSE]
    /\ touched' = touched \ {p}
    /\ flock' = [i \in Inode |-> IF flock[i] = p THEN NoProcess ELSE flock[i]]

\* The early returns of dispatch after the lock: only the deferred Release runs.
Leave(p) ==
    \/ /\ dry[p]
       /\ Exit(p)
    \/ /\ ~dry[p]
       /\ Goto(p, "release")
       /\ UNCHANGED <<cmd, dry, fd, txn, result, touched, flock>>

local == <<cmd, dry, fd, txn, result, touched, flock>>

-----------------------------------------------------------------------------
(* The steps of dispatch, in the order of the code.                        *)

\* The checks of the inputs, which end an invocation before it does anything,
\* are left out.
Start(p) ==
    /\ pc[p] = "idle"
    /\ \E c \in Command, d \in DryRuns :
          /\ cmd' = [cmd EXCEPT ![p] = c]
          /\ dry' = [dry EXCEPT ![p] = d]
          /\ Goto(p, IF d THEN "current" ELSE "prepare")
    /\ UNCHANGED <<stateDir, lockFile, journal, flock, fd, txn, result, touched,
                   unrecovered>>

\* os.MkdirAll(opts.stateDir)
PrepareStateDir(p) ==
    /\ pc[p] = "prepare"
    /\ \/ stateDir' = TRUE /\ Goto(p, "open") /\ UNCHANGED local
       \/ Exit(p) /\ UNCHANGED stateDir
    /\ UNCHANGED <<lockFile, journal, unrecovered>>

\* AcquireLock, first half: os.OpenFile(path, O_CREATE|O_RDWR).
OpenLockFile(p) ==
    /\ pc[p] = "open"
    /\ \/ /\ stateDir
          /\ IF lockFile # NoInode
             THEN UNCHANGED lockFile
             ELSE lockFile' \in {i \in Inode : \A q \in Process : fd[q] # i}
          /\ fd' = [fd EXCEPT ![p] = lockFile']
          /\ Goto(p, "flock")
          /\ UNCHANGED <<cmd, dry, txn, result, touched, flock>>
       \/ Exit(p) /\ UNCHANGED lockFile
    /\ UNCHANGED <<stateDir, journal, unrecovered>>

\* Fault: a shared lock, which a second process obtains as well.
FlockFile_shared(p) ==
    /\ pc[p] = "flock"
    /\ flock' = [flock EXCEPT ![fd[p]] = p]
    /\ Goto(p, "current")
    /\ UNCHANGED <<stateDir, lockFile, journal, cmd, dry, fd, txn, result, touched,
                   unrecovered>>

\* Fault: LOCK_NB is missing, so the process waits for the holder.
FlockFile_waits(p) ==
    /\ pc[p] = "flock"
    /\ flock[fd[p]] = NoProcess
    /\ flock' = [flock EXCEPT ![fd[p]] = p]
    /\ Goto(p, "current")
    /\ UNCHANGED <<stateDir, lockFile, journal, cmd, dry, fd, txn, result, touched,
                   unrecovered>>

\* AcquireLock, second half: flock(LOCK_EX|LOCK_NB).  The second disjunct is
\* also a failed truncate or write of the pid, which unlocks again.
FlockFile(p) ==
    /\ pc[p] = "flock"
    /\ \/ /\ flock[fd[p]] = NoProcess
          /\ flock' = [flock EXCEPT ![fd[p]] = p]
          /\ Goto(p, "current")
          /\ UNCHANGED <<cmd, dry, fd, txn, result, touched>>
       \/ Exit(p)
    /\ UNCHANGED <<stateDir, lockFile, journal, unrecovered>>

\* journal.Current() and the interrupted-operation gate.
ReadCurrent(p) ==
    /\ pc[p] = "current"
    /\ \/ /\ MayBegin(cmd[p], journal)
          /\ Goto(p, "begin")
          /\ UNCHANGED local
       \/ Leave(p)
    /\ UNCHANGED <<stateDir, lockFile, journal, unrecovered>>

\* journal.Begin: persisted before the body runs, unless this is a dry run.
Begin(p) ==
    /\ pc[p] = "begin"
    /\ \/ /\ \E id \in TxnId :
                /\ Unused(id)
                /\ txn' = [txn EXCEPT ![p] =
                              [id |-> id, type |-> cmd[p], status |-> "in-progress"]]
          /\ IF dry[p] THEN UNCHANGED <<journal, stateDir>>
                       ELSE journal' = txn'[p] /\ stateDir' = TRUE
          /\ Goto(p, "body")
          /\ UNCHANGED <<cmd, dry, fd, result, touched, flock>>
       \/ Leave(p) /\ UNCHANGED <<journal, stateDir>>
    /\ UNCHANGED <<lockFile, unrecovered>>

\* The first change a body makes to the host.
TouchHost(p) ==
    /\ pc[p] = "body"
    /\ ~(dry[p] /\ cmd[p] \in HonoursDryRun)
    /\ touched' = touched \cup {p}
    /\ UNCHANGED <<stateDir, lockFile, journal, flock, pc, cmd, dry, fd, txn,
                   result, unrecovered>>

\* FactoryReset reaches os.RemoveAll(stateDir), which unlinks one entry after
\* another and then the directory, and starts over on entries that appeared.
EnterRemoveAll(p) ==
    /\ pc[p] = "body" /\ cmd[p] = "factory-reset" /\ p \in touched
    /\ Goto(p, "unlink")
    /\ UNCHANGED <<stateDir, lockFile, journal, local, unrecovered>>

UnlinkEntry(p) ==
    /\ pc[p] = "unlink"
    /\ \/ lockFile # NoInode /\ lockFile' = NoInode /\ UNCHANGED journal
       \/ journal # NoTxn /\ journal' = NoTxn /\ UNCHANGED lockFile
    /\ UNCHANGED <<stateDir, pc, local, unrecovered>>

RemoveStateDir(p) ==
    /\ pc[p] = "unlink"
    /\ lockFile = NoInode /\ journal = NoTxn
    /\ stateDir' = FALSE
    /\ Goto(p, "reset")
    /\ UNCHANGED <<lockFile, journal, local, unrecovered>>

\* The body returns; its evidence report is persisted under the state
\* directory (a failure to do so is only logged).
EndBody(p) ==
    /\ Running(p)
    /\ \E ok \in BOOLEAN :
          /\ ok /\ cmd[p] = "factory-reset" => pc[p] = "reset"
          /\ result' = [result EXCEPT ![p] = ok]
          /\ unrecovered' =
               /\ unrecovered
               /\ ~(ok /\ ~dry[p] /\ (allowsInterruptedRecovery(cmd[p]) \/ cmd[p] \in Resumable))
    /\ stateDir' \in {stateDir, stateDir \/ ~dry[p]}
    /\ Goto(p, "finish")
    /\ UNCHANGED <<lockFile, journal, cmd, dry, fd, txn, touched, flock>>

Outcome(p) == IF result[p] THEN "completed" ELSE "failed"

\* journal.Complete or journal.Fail; an error is logged and forgotten.
RecordOutcome(p) ==
    /\ pc[p] = "finish"
    /\ txn' = [txn EXCEPT ![p].status = Outcome(p)]
    /\ IF dry[p] THEN UNCHANGED <<journal, stateDir>>
       ELSE \/ journal' = txn'[p] /\ stateDir' = TRUE
            \/ UNCHANGED <<journal, stateDir>>
    /\ Goto(p, "release")
    /\ UNCHANGED <<lockFile, cmd, dry, fd, result, touched, flock, unrecovered>>

\* Fault: Release tidies the lock file away.
Release_removesFile(p) ==
    /\ pc[p] = "release"
    /\ Exit(p)
    /\ lockFile' = IF dry[p] THEN lockFile ELSE NoInode
    /\ UNCHANGED <<stateDir, journal, unrecovered>>

\* lock.Release: unlock and close; the file stays for the next AcquireLock.
Release(p) ==
    /\ pc[p] = "release"
    /\ Exit(p)
    /\ UNCHANGED <<stateDir, lockFile, journal, unrecovered>>

\* The process is killed.
Crash(p) ==
    /\ pc[p] # "idle"
    /\ Exit(p)
    /\ unrecovered' = (unrecovered \/ (p \in touched /\ Running(p)))
    /\ UNCHANGED <<stateDir, lockFile, journal>>

Step(p) ==
    \/ PrepareStateDir(p) \/ OpenLockFile(p) \/ FlockFile(p) \/ ReadCurrent(p)
    \/ Begin(p) \/ TouchHost(p) \/ EnterRemoveAll(p) \/ UnlinkEntry(p)
    \/ RemoveStateDir(p) \/ EndBody(p) \/ RecordOutcome(p) \/ Release(p)

Next == \E p \in Process : Start(p) \/ Step(p) \/ Crash(p)

Spec == Init /\ [][Next]_vars

\* A started process keeps running: the scheduler does not starve it, and its
\* body returns.  Nothing obliges the operator to start one.
FairSpec == Spec /\ \A p \in Process : WF_vars(Step(p)) /\ WF_vars(EndBody(p))

-----------------------------------------------------------------------------
(* Properties.                                                             *)

\* Only one appliance operation runs at a time (the promise of lock.go): no
\* two processes that took the lock are past AcquireLock together.
MutualExclusion ==
    \A p, q \in Process : Locked(p) /\ Locked(q) => p = q

\* What remains of it when factory-reset unlinks the lock file: of two
\* processes inside together, one holds a file that is no longer the linked
\* one, so an overlap always involves an unlinked lock file.
OverlapIsOffTheLinkedFile ==
    \A p, q \in Process :
        Locked(p) /\ Locked(q) /\ p # q => fd[p] # lockFile \/ fd[q] # lockFile

\* While a body runs, the journal on disk is its own in-progress record, so
\* that a death at any point of the body is visible to the next command
\* (journal.go, Begin).
RunningIsRecorded ==
    \A p \in Process :
        Running(p) /\ ~dry[p] => journal = txn[p] /\ Interrupted(journal)

\* What may begin over what: recovery over anything, a resumable stage over
\* itself (dispatch.go's refusal and its comment; three-server-inventory.md).
Recoveries ==
    ({"repair", "uninstall", "factory-reset"} \X Command)
        \cup {<<c, c>> : c \in {"cluster-server-stage", "cluster-finalize"}}

\* A record whose process died is replaced only by the Begin of a command the
\* gate lets through: recovery, or the rerun of a resumable stage.  This needs
\* the lock to be held from the read of the journal to the write of the new
\* record (dispatch.go).
Abandoned ==
    Interrupted(journal) /\ \A p \in Process : txn[p] = NoTxn \/ txn[p].id # journal.id
InterruptedIsNotBypassed ==
    [][Abandoned /\ journal' # journal =>
         /\ journal' # NoTxn
         /\ Interrupted(journal')
         /\ <<journal'.type, journal.type>> \in Recoveries]_vars

\* A finished outcome stays in the journal until another operation begins: no
\* late writer of an earlier operation overwrites it.
OutcomeStays ==
    [][/\ journal # NoTxn /\ ~Interrupted(journal)
       /\ journal' # journal
       => Interrupted(journal') /\ journal'.id # journal.id]_vars

\* A second invocation fails at once and never waits for the first: every
\* process that starts also ends, however often others take the lock (lock.go).
EveryInvocationEnds ==
    \A p \in Process : pc[p] # "idle" ~> pc[p] = "idle"

\* "before starting a new operation" (dispatch.go, the refusal message): an
\* operation that died half-way is recovered before a non-recovery one runs.
BlockedUntilRecovered ==
    \A p \in Process :
        /\ Running(p) /\ ~dry[p] /\ unrecovered
        => allowsInterruptedRecovery(cmd[p]) \/ cmd[p] \in Resumable

=============================================================================
