-------------------------- MODULE OperationProofs --------------------------
(***************************************************************************)
(* Theorems about what every mutating command runs in, the dispatch        *)
(* skeleton (Lifecycle), about the backup and restore of the K3s directory *)
(* (Backup), and about the two composed (DispatchedBackup): for every set  *)
(* of processes, commands, inodes and transaction identities, of files and *)
(* backups, and for any layout of the datastore.                           *)
(*                                                                         *)
(* Lifecycle: whoever is past AcquireLock owns the flock of the inode its  *)
(* descriptor refers to (FlockOwned), so two of them refer to different    *)
(* inodes.  As long as nothing unlinks the lock file every descriptor      *)
(* refers to the linked one (OnLinkedFile), which leaves one process; and  *)
(* the journal is then written by nobody else while its body runs          *)
(* (Recorded), nor between the read of the journal and its replacement     *)
(* (GateHolds).  Without dry runs every step is then one of SerialLog, or  *)
(* none.                                                                   *)
(*                                                                         *)
(* Backup: from the stop to the start K3s stays stopped (Quiet), so nobody *)
(* but the operation touches the datastore and the second tree, and a file *)
(* that the running copy has done equals its source (Saved, PutBack).  The *)
(* files of a published backup are those of its manifest, rotten or not    *)
(* (AsListed), so a verified backup is its manifest.                       *)
(*                                                                         *)
(* DispatchedBackup: whatever is at work on the node is the body of one    *)
(* process (Owned), whose record is the one in the journal, so that what   *)
(* Backup calls interrupted, the journal holding a record that nobody will *)
(* end (Abandoned), begins only with a death and ends only with the Begin  *)
(* of a repair.  Every step is then a step of both parts, or of one of     *)
(* them and a stutter of the other.                                        *)
(***************************************************************************)
EXTENDS DispatchedBackup, TLAPS

-----------------------------------------------------------------------------
(* Lifecycle.                                                              *)

FlockOwned ==
    /\ \A p \in Process : Locked(p) => fd[p] \in Inode /\ flock[fd[p]] = p
    /\ \A p \in Process : pc[p] = "flock" => fd[p] \in Inode

\* A process between Begin and the write of the outcome has its transaction
\* in memory, in progress.
Begun(p) == Running(p) \/ pc[p] = "finish"
InMemory ==
    \A p \in Process :
        Begun(p) => txn[p] \in Transaction /\ txn[p] # NoTxn /\ txn[p].status = "in-progress"

CommandOfTheStarted == \A p \in Process : pc[p] # "idle" => cmd[p] \in Command

LockInv == TypeOK /\ FlockOwned /\ InMemory /\ CommandOfTheStarted

-----------------------------------------------------------------------------

\* A process that ends, normally or not, leaves everyone else's claims alone.
LEMMA ExitKeepsLockInv ==
    ASSUME LockInv, NEW p \in Process, Exit(p),
           stateDir' \in BOOLEAN, lockFile' \in Inode \cup {NoInode},
           journal' \in Transaction \cup {NoTxn}, unrecovered' \in BOOLEAN
    PROVE  LockInv'
<1> USE DEF LockInv
<1>1. TypeOK'
  BY DEF TypeOK, Exit, Goto, Label
<1>2. ASSUME NEW q \in Process PROVE
        /\ Locked(q)' => fd'[q] \in Inode /\ flock'[fd'[q]] = q
        /\ (pc[q] = "flock")' => fd'[q] \in Inode
        /\ Begun(q)' => txn'[q] \in Transaction /\ txn'[q] # NoTxn /\ txn'[q].status = "in-progress"
        /\ pc'[q] # "idle" => cmd'[q] \in Command
  <2>1. CASE q = p
    BY <2>1 DEF TypeOK, Exit, Goto, Locked, Begun, Running
  <2>2. CASE q # p
    BY <2>2 DEF TypeOK, FlockOwned, InMemory, CommandOfTheStarted, Exit, Goto, Locked, Begun, Running
  <2> QED
    BY <2>1, <2>2
<1> QED
  BY <1>1, <1>2 DEF FlockOwned, InMemory, CommandOfTheStarted

\* Type correctness of the skeleton, with the facts it needs beside the types.
THEOREM LockInvariant == Spec => []LockInv
<1>1. Init => LockInv
  BY DEF Init, LockInv, TypeOK, FlockOwned, InMemory, CommandOfTheStarted, Begun, Running, Locked, Label
<1>2. LockInv /\ [Next]_vars => LockInv'
  <2> SUFFICES ASSUME LockInv, [Next]_vars PROVE LockInv'
    OBVIOUS
  <2> USE ConstantsAssumption DEF LockInv
  <2>1. ASSUME NEW p \in Process, Start(p) PROVE LockInv'
    <3>1. TypeOK'
      BY <2>1 DEF Start, TypeOK, Goto, Label
    <3>2. FlockOwned' /\ InMemory' /\ CommandOfTheStarted'
      BY <2>1 DEF Start, TypeOK, FlockOwned, InMemory, CommandOfTheStarted, Locked, Begun, Running, Goto, Label
    <3> QED
      BY <3>1, <3>2
  <2>2. ASSUME NEW p \in Process, PrepareStateDir(p) PROVE LockInv'
    <3>1. CASE Exit(p)
      BY <2>2, <3>1, ExitKeepsLockInv DEF PrepareStateDir, TypeOK
    <3>2. CASE Goto(p, "open") /\ UNCHANGED local
      BY <2>2, <3>2, ZenonT(60) DEF PrepareStateDir, local, TypeOK, FlockOwned, InMemory, CommandOfTheStarted,
                        Locked, Begun, Running, Goto, Label
    <3> QED
      BY <2>2, <3>1, <3>2 DEF PrepareStateDir
  <2>3. ASSUME NEW p \in Process, OpenLockFile(p) PROVE LockInv'
    <3>1. lockFile' \in Inode \cup {NoInode}
      BY <2>3 DEF OpenLockFile, TypeOK
    <3>2. CASE Exit(p)
      BY <2>3, <3>1, <3>2, ExitKeepsLockInv DEF OpenLockFile, TypeOK
    <3>3. CASE /\ fd' = [fd EXCEPT ![p] = lockFile']
               /\ lockFile' \in Inode
               /\ Goto(p, "flock")
               /\ UNCHANGED <<cmd, dry, txn, result, touched, flock>>
      <4>1. TypeOK'
        BY <2>3, <3>1, <3>3 DEF OpenLockFile, TypeOK, Goto, Label
      <4>2. FlockOwned' /\ InMemory' /\ CommandOfTheStarted'
        BY <2>3, <3>3 DEF OpenLockFile, TypeOK, FlockOwned, InMemory, CommandOfTheStarted, Locked,
                          Begun, Running, Goto, Label
      <4> QED
        BY <4>1, <4>2
    <3> QED
      BY <2>3, <3>2, <3>3 DEF OpenLockFile, TypeOK
  <2>4. ASSUME NEW p \in Process, FlockFile(p) PROVE LockInv'
    <3>1. CASE Exit(p)
      BY <2>4, <3>1, ExitKeepsLockInv DEF FlockFile, TypeOK
    <3>2. CASE /\ flock[fd[p]] = NoProcess
               /\ flock' = [flock EXCEPT ![fd[p]] = p]
               /\ Goto(p, "current")
               /\ UNCHANGED <<cmd, dry, fd, txn, result, touched>>
      <4>1. TypeOK'
        BY <2>4, <3>2 DEF FlockFile, TypeOK, Goto, Label
      <4>2. FlockOwned'
        BY <2>4, <3>2 DEF FlockFile, TypeOK, FlockOwned, Locked, Goto
      <4>3. InMemory' /\ CommandOfTheStarted'
        BY <2>4, <3>2 DEF FlockFile, TypeOK, InMemory, CommandOfTheStarted, Begun, Running, Goto
      <4> QED
        BY <4>1, <4>2, <4>3
    <3> QED
      BY <2>4, <3>1, <3>2 DEF FlockFile
  <2>a. ASSUME NEW p \in Process, Leave(p),
               UNCHANGED <<stateDir, lockFile, journal, unrecovered>>,
               pc[p] \in {"current", "begin"}
        PROVE LockInv'
    <3>1. CASE Exit(p)
      BY <2>a, <3>1, ExitKeepsLockInv DEF TypeOK
    <3>2. CASE ~dry[p] /\ Goto(p, "release") /\ UNCHANGED <<cmd, dry, fd, txn, result, touched, flock>>
      BY <2>a, <3>2 DEF TypeOK, FlockOwned, InMemory, CommandOfTheStarted, Locked, Begun, Running, Goto, Label
    <3> QED
      BY <2>a, <3>1, <3>2 DEF Leave
  <2>5. ASSUME NEW p \in Process, ReadCurrent(p) PROVE LockInv'
    <3>1. CASE Leave(p)
      BY <2>5, <3>1, <2>a DEF ReadCurrent
    <3>2. CASE Goto(p, "begin") /\ UNCHANGED local
      BY <2>5, <3>2 DEF ReadCurrent, local, TypeOK, FlockOwned, InMemory, CommandOfTheStarted, Locked,
                        Begun, Running, Goto, Label
    <3> QED
      BY <2>5, <3>1, <3>2 DEF ReadCurrent
  <2>6. ASSUME NEW p \in Process, Begin(p) PROVE LockInv'
    <3>1. CASE Leave(p) /\ UNCHANGED <<journal, stateDir>>
      BY <2>6, <3>1, <2>a DEF Begin
    <3>2. ASSUME NEW id \in TxnId,
                 txn' = [txn EXCEPT ![p] = [id |-> id, type |-> cmd[p], status |-> "in-progress"]],
                 IF dry[p] THEN UNCHANGED <<journal, stateDir>>
                           ELSE journal' = txn'[p] /\ stateDir' = TRUE,
                 Goto(p, "body"), UNCHANGED <<cmd, dry, fd, result, touched, flock>>
          PROVE LockInv'
      <4>1. cmd[p] \in Command
        BY <2>6 DEF Begin, CommandOfTheStarted
      <4>2. txn'[p] \in Transaction /\ txn'[p].status = "in-progress"
        BY <3>2, <4>1 DEF TypeOK, Transaction, Status
      <4>3. TypeOK'
        BY <2>6, <3>2, <4>2 DEF Begin, TypeOK, Goto, Label
      <4>4. FlockOwned'
        BY <2>6, <3>2 DEF Begin, TypeOK, FlockOwned, Locked, Goto
      <4>5. txn'[p] # NoTxn /\ \A q \in Process : q # p => txn'[q] = txn[q] /\ pc'[q] = pc[q]
        BY <3>2, <4>2, NoTxnAssumption DEF TypeOK, Goto
      <4>6. InMemory'
        BY <4>2, <4>5 DEF InMemory, Begun, Running
      <4>7. CommandOfTheStarted'
        BY <3>2, <4>1, <4>5 DEF CommandOfTheStarted
      <4> QED
        BY <4>3, <4>4, <4>6, <4>7
    <3> QED
      BY <2>6, <3>1, <3>2 DEF Begin
  <2>7. ASSUME NEW p \in Process,
               TouchHost(p) \/ EnterRemoveAll(p) \/ UnlinkEntry(p) \/ RemoveStateDir(p)
        PROVE LockInv'
    <3>1. TypeOK'
      BY <2>7 DEF TouchHost, EnterRemoveAll, UnlinkEntry, RemoveStateDir, local,
                  TypeOK, Goto, Label
    <3>2. FlockOwned' /\ InMemory' /\ CommandOfTheStarted'
      BY <2>7 DEF TouchHost, EnterRemoveAll, UnlinkEntry, RemoveStateDir, local,
                  TypeOK, FlockOwned, InMemory, CommandOfTheStarted, Locked,
                  Begun, Running, Goto, Label
    <3> QED
      BY <3>1, <3>2
  <2>8. ASSUME NEW p \in Process, EndBody(p) PROVE LockInv'
    <3>1. TypeOK'
      BY <2>8, ZenonT(60) DEF EndBody, Running, TypeOK, Goto, Label
    <3>2. FlockOwned' /\ InMemory' /\ CommandOfTheStarted'
      BY <2>8 DEF EndBody, TypeOK, FlockOwned, InMemory, CommandOfTheStarted,
                  Locked, Begun, Running, Goto
    <3> QED
      BY <3>1, <3>2
  <2>9. ASSUME NEW p \in Process, RecordOutcome(p) PROVE LockInv'
    <3>1. txn'[p] \in Transaction
      BY <2>9 DEF RecordOutcome, Outcome, TypeOK, InMemory, CommandOfTheStarted, Begun, Transaction, Status
    <3>2. TypeOK'
      BY <2>9, <3>1 DEF RecordOutcome, TypeOK, Goto, Label
    <3>3. FlockOwned' /\ InMemory' /\ CommandOfTheStarted'
      BY <2>9 DEF RecordOutcome, TypeOK, FlockOwned, InMemory, CommandOfTheStarted,
                  Locked, Begun, Running, Goto
    <3> QED
      BY <3>2, <3>3
  <2>10. ASSUME NEW p \in Process, Release(p) \/ Crash(p) PROVE LockInv'
    BY <2>10, ExitKeepsLockInv DEF Release, Crash, TypeOK
  <2>11. CASE UNCHANGED vars
    BY <2>11 DEF vars, TypeOK, FlockOwned, InMemory, CommandOfTheStarted, Locked, Begun, Running
  <2> QED
    BY <2>1, <2>2, <2>3, <2>4, <2>5, <2>6, <2>7, <2>8, <2>9, <2>10, <2>11 DEF Next, Step
<1> QED
  BY <1>1, <1>2, PTL DEF Spec

\* The skeleton's variables stay within their types.
THEOREM TypeCorrect == Spec => []TypeOK
BY LockInvariant, PTL DEF LockInv

\* Whatever factory-reset and dry runs do, two processes inside together never
\* both hold the lock file that is linked in the state directory.
THEOREM OverlapTheorem == Spec => []OverlapIsOffTheLinkedFile
<1>1. LockInv => OverlapIsOffTheLinkedFile
  BY DEF LockInv, FlockOwned, OverlapIsOffTheLinkedFile
<1> QED
  BY <1>1, LockInvariant, PTL

-----------------------------------------------------------------------------
(* Without factory-reset.                                                  *)

\* Nobody unlinks the lock file, so every open descriptor is of the linked one.
OnLinkedFile ==
    \A p \in Process :
        /\ fd[p] # NoInode => fd[p] = lockFile
        /\ cmd[p] # "factory-reset"
        /\ pc[p] \notin {"unlink", "reset"}

\* The journal is the record of the process whose body runs.
Recorded == \A p \in Process : ~dry[p] /\ Begun(p) => journal = txn[p]

NoResetInv == LockInv /\ OnLinkedFile /\ Recorded

\* Two owners of the one linked inode are the same process.
LEMMA LinkedIsExclusive ==
    ASSUME LockInv, OnLinkedFile PROVE MutualExclusion
BY ConstantsAssumption DEF LockInv, FlockOwned, OnLinkedFile, MutualExclusion

\* A process that ends without a write leaves the records of the others true.
LEMMA ExitKeepsRecorded ==
    ASSUME LockInv, Recorded, NEW p \in Process, Exit(p), UNCHANGED journal
    PROVE  Recorded'
BY DEF LockInv, TypeOK, Recorded, Begun, Running, Exit, Goto

\* A process that ends without touching the path leaves the others' descriptors
\* on the linked file.
LEMMA ExitKeepsLinked ==
    ASSUME LockInv, OnLinkedFile, NEW p \in Process, Exit(p),
           lockFile' = lockFile
    PROVE  OnLinkedFile'
BY DEF LockInv, TypeOK, OnLinkedFile, Exit, Goto

\* Without factory-reset the lock file, once created, stays linked, and the
\* journal is the record of whoever's body runs: the strengthening that makes
\* MutualExclusion and RunningIsRecorded inductive.
LEMMA NoResetInvariant ==
    ASSUME NoReset PROVE Spec => []NoResetInv
<1>1. Init /\ LockInv => NoResetInv
  BY DEF Init, NoResetInv, OnLinkedFile, Recorded, Begun, Running
<1>2. LockInv /\ LockInv' /\ NoResetInv /\ [Next]_vars => NoResetInv'
  <2> SUFFICES ASSUME LockInv, LockInv', NoResetInv, [Next]_vars PROVE NoResetInv'
    OBVIOUS
  <2> USE ConstantsAssumption DEF NoResetInv
  <2>0. MutualExclusion
    BY LinkedIsExclusive
  <2>1. OnLinkedFile'
    <3>1. ASSUME NEW p \in Process, Start(p) PROVE OnLinkedFile'
      BY <3>1 DEF Start, LockInv, TypeOK, OnLinkedFile, Goto, NoReset
    <3>2. ASSUME NEW p \in Process, Leave(p), lockFile' = lockFile PROVE OnLinkedFile'
      BY <3>2, ExitKeepsLinked DEF Leave, LockInv, TypeOK, OnLinkedFile, Goto
    <3>3. ASSUME NEW p \in Process, OpenLockFile(p) PROVE OnLinkedFile'
      <4>1. CASE Exit(p) /\ UNCHANGED lockFile
        BY <4>1, ExitKeepsLinked
      <4>2. CASE lockFile # NoInode /\ UNCHANGED lockFile
                 /\ fd' = [fd EXCEPT ![p] = lockFile'] /\ Goto(p, "flock") /\ UNCHANGED cmd
        BY <4>2 DEF LockInv, TypeOK, OnLinkedFile, Goto
      <4>3. CASE lockFile = NoInode
                 /\ fd' = [fd EXCEPT ![p] = lockFile'] /\ Goto(p, "flock") /\ UNCHANGED cmd
        BY <4>3 DEF LockInv, TypeOK, OnLinkedFile, Goto
      <4> QED
        BY <3>3, <4>1, <4>2, <4>3 DEF OpenLockFile
    <3>4. ASSUME NEW p \in Process,
                 \/ PrepareStateDir(p) \/ FlockFile(p) \/ ReadCurrent(p) \/ Begin(p)
                 \/ Release(p) \/ Crash(p)
          PROVE OnLinkedFile'
      BY <3>4, <3>2, ExitKeepsLinked
      DEF PrepareStateDir, FlockFile, ReadCurrent, Begin, Release, Crash, local,
          LockInv, TypeOK, OnLinkedFile, Goto
    <3>5. ASSUME NEW p \in Process,
                 EnterRemoveAll(p) \/ UnlinkEntry(p) \/ RemoveStateDir(p)
          PROVE FALSE
      BY <3>5 DEF EnterRemoveAll, UnlinkEntry, RemoveStateDir, OnLinkedFile
    <3>7. ASSUME NEW p \in Process, TouchHost(p) \/ EndBody(p) \/ RecordOutcome(p)
          PROVE OnLinkedFile'
      BY <3>7, ZenonT(60) DEF TouchHost, EndBody, RecordOutcome, LockInv, TypeOK, OnLinkedFile, Goto
    <3>6. CASE UNCHANGED vars
      BY <3>6 DEF vars, OnLinkedFile
    <3> QED
      BY <3>1, <3>3, <3>4, <3>5, <3>6, <3>7 DEF Next, Step
  <2>2. Recorded'
    <3>1. ASSUME NEW p \in Process, Start(p) \/ OpenLockFile(p) \/ PrepareStateDir(p)
                 \/ FlockFile(p) \/ ReadCurrent(p) \/ Release(p) \/ Crash(p)
          PROVE Recorded'
      BY <3>1, ExitKeepsRecorded
      DEF Start, PrepareStateDir, OpenLockFile, FlockFile, ReadCurrent, Leave,
          Release, Crash, local, LockInv, TypeOK, Recorded, Begun, Running, Goto
    <3>2. ASSUME NEW p \in Process, Begin(p) PROVE Recorded'
      <4>1. CASE Leave(p) /\ UNCHANGED journal
        BY <4>1, ExitKeepsRecorded
        DEF Leave, LockInv, TypeOK, Recorded, Begun, Running, Goto
      <4>2. CASE /\ \E t \in Transaction : txn' = [txn EXCEPT ![p] = t]
                 /\ dry[p] => journal' = journal
                 /\ ~dry[p] => journal' = txn'[p]
                 /\ Goto(p, "body")
                 /\ UNCHANGED dry
        <5>1. ASSUME NEW q \in Process, ~dry'[q], Begun(q)' PROVE journal' = txn'[q]
          <6>1. CASE q = p
            BY <4>2, <5>1, <6>1
          <6>2. CASE q # p
            <7>1. Begun(q) /\ Locked(q) /\ txn'[q] = txn[q]
              BY <4>2, <5>1, <6>2 DEF LockInv, TypeOK, Begun, Running, Locked, Goto
            <7>2. dry[p]
              BY <3>2, <7>1, <6>2, <2>0 DEF Begin, MutualExclusion, Locked
            <7> QED
              BY <4>2, <5>1, <7>1, <7>2 DEF Recorded
          <6> QED
            BY <6>1, <6>2
        <5> QED
          BY <5>1 DEF Recorded
      <4> QED
        <5>1. ASSUME NEW id \in TxnId,
                     txn' = [txn EXCEPT ![p] = [id |-> id, type |-> cmd[p], status |-> "in-progress"]]
              PROVE \E t \in Transaction : txn' = [txn EXCEPT ![p] = t]
          <6>1. cmd[p] \in Command
            BY <3>2 DEF Begin, LockInv, CommandOfTheStarted
          <6> QED
            BY <5>1, <6>1 DEF Transaction, Status
        <5> QED
          BY <3>2, <4>1, <4>2, <5>1 DEF Begin
    <3>3. ASSUME NEW p \in Process,
                 TouchHost(p) \/ EnterRemoveAll(p) \/ UnlinkEntry(p) \/ RemoveStateDir(p)
          PROVE Recorded'
      BY <3>3
      DEF TouchHost, EnterRemoveAll, UnlinkEntry, RemoveStateDir, local,
          LockInv, TypeOK, OnLinkedFile, Recorded, Begun, Running, Goto
    <3>4. ASSUME NEW p \in Process, EndBody(p) PROVE Recorded'
      BY <3>4 DEF EndBody, LockInv, TypeOK, Recorded, Begun, Running, Goto
    <3>5. ASSUME NEW p \in Process, RecordOutcome(p) PROVE Recorded'
      <4>1. ASSUME NEW q \in Process, ~dry'[q], Begun(q)' PROVE journal' = txn'[q]
        <5>1. q # p /\ Begun(q) /\ ~dry[q] /\ txn'[q] = txn[q] /\ Locked(q)
          BY <3>5, <4>1 DEF RecordOutcome, LockInv, TypeOK, Begun, Running, Locked, Goto
        <5>2. dry[p]
          BY <3>5, <5>1, <2>0 DEF RecordOutcome, MutualExclusion, Locked
        <5> QED
          BY <3>5, <5>1, <5>2 DEF RecordOutcome, Recorded
      <4> QED
        BY <4>1 DEF Recorded
    <3>6. CASE UNCHANGED vars
      BY <3>6 DEF vars, Recorded, Begun, Running
    <3> QED
      BY <3>1, <3>2, <3>3, <3>4, <3>5, <3>6 DEF Next, Step
  <2> QED
    BY <2>1, <2>2
<1> QED
  BY <1>1, <1>2, LockInvariant, PTL DEF Spec

\* Without factory-reset, one appliance operation at a time.
THEOREM MutualExclusionTheorem == NoReset => (Spec => []MutualExclusion)
<1> SUFFICES ASSUME NoReset PROVE Spec => []MutualExclusion
  OBVIOUS
<1>1. NoResetInv => MutualExclusion
  BY LinkedIsExclusive DEF NoResetInv
<1> QED
  BY <1>1, NoResetInvariant, PTL

\* Without factory-reset, a death anywhere in a body leaves that body's own
\* in-progress record behind.
THEOREM RunningIsRecordedTheorem == NoReset => (Spec => []RunningIsRecorded)
<1> SUFFICES ASSUME NoReset PROVE Spec => []RunningIsRecorded
  OBVIOUS
<1>1. NoResetInv => RunningIsRecorded
  BY DEF NoResetInv, LockInv, InMemory, Recorded, Begun, RunningIsRecorded, Interrupted
<1> QED
  BY <1>1, NoResetInvariant, PTL

-----------------------------------------------------------------------------
(* The steps that write the journal, without factory-reset.                *)

\* The answer of the gate still holds when the process gets to Begin: nobody
\* else writes the journal between its read and its replacement.
GateHolds == \A p \in Process : ~dry[p] /\ pc[p] = "begin" => MayBegin(cmd[p], journal)

\* The write of Begin.
Begins(p) ==
    /\ pc[p] = "begin" /\ ~dry[p]
    /\ \E id \in TxnId :
          /\ Unused(id)
          /\ journal' = [id |-> id, type |-> cmd[p], status |-> "in-progress"]
    /\ Goto(p, "body")
    /\ UNCHANGED <<cmd, dry>>

\* The write of the outcome.
Records(p) ==
    /\ pc[p] = "finish" /\ ~dry[p]
    /\ journal' = [txn[p] EXCEPT !.status = Outcome(p)]
    /\ Goto(p, "release")
    /\ UNCHANGED <<cmd, dry>>

\* These two are the only writes there are.
LEMMA JournalWrites ==
    ASSUME NoResetInv, [Next]_vars, journal' # journal
    PROVE  \E p \in Process : Begins(p) \/ Records(p)
<1> USE DEF NoResetInv
<1>1. PICK p \in Process : Begin(p) \/ RecordOutcome(p)
  BY DEF Next, Step, Start, PrepareStateDir, OpenLockFile, FlockFile, ReadCurrent,
         TouchHost, EnterRemoveAll, UnlinkEntry, RemoveStateDir, EndBody, Release,
         Crash, vars, OnLinkedFile
<1>2. CASE Begin(p)
  <2>1. ~dry[p] /\ journal' = txn'[p]
    BY <1>2 DEF Begin
  <2>2. PICK id \in TxnId :
          Unused(id) /\ txn' = [txn EXCEPT ![p] =
                          [id |-> id, type |-> cmd[p], status |-> "in-progress"]]
    BY <1>2 DEF Begin
  <2>3. journal' = [id |-> id, type |-> cmd[p], status |-> "in-progress"]
    BY <2>1, <2>2 DEF LockInv, TypeOK
  <2>4. pc[p] = "begin" /\ Goto(p, "body") /\ UNCHANGED <<cmd, dry>>
    BY <1>2 DEF Begin
  <2> QED
    BY <2>1, <2>2, <2>3, <2>4 DEF Begins
<1>3. CASE RecordOutcome(p)
  BY <1>3 DEF RecordOutcome, Records, LockInv, TypeOK
<1> QED
  BY <1>1, <1>2, <1>3

LEMMA GateInvariant ==
    ASSUME NoReset PROVE Spec => []GateHolds
<1>1. Init => GateHolds
  BY DEF Init, GateHolds
<1>2. NoResetInv /\ GateHolds /\ [Next]_vars => GateHolds'
  <2> SUFFICES ASSUME NoResetInv, GateHolds, [Next]_vars,
                      NEW p \in Process, ~dry'[p], pc'[p] = "begin"
               PROVE  MayBegin(cmd'[p], journal')
    BY DEF GateHolds
  <2>1. CASE journal' # journal
    <3>1. PICK q \in Process : Begins(q) \/ Records(q)
      BY <2>1, JournalWrites
    <3>2. p # q /\ Locked(p) /\ Locked(q)
      BY <3>1 DEF Begins, Records, Locked, Goto, NoResetInv, LockInv, TypeOK
    <3> QED
      BY <3>2, LinkedIsExclusive DEF NoResetInv, MutualExclusion
  <2>2. CASE journal' = journal
    <3>1. CASE pc[p] = "begin" /\ UNCHANGED <<cmd[p], dry[p]>>
      BY <2>2, <3>1 DEF GateHolds
    <3>2. CASE ReadCurrent(p)
      BY <2>2, <3>2 DEF ReadCurrent, Leave, Exit, Goto, local, NoResetInv, LockInv, TypeOK
    <3>3. (pc[p] = "begin" /\ cmd'[p] = cmd[p] /\ dry'[p] = dry[p]) \/ ReadCurrent(p)
      <4> DEFINE Still == pc[p] = "begin" /\ cmd'[p] = cmd[p] /\ dry'[p] = dry[p]
      <4>1. ASSUME NEW q \in Process, Start(q) \/ Step(q) \/ Crash(q), q # p PROVE Still
        BY <4>1 DEF Step, Start, PrepareStateDir, OpenLockFile, FlockFile, ReadCurrent,
             Begin, TouchHost, EnterRemoveAll, UnlinkEntry, RemoveStateDir, EndBody,
             RecordOutcome, Release, Crash, Leave, Exit, Goto, local,
             NoResetInv, LockInv, TypeOK
      <4>2. Start(p) => dry'[p] \/ pc'[p] # "begin"
        BY DEF Start, Goto, NoResetInv, LockInv, TypeOK
      <4>3. ~Crash(p) /\ ~Release(p) /\ ~RecordOutcome(p) /\ ~EndBody(p)
        BY DEF Crash, Release, RecordOutcome, EndBody, Exit, Goto, NoResetInv, LockInv, TypeOK
      <4>4. ~PrepareStateDir(p) /\ ~OpenLockFile(p) /\ ~FlockFile(p) /\ ~Begin(p)
        BY DEF PrepareStateDir, OpenLockFile, FlockFile, Begin, Leave, Exit, Goto,
               NoResetInv, LockInv, TypeOK
      <4>5. ~TouchHost(p) /\ ~EnterRemoveAll(p) /\ ~UnlinkEntry(p) /\ ~RemoveStateDir(p)
        BY DEF TouchHost, EnterRemoveAll, UnlinkEntry, RemoveStateDir, Goto,
               NoResetInv, LockInv, TypeOK
      <4>6. UNCHANGED vars => Still
        BY DEF vars
      <4> QED
        BY <4>1, <4>2, <4>3, <4>4, <4>5, <4>6 DEF Next, Step
    <3> QED
      BY <3>1, <3>2, <3>3
  <2> QED
    BY <2>1, <2>2
<1> QED
  BY <1>1, <1>2, NoResetInvariant, PTL DEF Spec

\* What the gate lets through is a recovery, as the documents list them.
LEMMA GateIsRecoveries ==
    ASSUME NEW t \in Transaction, t.status = "in-progress",
           NEW c \in Command, MayBegin(c, t)
    PROVE  <<c, t.type>> \in Recoveries
<1>1. t.type \in Command /\ t # NoTxn
  BY NoTxnAssumption DEF Transaction
<1> QED
  BY <1>1 DEF MayBegin, Interrupted, Recoveries, allowsInterruptedRecovery, Resumable

\* Without factory-reset, a record whose process died is replaced only by a
\* recovery, whatever other processes do between its read and its replacement
\* (dispatch.go).
THEOREM NotBypassedTheorem == NoReset => (Spec => InterruptedIsNotBypassed)
<1> SUFFICES ASSUME NoReset PROVE Spec => InterruptedIsNotBypassed
  OBVIOUS
<1>1. ASSUME NoResetInv, GateHolds, [Next]_vars, Abandoned, journal' # journal
      PROVE  /\ journal' # NoTxn
             /\ Interrupted(journal')
             /\ <<journal'.type, journal.type>> \in Recoveries
  <2>1. journal \in Transaction /\ journal.status = "in-progress"
    BY <1>1 DEF Abandoned, Interrupted, NoResetInv, LockInv, TypeOK
  <2>2. PICK p \in Process : Begins(p) \/ Records(p)
    BY <1>1, JournalWrites
  <2>3. CASE Begins(p)
    <3>1. cmd[p] \in Command
      BY <1>1, <2>3 DEF Begins, LockInv, NoResetInv, CommandOfTheStarted
    <3>2. PICK id \in TxnId : journal' = [id |-> id, type |-> cmd[p], status |-> "in-progress"]
      BY <2>3 DEF Begins
    <3>3. journal' \in Transaction /\ journal'.type = cmd[p] /\ journal'.status = "in-progress"
      BY <3>1, <3>2 DEF Transaction, Status
    <3>4. MayBegin(cmd[p], journal)
      BY <1>1, <2>3 DEF GateHolds, Begins
    <3> QED
      BY <2>1, <3>1, <3>3, <3>4, GateIsRecoveries, NoTxnAssumption DEF Interrupted
  <2>4. CASE Records(p)
    BY <1>1, <2>4 DEF Records, Abandoned, NoResetInv, LockInv, InMemory, Recorded, Begun
  <2> QED
    BY <2>2, <2>3, <2>4
<1> QED
  BY <1>1, NoResetInvariant, GateInvariant, PTL DEF Spec, InterruptedIsNotBypassed

\* Without factory-reset, a finished outcome stays until a fresh record
\* replaces it (journal.go).
THEOREM OutcomeStaysTheorem == NoReset => (Spec => OutcomeStays)
<1> SUFFICES ASSUME NoReset PROVE Spec => OutcomeStays
  OBVIOUS
<1>1. ASSUME NoResetInv, [Next]_vars, journal # NoTxn, ~Interrupted(journal), journal' # journal
      PROVE  Interrupted(journal') /\ journal'.id # journal.id
  <2>1. PICK p \in Process : Begins(p) \/ Records(p)
    BY <1>1, JournalWrites
  <2>2. CASE Begins(p)
    <3>1. cmd[p] \in Command
      BY <1>1, <2>2 DEF Begins, LockInv, NoResetInv, CommandOfTheStarted
    <3>2. PICK id \in TxnId :
            Unused(id) /\ journal' = [id |-> id, type |-> cmd[p], status |-> "in-progress"]
      BY <2>2 DEF Begins
    <3>3. journal' \in Transaction /\ journal'.id = id /\ journal'.status = "in-progress"
      BY <3>1, <3>2 DEF Transaction, Status
    <3>4. journal.id # id
      BY <1>1, <3>2 DEF Unused
    <3> QED
      BY <3>3, <3>4, NoTxnAssumption DEF Interrupted
  <2>3. CASE Records(p)
    BY <1>1, <2>3 DEF Records, NoResetInv, LockInv, InMemory, Recorded, Begun, Interrupted
  <2> QED
    BY <2>1, <2>2, <2>3
<1> QED
  BY <1>1, NoResetInvariant, PTL DEF Spec, OutcomeStays

-----------------------------------------------------------------------------
(* The refinement of SerialLog.                                            *)

NoDryRuns == DryRuns \subseteq {FALSE}
Wet == \A p \in Process : ~dry[p]

LEMMA WetInvariant ==
    ASSUME NoDryRuns PROVE Spec => []Wet
<1>1. Init => Wet
  BY DEF Init, Wet
<1>2. LockInv /\ Wet /\ [Next]_vars => Wet'
  <2> SUFFICES ASSUME LockInv, Wet, [Next]_vars PROVE Wet'
    OBVIOUS
  <2>1. ASSUME NEW p \in Process, Start(p) PROVE Wet'
    BY <2>1 DEF Start, LockInv, TypeOK, Wet, NoDryRuns
  <2>2. ASSUME NEW p \in Process,
               \/ PrepareStateDir(p) \/ OpenLockFile(p) \/ FlockFile(p) \/ ReadCurrent(p)
               \/ Begin(p) \/ Release(p) \/ Crash(p)
        PROVE  Wet'
    BY <2>2 DEF PrepareStateDir, OpenLockFile, FlockFile, ReadCurrent, Begin, Release, Crash,
                Leave, Exit, local, LockInv, TypeOK, Wet
  <2>3. ASSUME NEW p \in Process,
               \/ TouchHost(p) \/ EnterRemoveAll(p) \/ UnlinkEntry(p) \/ RemoveStateDir(p)
               \/ EndBody(p) \/ RecordOutcome(p)
        PROVE  Wet'
    BY <2>3 DEF TouchHost, EnterRemoveAll, UnlinkEntry, RemoveStateDir, EndBody, RecordOutcome,
                local, Wet
  <2>4. CASE UNCHANGED vars
    BY <2>4 DEF vars, Wet
  <2> QED
    BY <2>1, <2>2, <2>3, <2>4 DEF Next, Step
<1> QED
  BY <1>1, <1>2, LockInvariant, PTL DEF Spec

\* The invariant under which every step of dispatch is one of SerialLog or none.
SerialInv == NoResetInv /\ GateHolds /\ Wet

\* At most one process operates, so activeBar is it.
LEMMA ActiveIsOperating ==
    ASSUME NoResetInv, NEW p \in Process, Operating(p) PROVE activeBar = p
<1>1. \A q \in Process : Operating(q) => q = p
  BY LinkedIsExclusive DEF NoResetInv, MutualExclusion, Locked, Operating, Running
<1> QED
  BY <1>1 DEF activeBar

LEMMA NobodyIsOperating ==
    ASSUME \A p \in Process : ~Operating(p) PROVE activeBar = NoProcess
BY DEF activeBar

\* Of one process that moves, the others keep what Operating looks at.
LEMMA OthersStay ==
    ASSUME NoResetInv, NEW p \in Process, Start(p) \/ Step(p) \/ Crash(p)
    PROVE  \A q \in Process \ {p} : Operating(q)' <=> Operating(q)
BY DEF Step, Start, PrepareStateDir, OpenLockFile, FlockFile, ReadCurrent, Begin,
       TouchHost, EnterRemoveAll, UnlinkEntry, RemoveStateDir, EndBody, RecordOutcome,
       Release, Crash, Leave, Exit, Goto, local, Operating, Running, NoResetInv, LockInv,
       TypeOK

\* A step that leaves everybody's Operating and the journal alone is a stutter.
LEMMA Stutters ==
    ASSUME NoResetInv, NoResetInv', journal' = journal,
           \A q \in Process : Operating(q)' <=> Operating(q)
    PROVE  activeBar' = activeBar
<1>1. CASE \E q \in Process : Operating(q)
  <2>1. PICK q \in Process : Operating(q)
    BY <1>1
  <2>2. Operating(q)'
    BY <2>1
  <2>3. activeBar = q
    BY <2>1, ActiveIsOperating
  <2>4. \A r \in Process : Operating(r)' => r = q
    BY <2>1, LinkedIsExclusive DEF NoResetInv, MutualExclusion, Locked, Operating, Running
  <2>5. activeBar' = q
    BY <2>2, <2>4 DEF activeBar
  <2> QED
    BY <2>3, <2>5
<1>2. CASE \A q \in Process : ~Operating(q)
  BY <1>2 DEF activeBar
<1> QED
  BY <1>1, <1>2

\* Without factory-reset and dry runs the dispatch skeleton implements the
\* serial log: every operation of lock.go and journal.go is atomic to the others.
THEOREM Refinement == NoReset /\ NoDryRuns => (Spec => ImplementsSerialLog)
<1> SUFFICES ASSUME NoReset, NoDryRuns PROVE Spec => ImplementsSerialLog
  OBVIOUS
<1>1. Init => Serial!SerialInit
  BY DEF Init, Serial!SerialInit, activeBar, Operating, Running
<1>2. ASSUME SerialInv, SerialInv', [Next]_vars
      PROVE  [Serial!SerialNext]_(Serial!serialVars)
  <2> USE DEF SerialInv
  <2>1. CASE UNCHANGED vars
    BY <1>2, <2>1, Stutters DEF vars, Operating, Running, Serial!serialVars
  <2>2. ASSUME NEW p \in Process, Begins(p)
        PROVE  Serial!SerialNext
    <3>1. Locked(p) /\ ~Operating(p) /\ Operating(p)'
      BY <1>2, <2>2 DEF Begins, Locked, Operating, Running, Wet, Goto, NoResetInv, LockInv, TypeOK
    <3>2. \A q \in Process : ~Operating(q)
      BY <1>2, <3>1, LinkedIsExclusive
      DEF NoResetInv, MutualExclusion, Locked, Operating, Running
    <3>3. activeBar = NoProcess
      BY <3>2, NobodyIsOperating
    <3>4. activeBar' = p
      <4>1. \A q \in Process : Operating(q)' => q = p
        BY <2>2, <3>2 DEF Begins, Operating, Running, Goto, NoResetInv, LockInv, TypeOK
      <4> QED
        BY <3>1, <4>1 DEF activeBar
    <3>5. cmd[p] \in Command
      BY <1>2, <2>2 DEF Begins, LockInv, NoResetInv, CommandOfTheStarted
    <3>6. PICK id \in TxnId : journal' = [id |-> id, type |-> cmd[p], status |-> "in-progress"]
      BY <2>2 DEF Begins
    <3>7. journal # NoTxn /\ journal.status = "in-progress" => <<cmd[p], journal.type>> \in Recoveries
      <4>1. MayBegin(cmd[p], journal)
        BY <1>2, <2>2 DEF GateHolds, Begins
      <4>2. journal \in Transaction \cup {NoTxn}
        BY <1>2 DEF NoResetInv, LockInv, TypeOK
      <4> QED
        BY <3>5, <4>1, <4>2, GateIsRecoveries
    <3>8. Serial!BeginOperation(p)
      BY <3>3, <3>4, <3>5, <3>6, <3>7 DEF Serial!BeginOperation
    <3> QED
      BY <3>8 DEF Serial!SerialNext
  <2>3. ASSUME NEW p \in Process, pc[p] = "finish",
               journal' \in {journal, [txn[p] EXCEPT !.status = Outcome(p)]},
               Goto(p, "release"), UNCHANGED dry
        PROVE  Serial!SerialNext
    <3>1. Operating(p) /\ p # NoProcess
      BY <1>2, <2>3, ConstantsAssumption DEF Operating, Wet
    <3>2. activeBar = p
      BY <1>2, <3>1, ActiveIsOperating
    <3>3. \A q \in Process : ~Operating(q)'
      <4>1. \A q \in Process : Operating(q) => q = p
        BY <1>2, <3>1, LinkedIsExclusive DEF NoResetInv, MutualExclusion, Locked, Operating, Running
      <4> QED
        BY <1>2, <2>3, <4>1 DEF Operating, Running, Goto, NoResetInv, LockInv, TypeOK
    <3>4. activeBar' = NoProcess
      BY <3>3 DEF activeBar
    <3>5. journal = txn[p]
      BY <1>2, <3>1 DEF Operating, NoResetInv, Recorded, Begun
    <3>6. Outcome(p) \in {"completed", "failed"}
      BY DEF Outcome
    <3>7. Serial!EndOperation
      BY <2>3, <3>1, <3>2, <3>4, <3>5, <3>6 DEF Serial!EndOperation
    <3> QED
      BY <3>7 DEF Serial!SerialNext
  <2>4. ASSUME NEW p \in Process, Operating(p), Exit(p), journal' = journal
        PROVE  Serial!SerialNext
    <3>1. activeBar = p /\ p # NoProcess
      BY <1>2, <2>4, ActiveIsOperating, ConstantsAssumption
    <3>2. \A q \in Process : ~Operating(q)'
      <4>1. \A q \in Process : Operating(q) => q = p
        BY <1>2, <2>4, LinkedIsExclusive DEF NoResetInv, MutualExclusion, Locked, Operating, Running
      <4> QED
        BY <1>2, <2>4, <4>1 DEF Exit, Operating, Running, Goto, NoResetInv, LockInv, TypeOK
    <3>3. activeBar' = NoProcess
      BY <3>2 DEF activeBar
    <3>4. Serial!Die
      BY <2>4, <3>1, <3>3 DEF Serial!Die
    <3> QED
      BY <3>4 DEF Serial!SerialNext
  <2>5. ASSUME NEW p \in Process, Start(p) \/ Step(p) \/ Crash(p),
               journal' = journal, Operating(p)' <=> Operating(p)
        PROVE  UNCHANGED Serial!serialVars
    <3>1. \A q \in Process : Operating(q)' <=> Operating(q)
      BY <1>2, <2>5, OthersStay
    <3> QED
      BY <1>2, <2>5, <3>1, Stutters DEF Serial!serialVars
  <2>6. ASSUME NEW p \in Process, Start(p) \/ Step(p) \/ Crash(p),
               journal' = journal, ~(Operating(p)' <=> Operating(p))
        PROVE  Serial!SerialNext
    <3>1. CASE RecordOutcome(p)
      BY <2>3, <2>6, <3>1 DEF RecordOutcome
    <3>2. CASE Crash(p)
      <4>1. Operating(p) /\ Exit(p)
        BY <1>2, <2>6, <3>2 DEF Crash, Exit, Operating, Running, Goto, NoResetInv, LockInv, TypeOK
      <4> QED
        BY <2>4, <2>6, <4>1
    <3>3. CASE Begin(p)
      <4>1. Begins(p)
        BY <1>2, <2>6, <3>3 DEF Begin, Begins, Leave, Exit, Operating, Running, Goto, Wet,
                                NoResetInv, LockInv, TypeOK
      <4> QED
        BY <2>2, <4>1
    <3>4. ~(Start(p) \/ PrepareStateDir(p) \/ OpenLockFile(p) \/ FlockFile(p) \/ ReadCurrent(p))
      BY <1>2, <2>6 DEF Start, PrepareStateDir, OpenLockFile, FlockFile, ReadCurrent, Leave, Exit,
                        local, Operating, Running, Goto, NoResetInv, LockInv, TypeOK
    <3>5. ~(TouchHost(p) \/ EnterRemoveAll(p) \/ UnlinkEntry(p) \/ RemoveStateDir(p))
      BY <1>2, <2>6 DEF TouchHost, EnterRemoveAll, UnlinkEntry, RemoveStateDir, local,
                        Operating, Running, Goto, NoResetInv, LockInv, TypeOK
    <3>6. ~(EndBody(p) \/ Release(p))
      BY <1>2, <2>6 DEF EndBody, Release, Exit, Operating, Running, Goto, NoResetInv, LockInv, TypeOK
    <3> QED
      BY <2>6, <3>1, <3>2, <3>3, <3>4, <3>5, <3>6 DEF Step
  <2>7. ASSUME journal' # journal PROVE Serial!SerialNext
    <3>1. PICK p \in Process : Begins(p) \/ Records(p)
      BY <1>2, <2>7, JournalWrites
    <3> QED
      BY <2>2, <2>3, <3>1 DEF Records
  <2> QED
    BY <1>2, <2>1, <2>5, <2>6, <2>7 DEF Next
<1>3. Spec => []SerialInv
  BY NoResetInvariant, GateInvariant, WetInvariant, PTL DEF SerialInv
<1> QED
  BY <1>1, <1>2, <1>3, PTL DEF Spec, ImplementsSerialLog, Serial!SerialSpec

-----------------------------------------------------------------------------
(* Backup.                                                                 *)

Saving == {"saveData", "saveCache", "manifest"}
Replacing == {"clearData", "putData", "clearCache", "putCache"}

\* Which operation is at which stage, and on which kind of backup.
Operation ==
    /\ stage = "idle" => op = "none" /\ target = NoBackup /\ pending = {}
    /\ stage = "repair" => op = "repair"
    /\ stage \notin {"idle", "repair"} => target \in BackupId
    /\ stage \in Saving => op = "backup"
    /\ stage \in Replacing \cup {"verify"} => op = "restore"
    /\ stage \in {"stop", "start"} => op \in {"backup", "restore"}
    /\ op = "backup" /\ stage # "start" => manifest[target] = NoManifest
    /\ op = "restore" => manifest[target] # NoManifest

FilesTyped == live \in Content /\ version \in Version /\ copy \in [BackupId -> Content]
TypeInv == BackupTypeOK /\ Operation

\* K3s is down while its directory is copied, and otherwise only after a death
\* or an error of systemctl.
Quiet ==
    /\ stage \in Saving \cup Replacing \cup {"start"} => k3s = "stopped"
    /\ stage \in {"idle", "verify", "stop", "repair"} /\ k3s = "stopped" => leftDown
    /\ leftDown => k3s = "stopped"

\* The copy out of the host: done, or pending.
Saved ==
    /\ op = "backup" /\ stage = "stop" => copy[target] = Empty
    /\ stage = "saveData" =>
          /\ \A f \in Datastore : f \in pending \/ copy[target][f] = live[f]
          /\ \A f \in Cache : copy[target][f] = 0
          /\ pending \subseteq Data
    /\ stage = "saveCache" =>
          /\ \A f \in Datastore : copy[target][f] = live[f]
          /\ \A f \in Cache : f \in pending \/ copy[target][f] = live[f]
          /\ pending \subseteq Cache
    /\ stage = "manifest" => \A f \in Datastore \cup Cache : copy[target][f] = live[f]

\* A backup has no file its manifest does not name.
AsListed ==
    \A b \in BackupId : manifest[b] # NoManifest =>
        \A f \in File : manifest[b][f] = 0 => copy[b][f] = 0

\* A restore behind the verification replaces from a verified backup.
Verified == op = "restore" /\ stage # "verify" => Verify(target)

\* The copy back into the host: done, or pending.
PutBack ==
    /\ stage = "putData" =>
          /\ \A f \in Datastore : f \in pending \/ live[f] = copy[target][f]
          /\ pending \subseteq Data
    /\ stage \in {"clearCache", "putCache"} => \A f \in Datastore : live[f] = copy[target][f]
    /\ stage = "putCache" =>
          /\ \A f \in Cache : f \in pending \/ live[f] = copy[target][f]
          /\ pending \subseteq Cache
    /\ op = "restore" /\ stage = "start" =>
          \A f \in Datastore \cup Cache :
              f \in Datastore \/ copy[target][f] # 0 => live[f] = copy[target][f]

BackupInv == TypeInv /\ Quiet /\ Saved /\ AsListed /\ Verified /\ PutBack

-----------------------------------------------------------------------------

\* What the assumptions say of the contents and of the kinds of files.
LEMMA Contents ==
    /\ 0 \in Version /\ 1 \in Version
    /\ Rotten # 0
    /\ \A v \in Version : v < MaxVersion => v + 1 \in Version
BY VersionAssumption DEF Version, Rotten
LEMMA Kinds ==
    /\ Datastore \subseteq File /\ Volume \subseteq File /\ Cache \subseteq File
    /\ Data \subseteq File /\ Data \cap Cache = {} /\ Datastore \subseteq Data
    /\ Datastore \cap Volume = {} /\ Datastore \cap Cache = {} /\ Volume \cap Cache = {}
BY FileAssumption DEF File, Data

\* Every step leaves every file with a content.
LEMMA NextTypesFiles == TypeInv /\ BackupNext => FilesTyped'
<1> SUFFICES ASSUME TypeInv, BackupNext PROVE FilesTyped'
  OBVIOUS
<1>0. /\ live \in Content /\ version \in Version /\ copy \in [BackupId -> Content]
      /\ stage \notin {"idle", "repair"} => target \in BackupId
      /\ pending \subseteq File
  BY DEF TypeInv, BackupTypeOK, Operation
<1>c. \A f \in File, t \in BackupId : [copy EXCEPT ![t][f] = live[f]] \in [BackupId -> Content]
  BY <1>0 DEF Content
<1>l. \A f \in File, t \in BackupId : [live EXCEPT ![f] = copy[t][f]] \in Content
  BY <1>0 DEF Content
<1> USE <1>0, Contents DEF FilesTyped, disk, service, Abort
<1>1. CASE DatastoreWrite
  BY <1>1 DEF DatastoreWrite, Content
<1>2. CASE VolumeWrite
  BY <1>2 DEF VolumeWrite, Content
<1>3. CASE StageCache
  BY <1>3 DEF StageCache, Content
<1>4. CASE SystemdRestart
  BY <1>4 DEF SystemdRestart
<1>22. CASE StopEnds
  BY <1>22 DEF StopEnds
<1>5. CASE BackupDies
  BY <1>5 DEF BackupDies
<1>6. CASE Reboot
  BY <1>6 DEF Reboot
<1>7. CASE Stop
  BY <1>7 DEF Stop
<1>8. CASE StartAgain
  BY <1>8 DEF StartAgain
<1>9. CASE SaveData
  <2>1. \/ /\ UNCHANGED <<live, version>>
           /\ \E f \in pending : copy' = [copy EXCEPT ![target][f] = live[f]]
        \/ UNCHANGED <<live, version, copy>>
    BY <1>9 DEF SaveData, Save
  <2>2. stage \notin {"idle", "repair"}
    BY <1>9 DEF SaveData, Save
  <2> QED
    BY <2>1, <2>2, <1>c
<1>10. CASE SaveCache
  <2>1. \/ /\ UNCHANGED <<live, version>>
           /\ \E f \in pending : copy' = [copy EXCEPT ![target][f] = live[f]]
        \/ UNCHANGED <<live, version, copy>>
    BY <1>10 DEF SaveCache, Save
  <2>2. stage \notin {"idle", "repair"}
    BY <1>10 DEF SaveCache, Save
  <2> QED
    BY <2>1, <2>2, <1>c
<1>11. CASE SaveManifest
  BY <1>11 DEF SaveManifest
<1>12. CASE VerifyTarget
  BY <1>12 DEF VerifyTarget
<1>13. CASE ClearData
  BY <1>13 DEF ClearData, Clear, Content
<1>14. CASE PutData
  <2>1. \/ /\ UNCHANGED <<copy, version>>
           /\ \E f \in pending : live' = [live EXCEPT ![f] = copy[target][f]]
        \/ UNCHANGED <<live, version, copy>>
    BY <1>14 DEF PutData, Put
  <2>2. stage \notin {"idle", "repair"}
    BY <1>14 DEF PutData, Put
  <2> QED
    BY <2>1, <2>2, <1>l
<1>15. CASE ClearCache
  BY <1>15 DEF ClearCache, Clear, Content
<1>16. CASE PutCache
  <2>1. \/ /\ UNCHANGED <<copy, version>>
           /\ \E f \in pending : live' = [live EXCEPT ![f] = copy[target][f]]
        \/ UNCHANGED <<live, version, copy>>
    BY <1>16 DEF PutCache, Put
  <2>2. stage \notin {"idle", "repair"}
    BY <1>16 DEF PutCache, Put
  <2> QED
    BY <2>1, <2>2, <1>l
<1>17. CASE RepairK3s
  BY <1>17 DEF RepairK3s
<1>21. CASE BeginRepair
  BY <1>21 DEF BeginRepair
<1>18. ASSUME NEW b \in BackupId, Decay(b) PROVE FilesTyped'
  <2>1. PICK f \in File : copy' = [copy EXCEPT ![b][f] = Rotten]
    BY <1>18 DEF Decay, Files
  <2>2. copy'  = [copy EXCEPT ![b] = [copy[b] EXCEPT ![f] = Rotten]]
    BY <2>1
  <2>3. [copy[b] EXCEPT ![f] = Rotten] \in Content
    BY <1>18 DEF Content
  <2>4. UNCHANGED <<live, version>>
    BY <1>18 DEF Decay
  <2> QED
    BY <1>18, <2>2, <2>3, <2>4
<1>19. ASSUME NEW b \in BackupId, BeginBackup(b) PROVE FilesTyped'
  BY <1>19 DEF BeginBackup
<1>20. ASSUME NEW b \in BackupId, BeginRestore(b) PROVE FilesTyped'
  BY <1>20 DEF BeginRestore
<1> QED
  BY <1>1, <1>2, <1>3, <1>4, <1>5, <1>6, <1>7, <1>8, <1>9, <1>10, <1>11, <1>12, <1>13,
     <1>14, <1>15, <1>16, <1>17, <1>18, <1>19, <1>20, <1>21, <1>22 DEF BackupNext, BeginGated, Body,
     Environment, Create, Restore

\* Every step keeps the types.
LEMMA NextTypes == TypeInv /\ BackupNext => TypeInv'
<1> SUFFICES ASSUME TypeInv, BackupNext PROVE TypeInv'
  OBVIOUS
<1>i. interrupted' \in BOOLEAN
  BY DEF BackupNext, TypeInv, BackupTypeOK
<1>0. live' \in Content /\ version' \in Version /\ copy' \in [BackupId -> Content]
  BY NextTypesFiles DEF FilesTyped
<1> USE <1>0, <1>i, Kinds, NullAssumption
    DEF TypeInv, BackupTypeOK, Operation, Stage, Saving, Replacing, disk, service, operation, Return, StartK3s,
        Abort, Proceed
<1>1. CASE DatastoreWrite
  BY <1>1 DEF DatastoreWrite
<1>2. CASE VolumeWrite
  BY <1>2 DEF VolumeWrite
<1>3. CASE StageCache
  BY <1>3 DEF StageCache
<1>4. CASE SystemdRestart
  BY <1>4 DEF SystemdRestart
<1>22. CASE StopEnds
  BY <1>22 DEF StopEnds
<1>5. CASE BackupDies
  BY <1>5 DEF BackupDies
<1>6. CASE Reboot
  BY <1>6 DEF Reboot
<1>7. CASE Stop
  BY <1>7 DEF Stop
<1>8. CASE StartAgain
  BY <1>8 DEF StartAgain
<1>9. CASE SaveData
  BY <1>9 DEF SaveData, Save
<1>10. CASE SaveCache
  BY <1>10 DEF SaveCache, Save
<1>11. CASE SaveManifest
  BY <1>11 DEF SaveManifest
<1>12. CASE VerifyTarget
  BY <1>12 DEF VerifyTarget
<1>13. CASE ClearData
  BY <1>13 DEF ClearData, Clear
<1>14. CASE PutData
  BY <1>14 DEF PutData, Put
<1>15. CASE ClearCache
  BY <1>15 DEF ClearCache, Clear
<1>16. CASE PutCache
  BY <1>16 DEF PutCache, Put
<1>17. CASE RepairK3s
  BY <1>17 DEF RepairK3s
<1>21. CASE BeginRepair
  BY <1>21 DEF BeginRepair
<1>18. ASSUME NEW b \in BackupId, Decay(b) PROVE TypeInv'
  BY <1>18 DEF Decay
<1>19. ASSUME NEW b \in BackupId, BeginBackup(b) PROVE TypeInv'
  BY <1>19 DEF BeginBackup
<1>20. ASSUME NEW b \in BackupId, BeginRestore(b) PROVE TypeInv'
  BY <1>20 DEF BeginRestore
<1> QED
  BY <1>1, <1>2, <1>3, <1>4, <1>5, <1>6, <1>7, <1>8, <1>9, <1>10, <1>11, <1>12, <1>13,
     <1>14, <1>15, <1>16, <1>17, <1>18, <1>19, <1>20, <1>21, <1>22 DEF BackupNext, BeginGated, Body,
     Environment, Create, Restore

\* K3s is stopped from the stop to the start and not otherwise.
LEMMA NextQuiet == BackupInv /\ BackupNext => Quiet'
<1> SUFFICES ASSUME BackupInv, BackupNext PROVE Quiet'
  OBVIOUS
<1> USE DEF BackupInv, TypeInv, BackupTypeOK, Operation, Quiet, Saving, Replacing,
        disk, service, operation, Return, StartK3s, Abort, Proceed
<1>1. CASE DatastoreWrite
  BY <1>1 DEF DatastoreWrite
<1>2. CASE VolumeWrite
  BY <1>2 DEF VolumeWrite
<1>3. CASE StageCache
  BY <1>3 DEF StageCache
<1>4. CASE SystemdRestart
  BY <1>4 DEF SystemdRestart
<1>22. CASE StopEnds
  BY <1>22 DEF StopEnds
<1>5. CASE BackupDies
  BY <1>5 DEF BackupDies
<1>6. CASE Reboot
  BY <1>6 DEF Reboot
<1>7. CASE Stop
  BY <1>7 DEF Stop
<1>8. CASE StartAgain
  BY <1>8 DEF StartAgain
<1>9. CASE SaveData
  BY <1>9 DEF SaveData, Save
<1>10. CASE SaveCache
  BY <1>10 DEF SaveCache, Save
<1>11. CASE SaveManifest
  BY <1>11 DEF SaveManifest
<1>12. CASE VerifyTarget
  BY <1>12 DEF VerifyTarget
<1>13. CASE ClearData
  BY <1>13 DEF ClearData, Clear
<1>14. CASE PutData
  BY <1>14 DEF PutData, Put
<1>15. CASE ClearCache
  BY <1>15 DEF ClearCache, Clear
<1>16. CASE PutCache
  BY <1>16 DEF PutCache, Put
<1>17. CASE RepairK3s
  BY <1>17 DEF RepairK3s
<1>21. CASE BeginRepair
  BY <1>21 DEF BeginRepair
<1>18. ASSUME NEW b \in BackupId, Decay(b) PROVE Quiet'
  BY <1>18 DEF Decay
<1>19. ASSUME NEW b \in BackupId, BeginBackup(b) PROVE Quiet'
  BY <1>19 DEF BeginBackup
<1>20. ASSUME NEW b \in BackupId, BeginRestore(b) PROVE Quiet'
  BY <1>20 DEF BeginRestore
<1> QED
  BY <1>1, <1>2, <1>3, <1>4, <1>5, <1>6, <1>7, <1>8, <1>9, <1>10, <1>11, <1>12, <1>13,
     <1>14, <1>15, <1>16, <1>17, <1>18, <1>19, <1>20, <1>21, <1>22 DEF BackupNext, BeginGated, Body,
     Environment, Create, Restore

\* Decay and copies keep to the files of the manifest.
LEMMA NextAsListed == BackupInv /\ BackupNext => AsListed'
<1> SUFFICES ASSUME BackupInv, BackupNext PROVE AsListed'
  OBVIOUS
<1>0. manifest' \in [BackupId -> Content \cup {NoManifest}]
  BY NextTypes DEF BackupInv, TypeInv, BackupTypeOK
<1> USE DEF BackupInv, TypeInv, BackupTypeOK, Operation, AsListed, Files, Saving, disk, service, operation,
        Return, Abort, Proceed
<1>1. CASE DatastoreWrite
  BY <1>1 DEF DatastoreWrite
<1>2. CASE VolumeWrite
  BY <1>2 DEF VolumeWrite
<1>3. CASE StageCache
  BY <1>3 DEF StageCache
<1>4. CASE SystemdRestart
  BY <1>4 DEF SystemdRestart
<1>22. CASE StopEnds
  BY <1>22 DEF StopEnds
<1>5. CASE BackupDies
  BY <1>5 DEF BackupDies
<1>6. CASE Reboot
  BY <1>6 DEF Reboot
<1>7. CASE Stop
  BY <1>7 DEF Stop
<1>8. CASE StartAgain
  BY <1>8 DEF StartAgain
<1>9. CASE SaveData
  BY <1>9 DEF SaveData, Save
<1>10. CASE SaveCache
  BY <1>10 DEF SaveCache, Save
<1>11. CASE SaveManifest
  BY <1>11 DEF SaveManifest
<1>12. CASE VerifyTarget
  BY <1>12 DEF VerifyTarget
<1>13. CASE ClearData
  BY <1>13 DEF ClearData, Clear
<1>14. CASE PutData
  BY <1>14 DEF PutData, Put
<1>15. CASE ClearCache
  BY <1>15 DEF ClearCache, Clear
<1>16. CASE PutCache
  BY <1>16 DEF PutCache, Put
<1>17. CASE RepairK3s
  BY <1>17 DEF RepairK3s
<1>21. CASE BeginRepair
  BY <1>21 DEF BeginRepair
<1>18. ASSUME NEW b \in BackupId, Decay(b) PROVE AsListed'
  BY <1>18 DEF Decay
<1>19. ASSUME NEW b \in BackupId, BeginBackup(b) PROVE AsListed'
  BY <1>19 DEF BeginBackup
<1>20. ASSUME NEW b \in BackupId, BeginRestore(b) PROVE AsListed'
  BY <1>20 DEF BeginRestore
<1> QED
  BY <1>1, <1>2, <1>3, <1>4, <1>5, <1>6, <1>7, <1>8, <1>9, <1>10, <1>11, <1>12, <1>13,
     <1>14, <1>15, <1>16, <1>17, <1>18, <1>19, <1>20, <1>21, <1>22 DEF BackupNext, BeginGated, Body,
     Environment, Create, Restore

\* What was verified stays.
LEMMA NextVerified == BackupInv /\ BackupNext => Verified'
<1> SUFFICES ASSUME BackupInv, BackupNext PROVE Verified'
  OBVIOUS
<1> USE DEF BackupInv, TypeInv, BackupTypeOK, Operation, Verified, Verify, Files, Saving, Replacing,
        disk, service, operation, Return, Abort, Proceed
<1>1. CASE DatastoreWrite
  BY <1>1 DEF DatastoreWrite
<1>2. CASE VolumeWrite
  BY <1>2 DEF VolumeWrite
<1>3. CASE StageCache
  BY <1>3 DEF StageCache
<1>4. CASE SystemdRestart
  BY <1>4 DEF SystemdRestart
<1>22. CASE StopEnds
  BY <1>22 DEF StopEnds
<1>5. CASE BackupDies
  BY <1>5 DEF BackupDies
<1>6. CASE Reboot
  BY <1>6 DEF Reboot
<1>7. CASE Stop
  BY <1>7 DEF Stop
<1>8. CASE StartAgain
  BY <1>8 DEF StartAgain
<1>9. CASE SaveData
  BY <1>9 DEF SaveData, Save
<1>10. CASE SaveCache
  BY <1>10 DEF SaveCache, Save
<1>11. CASE SaveManifest
  BY <1>11 DEF SaveManifest
<1>12. CASE VerifyTarget
  BY <1>12 DEF VerifyTarget
<1>13. CASE ClearData
  BY <1>13 DEF ClearData, Clear
<1>14. CASE PutData
  BY <1>14 DEF PutData, Put
<1>15. CASE ClearCache
  BY <1>15 DEF ClearCache, Clear
<1>16. CASE PutCache
  BY <1>16 DEF PutCache, Put
<1>17. CASE RepairK3s
  BY <1>17 DEF RepairK3s
<1>21. CASE BeginRepair
  BY <1>21 DEF BeginRepair
<1>18. ASSUME NEW b \in BackupId, Decay(b) PROVE Verified'
  BY <1>18 DEF Decay
<1>19. ASSUME NEW b \in BackupId, BeginBackup(b) PROVE Verified'
  BY <1>19 DEF BeginBackup
<1>20. ASSUME NEW b \in BackupId, BeginRestore(b) PROVE Verified'
  BY <1>20 DEF BeginRestore
<1> QED
  BY <1>1, <1>2, <1>3, <1>4, <1>5, <1>6, <1>7, <1>8, <1>9, <1>10, <1>11, <1>12, <1>13,
     <1>14, <1>15, <1>16, <1>17, <1>18, <1>19, <1>20, <1>21, <1>22 DEF BackupNext, BeginGated, Body,
     Environment, Create, Restore

\* The copy out of the host proceeds.
LEMMA NextSaved == BackupInv /\ BackupNext => Saved'
<1> SUFFICES ASSUME BackupInv, BackupNext PROVE Saved'
  OBVIOUS
<1> USE Kinds DEF BackupInv, TypeInv, BackupTypeOK, Operation, Quiet, Saved, Files, Saving, Replacing,
        Content, Empty, disk, service, operation, Return, Abort, Proceed
<1>1. CASE DatastoreWrite
  BY <1>1 DEF DatastoreWrite
<1>2. CASE VolumeWrite
  BY <1>2 DEF VolumeWrite
<1>3. CASE StageCache
  BY <1>3 DEF StageCache
<1>4. CASE SystemdRestart
  BY <1>4 DEF SystemdRestart
<1>22. CASE StopEnds
  BY <1>22 DEF StopEnds
<1>5. CASE BackupDies
  BY <1>5 DEF BackupDies
<1>6. CASE Reboot
  BY <1>6 DEF Reboot
<1>7. CASE Stop
  BY <1>7 DEF Stop
<1>8. CASE StartAgain
  BY <1>8 DEF StartAgain
<1>9. CASE SaveData
  <2>1. target \in BackupId /\ op = "backup" /\ stage = "saveData" /\ UNCHANGED live
    BY <1>9 DEF SaveData, Save
  <2>2. CASE /\ pending # {}
             /\ \E f \in pending :
                   /\ copy' = [copy EXCEPT ![target][f] = live[f]]
                   /\ Proceed("saveData", pending \ {f})
    <3>1. PICK f \in pending : /\ copy' = [copy EXCEPT ![target][f] = live[f]]
                              /\ Proceed("saveData", pending \ {f})
      BY <2>2
    <3>2. \A g \in File : copy'[target][g] = IF g = f THEN live[f] ELSE copy[target][g]
      BY <2>1, <3>1
    <3>3. stage' = "saveData" /\ pending' = pending \ {f} /\ UNCHANGED <<target, op>>
      BY <3>1
    <3>4. /\ \A g \in Datastore : g \in pending' \/ copy'[target'][g] = live'[g]
          /\ \A g \in Cache : copy'[target'][g] = 0
          /\ pending' \subseteq Data
      BY <2>1, <3>2, <3>3
    <3> QED
      BY <3>3, <3>4
  <2>3. CASE pending = {} /\ Proceed("saveCache", Files(live) \cap Cache) /\ UNCHANGED disk
    BY <2>1, <2>3
  <2>4. CASE Abort
    BY <2>4
  <2> QED
    BY <1>9, <2>2, <2>3, <2>4 DEF SaveData, Save
<1>10. CASE SaveCache
  BY <1>10 DEF SaveCache, Save
<1>11. CASE SaveManifest
  BY <1>11 DEF SaveManifest
<1>12. CASE VerifyTarget
  BY <1>12 DEF VerifyTarget
<1>13. CASE ClearData
  BY <1>13 DEF ClearData, Clear
<1>14. CASE PutData
  BY <1>14 DEF PutData, Put
<1>15. CASE ClearCache
  BY <1>15 DEF ClearCache, Clear
<1>16. CASE PutCache
  BY <1>16 DEF PutCache, Put
<1>17. CASE RepairK3s
  BY <1>17 DEF RepairK3s
<1>21. CASE BeginRepair
  BY <1>21 DEF BeginRepair
<1>18. ASSUME NEW b \in BackupId, Decay(b) PROVE Saved'
  BY <1>18 DEF Decay
<1>19. ASSUME NEW b \in BackupId, BeginBackup(b) PROVE Saved'
  BY <1>19 DEF BeginBackup
<1>20. ASSUME NEW b \in BackupId, BeginRestore(b) PROVE Saved'
  BY <1>20 DEF BeginRestore
<1> QED
  BY <1>1, <1>2, <1>3, <1>4, <1>5, <1>6, <1>7, <1>8, <1>9, <1>10, <1>11, <1>12, <1>13,
     <1>14, <1>15, <1>16, <1>17, <1>18, <1>19, <1>20, <1>21, <1>22 DEF BackupNext, BeginGated, Body,
     Environment, Create, Restore

\* The copy back into the host proceeds.
LEMMA NextPutBack == BackupInv /\ BackupNext => PutBack'
<1> SUFFICES ASSUME BackupInv, BackupNext PROVE PutBack'
  OBVIOUS
<1> USE Kinds DEF BackupInv, TypeInv, BackupTypeOK, Operation, Quiet, PutBack, Files, Saving, Replacing,
        Content, disk, service, operation, Return, Abort, Proceed
<1>1. CASE DatastoreWrite
  BY <1>1 DEF DatastoreWrite
<1>2. CASE VolumeWrite
  BY <1>2 DEF VolumeWrite
<1>3. CASE StageCache
  BY <1>3 DEF StageCache
<1>4. CASE SystemdRestart
  BY <1>4 DEF SystemdRestart
<1>22. CASE StopEnds
  BY <1>22 DEF StopEnds
<1>5. CASE BackupDies
  BY <1>5 DEF BackupDies
<1>6. CASE Reboot
  BY <1>6 DEF Reboot
<1>7. CASE Stop
  BY <1>7 DEF Stop
<1>8. CASE StartAgain
  BY <1>8 DEF StartAgain
<1>9. CASE SaveData
  BY <1>9 DEF SaveData, Save
<1>10. CASE SaveCache
  BY <1>10 DEF SaveCache, Save
<1>11. CASE SaveManifest
  BY <1>11 DEF SaveManifest
<1>12. CASE VerifyTarget
  BY <1>12 DEF VerifyTarget
<1>13. CASE ClearData
  BY <1>13 DEF ClearData, Clear
<1>14. CASE PutData
  BY <1>14 DEF PutData, Put
<1>15. CASE ClearCache
  BY <1>15 DEF ClearCache, Clear
<1>16. CASE PutCache
  BY <1>16 DEF PutCache, Put
<1>17. CASE RepairK3s
  BY <1>17 DEF RepairK3s
<1>21. CASE BeginRepair
  BY <1>21 DEF BeginRepair
<1>18. ASSUME NEW b \in BackupId, Decay(b) PROVE PutBack'
  BY <1>18 DEF Decay
<1>19. ASSUME NEW b \in BackupId, BeginBackup(b) PROVE PutBack'
  BY <1>19 DEF BeginBackup
<1>20. ASSUME NEW b \in BackupId, BeginRestore(b) PROVE PutBack'
  BY <1>20 DEF BeginRestore
<1> QED
  BY <1>1, <1>2, <1>3, <1>4, <1>5, <1>6, <1>7, <1>8, <1>9, <1>10, <1>11, <1>12, <1>13,
     <1>14, <1>15, <1>16, <1>17, <1>18, <1>19, <1>20, <1>21, <1>22 DEF BackupNext, BeginGated, Body,
     Environment, Create, Restore

-----------------------------------------------------------------------------

\* The invariant holds at first, and every step of Backup keeps it.
LEMMA BackupInitial == BackupInit => BackupInv
<1> SUFFICES ASSUME BackupInit PROVE BackupInv
  OBVIOUS
<1>1. TypeInv
  <2>1. live \in Content /\ Empty \in Content
    BY Contents DEF BackupInit, Content, Empty
  <2> QED
    BY <2>1, Contents DEF BackupInit, TypeInv, BackupTypeOK, Operation, Stage, Saving, Replacing
<1>2. Quiet /\ Saved /\ AsListed /\ Verified /\ PutBack
  BY DEF BackupInit, Quiet, Saved, AsListed, Verified, PutBack, Saving, Replacing
<1> QED
  BY <1>1, <1>2 DEF BackupInv

LEMMA BackupInductive == BackupInv /\ [BackupNext]_backupVars => BackupInv'
<1> SUFFICES ASSUME BackupInv, [BackupNext]_backupVars PROVE BackupInv'
  OBVIOUS
<1>1. CASE BackupNext
  BY <1>1, NextTypes, NextQuiet, NextAsListed, NextVerified, NextSaved, NextPutBack
     DEF BackupInv
<1>2. CASE UNCHANGED backupVars
  BY <1>2 DEF backupVars, operation, BackupInv, TypeInv, BackupTypeOK, Operation, Quiet, Saved,
              AsListed, Verified, Verify, Files, PutBack
<1> QED
  BY <1>1, <1>2

\* The inductive invariant of backup and restore.
THEOREM BackupInvariant == BackupSpec => []BackupInv
BY BackupInitial, BackupInductive, PTL DEF BackupSpec

\* Type correctness.
THEOREM BackupTypeCorrect == BackupSpec => []BackupTypeOK
<1>1. BackupInv => BackupTypeOK
  BY DEF BackupInv, TypeInv
<1> QED
  BY <1>1, BackupInvariant, PTL

\* "a failed backup does not leave the appliance down": K3s is left stopped
\* only by a death or an error of systemctl, whatever else fails.
THEOREM NotLeftStoppedTheorem == BackupSpec => []NotLeftStopped
<1>1. BackupInv => NotLeftStopped
  BY DEF BackupInv, Quiet, NotLeftStopped
<1> QED
  BY <1>1, BackupInvariant, PTL

\* A restore that starts K3s has put back what the manifest records: the
\* verified backup is the manifest, and the copy of it is complete.
THEOREM RestoredTheorem == BackupSpec => []RestoredIsTheBackup
<1>1. BackupInv => RestoredIsTheBackup
  <2> SUFFICES ASSUME BackupInv, op = "restore", stage = "start", NEW f \in Datastore \cup Cache
               PROVE /\ f \in Datastore => live[f] = manifest[target][f]
                     /\ f \in Cache /\ manifest[target][f] # 0 => live[f] = manifest[target][f]
    BY DEF RestoredIsTheBackup
  <2>1. target \in BackupId /\ manifest[target] # NoManifest /\ Verify(target)
    BY DEF BackupInv, TypeInv, Operation, Verified
  <2>2. copy[target][f] = manifest[target][f]
    BY <2>1, Kinds DEF BackupInv, AsListed, Verify, Files
  <2> QED
    BY <2>2 DEF BackupInv, PutBack
<1> QED
  BY <1>1, BackupInvariant, PTL

\* A manifest describes the datastore and the second tree of one moment.
THEOREM PointInTimeTheorem == BackupSpec => ManifestIsAPointInTime
<1>1. BackupInv /\ [BackupNext]_backupVars =>
        [\A b \in BackupId :
            manifest[b] = NoManifest /\ manifest'[b] # NoManifest =>
                \A f \in Datastore \cup Cache : manifest'[b][f] = live[f]]_backupVars
  <2> SUFFICES ASSUME BackupInv, [BackupNext]_backupVars, NEW b \in BackupId,
                      manifest[b] = NoManifest, manifest'[b] # NoManifest,
                      NEW f \in Datastore \cup Cache
               PROVE manifest'[b][f] = live[f]
    OBVIOUS
  <2>1. manifest' # manifest
    OBVIOUS
  <2>2. SaveManifest
    BY <2>1 DEF backupVars, BackupNext, BeginGated, Body, Environment, Create, Restore, DatastoreWrite, VolumeWrite, StageCache,
       SystemdRestart, StopEnds, BackupDies, Reboot, Stop, StartAgain, SaveData, SaveCache, Save, VerifyTarget,
       ClearData, ClearCache, Clear, PutData, PutCache, Put, RepairK3s, BeginRepair, Decay,
       BeginBackup, BeginRestore, Abort, disk
  <2>3. manifest' = [manifest EXCEPT ![target] = copy[target]] /\ stage = "manifest"
    BY <2>1, <2>2 DEF SaveManifest, Abort, disk
  <2>4. b = target /\ manifest'[b] = copy[target]
    BY <2>3 DEF BackupInv, TypeInv, BackupTypeOK
  <2> QED
    BY <2>3, <2>4 DEF BackupInv, Saved
<1> QED
  BY <1>1, BackupInvariant, PTL DEF BackupSpec, ManifestIsAPointInTime

\* The whole datastore is given up only under a verified backup.
THEOREM LossTheorem == BackupSpec => LossOnlyUnderAVerifiedBackup
<1>1. BackupInv /\ [BackupNext]_backupVars =>
        [Whole(live) /\ ~Whole(live') => op = "restore" /\ Verify(target)]_backupVars
  <2> SUFFICES ASSUME BackupInv, [BackupNext]_backupVars, Whole(live), ~Whole(live')
               PROVE op = "restore" /\ Verify(target)
    OBVIOUS
  <2>1. \E f \in Datastore : live'[f] # live[f]
    BY DEF Whole
  <2>2. ~DatastoreWrite
    <3> SUFFICES ASSUME DatastoreWrite PROVE Whole(live')
      OBVIOUS
    <3>1. version' \in 1..MaxVersion
      BY VersionAssumption DEF DatastoreWrite, BackupInv, TypeInv, BackupTypeOK, Version
    <3>2. \A f \in Datastore : live'[f] = IF f \in Layout[version'] THEN version' ELSE 0
      BY Kinds DEF DatastoreWrite
    <3> QED
      BY <3>1, <3>2 DEF Whole
  <2>3. ~VolumeWrite /\ ~StageCache
    BY <2>1, Kinds DEF VolumeWrite, StageCache
  <2>4. ClearData \/ PutData \/ ClearCache \/ PutCache
    BY <2>1, <2>2, <2>3 DEF backupVars, BackupNext, BeginGated, Body, Environment, Create,
       Restore, SystemdRestart, StopEnds, BackupDies, Reboot, Stop, StartAgain, SaveData, SaveCache, Save, SaveManifest,
       VerifyTarget, RepairK3s, BeginRepair, Decay, BeginBackup, BeginRestore, Abort, disk
  <2>5. stage \in Replacing
    BY <2>4 DEF ClearData, PutData, ClearCache, PutCache, Clear, Put, Replacing
  <2> QED
    BY <2>5 DEF BackupInv, TypeInv, Operation, Verified, Replacing
<1> QED
  BY <1>1, BackupInvariant, PTL DEF BackupSpec, LossOnlyUnderAVerifiedBackup

-----------------------------------------------------------------------------
(* DispatchedBackup.                                                       *)

\* Every step of the composition is one of the dispatch skeleton, or none of
\* its business: what Lifecycle promises holds of the composition.
THEOREM DispatchedImplementsLifecycle == DispatchedSpec => Spec
<1>1. DispatchedInit => Init
  BY DEF DispatchedInit
<1>2. [DispatchedNext]_dispatchedVars => [Next]_vars
  <2> SUFFICES ASSUME [DispatchedNext]_dispatchedVars PROVE [Next]_vars
    OBVIOUS
  <2>1. ASSUME NEW p \in Process,
               Around(p) \/ BeginBody(p) \/ BeginWork(p) \/ Work(p) \/ EndWork(p) \/ Die(p)
        PROVE  Next
    BY <2>1 DEF Around, BeginBody, BeginWork, Work, EndWork, Die, Next, Step
  <2>2. CASE Outside
    BY <2>2 DEF Outside
  <2>3. CASE UNCHANGED dispatchedVars
    BY <2>3 DEF dispatchedVars
  <2> QED
    BY <2>1, <2>2, <2>3 DEF DispatchedNext
<1> QED
  BY <1>1, <1>2, PTL DEF DispatchedSpec, Spec

\* A process has a transaction in memory only from its Begin on, and it is of
\* the process's command.
Named ==
    \A p \in Process :
        /\ pc[p] \in {"idle", "prepare", "open", "flock", "current", "begin"} => txn[p] = NoTxn
        /\ Begun(p) => txn[p].type = cmd[p]

LEMMA NamedInvariant == Spec => []Named
<1>1. Init => Named
  BY DEF Init, Named, Begun, Running
<1>2. LockInv /\ Named /\ [Next]_vars => Named'
  <2> SUFFICES ASSUME LockInv, Named, [Next]_vars PROVE Named'
    OBVIOUS
  <2> USE DEF LockInv, TypeOK, Named, Begun, Running, Goto
  <2>e. ASSUME NEW p \in Process, Exit(p) PROVE Named'
    BY <2>e DEF Exit
  <2>1. ASSUME NEW p \in Process, Start(p) PROVE Named'
    BY <2>1 DEF Start
  <2>2. ASSUME NEW p \in Process, PrepareStateDir(p) \/ OpenLockFile(p) \/ FlockFile(p)
        PROVE  Named'
    BY <2>2, <2>e DEF PrepareStateDir, OpenLockFile, FlockFile, local
  <2>3. ASSUME NEW p \in Process, ReadCurrent(p) \/ Release(p) \/ Crash(p)
        PROVE  Named'
    BY <2>3, <2>e DEF ReadCurrent, Release, Crash, Leave, local
  <2>4. ASSUME NEW p \in Process, Begin(p) PROVE Named'
    BY <2>4, <2>e DEF Begin, Leave
  <2>5. ASSUME NEW p \in Process,
               TouchHost(p) \/ EnterRemoveAll(p) \/ UnlinkEntry(p) \/ RemoveStateDir(p) \/ EndBody(p)
        PROVE  Named'
    <3>1. UNCHANGED <<txn, cmd>>
      BY <2>5 DEF TouchHost, EnterRemoveAll, UnlinkEntry, RemoveStateDir, EndBody, local
    <3>2. pc[p] \in {"body", "unlink", "reset"}
      BY <2>5 DEF TouchHost, EnterRemoveAll, UnlinkEntry, RemoveStateDir, EndBody
    <3>3. \E l \in {"body", "unlink", "reset", "finish"} : pc' = [pc EXCEPT ![p] = l]
      BY <2>5 DEF TouchHost, EnterRemoveAll, UnlinkEntry, RemoveStateDir, EndBody
    <3> QED
      BY <3>1, <3>2, <3>3
  <2>6. ASSUME NEW p \in Process, RecordOutcome(p) PROVE Named'
    BY <2>6 DEF RecordOutcome
  <2>7. CASE UNCHANGED vars
    BY <2>7 DEF vars
  <2> QED
    BY <2>1, <2>2, <2>3, <2>4, <2>5, <2>6, <2>7 DEF Next, Step
<1> QED
  BY <1>1, <1>2, LockInvariant, PTL DEF Spec

\* The facts about the skeleton that the composition rests on.
DispatchInv == SerialInv /\ Named

LEMMA DispatchInvariant ==
    ASSUME OnlyNodeCommands PROVE Spec => []DispatchInv
<1>1. NoReset /\ NoDryRuns
  BY DEF OnlyNodeCommands, NodeCommand, NoReset, NoDryRuns
<1>2. Spec => []NoResetInv
  BY <1>1, NoResetInvariant
<1>3. Spec => []GateHolds
  BY <1>1, GateInvariant
<1>4. Spec => []Wet
  BY <1>1, WetInvariant
<1> QED
  BY <1>2, <1>3, <1>4, NamedInvariant, PTL DEF DispatchInv, SerialInv

\* Whoever works on the node is a process in the body of that operation.
Owner(p) == pc[p] = "body" /\ cmd[p] = op /\ (p \in touched \/ op = "repair")
Owned == stage # "idle" => \E p \in Process : Owner(p)

\* The record of a process between its Begin and the end of its body is in the
\* journal, so nobody takes it for abandoned, and nobody else is there.
LEMMA BegunIsAlive ==
    ASSUME DispatchInv, NEW p \in Process, Begun(p)
    PROVE  /\ journal = txn[p] /\ journal # NoTxn /\ Interrupted(journal)
           /\ journal.type = cmd[p]
           /\ ~Abandoned
           /\ \A q \in Process \ {p} : txn[q] = NoTxn
<1> USE DEF DispatchInv, SerialInv, NoResetInv, LockInv
<1>1. journal = txn[p] /\ txn[p] # NoTxn /\ txn[p].status = "in-progress" /\ txn[p].type = cmd[p]
  BY DEF Recorded, Wet, InMemory, Named
<1>2. ~Abandoned /\ Interrupted(journal)
  BY <1>1 DEF Abandoned, Interrupted
<1>3. ASSUME NEW q \in Process \ {p} PROVE txn[q] = NoTxn
  <2>1. ~Locked(q)
    BY LinkedIsExclusive DEF MutualExclusion, Locked, Begun, Running, Wet
  <2>2. pc[q] \in {"idle", "prepare", "open", "flock"}
    BY <2>1 DEF TypeOK, Label, Locked, Wet
  <2> QED
    BY <2>2 DEF Named
<1> QED
  BY <1>1, <1>2, <1>3

\* The same, in the next state.
LEMMA BegunStaysAlive ==
    ASSUME DispatchInv', NEW p \in Process, Begun(p)'
    PROVE  ~Abandoned'
<1> USE DEF DispatchInv, SerialInv, NoResetInv, LockInv
<1>1. journal' = txn'[p] /\ txn'[p] # NoTxn
  BY DEF Recorded, Wet, InMemory
<1> QED
  BY <1>1 DEF Abandoned

\* A process that goes leaves an abandoned record abandoned; if it was between
\* its Begin and the end of its body, it leaves one.
LEMMA ExitAbandons ==
    ASSUME DispatchInv, NEW p \in Process, Exit(p), UNCHANGED journal
    PROVE  /\ Abandoned => Abandoned'
           /\ Begun(p) => Abandoned'
<1>0. \A q \in Process : txn'[q] = IF q = p THEN NoTxn ELSE txn[q]
  BY DEF Exit, DispatchInv, SerialInv, NoResetInv, LockInv, TypeOK
<1>1. Abandoned => Abandoned'
  BY <1>0 DEF Abandoned
<1>2. Begun(p) => Abandoned'
  BY <1>0, BegunIsAlive DEF Abandoned
<1> QED
  BY <1>1, <1>2

\* A step of dispatch that begins nothing abandons at most what it leaves.
LEMMA AroundAbandons ==
    ASSUME DispatchInv, NEW p \in Process, Around(p) \/ (Begin(p) /\ pc'[p] # "body")
    PROVE  Abandoned => Abandoned'
<1> SUFFICES ASSUME Abandoned PROVE Abandoned'
  OBVIOUS
<1>1. CASE UNCHANGED journal /\ Exit(p)
  BY <1>1, ExitAbandons
<1>2. CASE UNCHANGED <<journal, txn>>
  BY <1>2 DEF Abandoned
<1>3. CASE RecordOutcome(p)
  BY <1>3, BegunIsAlive DEF RecordOutcome, Begun
<1>4. CASE Begin(p) /\ pc'[p] # "body"
  <2>1. pc'[p] = "body" \/ (Leave(p) /\ UNCHANGED journal)
    BY <1>4 DEF Begin, Goto, DispatchInv, SerialInv, NoResetInv, LockInv, TypeOK
  <2> QED
    BY <1>1, <1>2, <1>4, <2>1 DEF Leave
<1>5. CASE Around(p) /\ ~RecordOutcome(p)
  BY <1>1, <1>2, <1>5 DEF Around, Start, PrepareStateDir, OpenLockFile, FlockFile, ReadCurrent,
                          Release, Leave, local
<1> QED
  BY <1>3, <1>4, <1>5

\* A step of another process leaves the owner the owner.
LEMMA OwnerStays ==
    ASSUME DispatchInv, NEW p \in Process, NEW q \in Process, Owner(q),
           Around(p) \/ Begin(p) \/ (Crash(p) /\ ~Running(p)), UNCHANGED op
    PROVE  Owner(q)'
<1> USE DEF DispatchInv, SerialInv, NoResetInv, LockInv, TypeOK
<1>1. p # q
  BY DEF Owner, Around, Begin, Running, Start, PrepareStateDir, OpenLockFile, FlockFile, ReadCurrent,
         RecordOutcome, Release
<1>2. CASE Exit(p)
  BY <1>1, <1>2 DEF Owner, Exit, Goto
<1>3. CASE /\ pc' = [pc EXCEPT ![p] = pc'[p]] /\ UNCHANGED touched
           /\ UNCHANGED cmd \/ \E c \in Command : cmd' = [cmd EXCEPT ![p] = c]
  BY <1>1, <1>3 DEF Owner
<1>4. \/ Exit(p)
      \/ /\ \E l \in Label : pc' = [pc EXCEPT ![p] = l]
         /\ UNCHANGED touched
         /\ UNCHANGED cmd \/ \E c \in Command : cmd' = [cmd EXCEPT ![p] = c]
  BY DEF Around, Begin, Crash, Start, PrepareStateDir, OpenLockFile, FlockFile, ReadCurrent,
         RecordOutcome, Release, Leave, Goto, Label, local
<1> QED
  BY <1>2, <1>3, <1>4

\* The inductive invariant of the composition: what Backup calls interrupted
\* is what the journal says, and the work on the node has an owner.
NodeInv == BackupInv /\ Owned /\ interrupted = Abandoned

\* Busy: while a body works on the node, nothing in the journal is abandoned.
LEMMA BusyIsAlive ==
    /\ DispatchInv /\ Owned /\ stage # "idle" => ~Abandoned
    /\ DispatchInv' /\ Owned' /\ stage' # "idle" => ~Abandoned'
<1>1. ASSUME DispatchInv, Owned, stage # "idle" PROVE ~Abandoned
  <2>1. PICK p \in Process : Owner(p)
    BY <1>1 DEF Owned
  <2>2. Begun(p)
    BY <2>1 DEF Owner, Begun, Running
  <2> QED
    BY <1>1, <2>2, BegunIsAlive
<1>2. ASSUME DispatchInv', Owned', stage' # "idle" PROVE ~Abandoned'
  <2>1. PICK p \in Process : Owner(p)'
    BY <1>2 DEF Owned
  <2>2. Begun(p)'
    BY <2>1 DEF Owner, Begun, Running
  <2> QED
    BY <1>2, <2>2, BegunStaysAlive
<1> QED
  BY <1>1, <1>2

\* A step that leaves the node alone and no interruption behind unseen is a
\* stutter of Backup, or the death that leaves a record in progress.
LEMMA NodeAlone ==
    ASSUME BackupInv, UNCHANGED node, interrupted' \in BOOLEAN,
           interrupted => interrupted', stage # "idle" => ~interrupted'
    PROVE  [BackupNext]_backupVars
<1>1. CASE interrupted' = interrupted
  BY <1>1 DEF node, backupVars
<1>2. CASE interrupted' = TRUE /\ stage = "idle"
  <2>1. BackupDies
    BY <1>2 DEF BackupDies, Return, node, disk, BackupInv, TypeInv, BackupTypeOK, Operation, Quiet
  <2> QED
    BY <1>2, <2>1 DEF BackupNext
<1> QED
  BY <1>1, <1>2 DEF BackupInv, TypeInv, BackupTypeOK

\* Every step of the composition keeps an owner for the work on the node.
LEMMA NextOwned ==
    ASSUME OnlyNodeCommands, DispatchInv, NodeInv, DispatchedNext
    PROVE  Owned'
<1> SUFFICES ASSUME stage' # "idle" PROVE \E p \in Process : Owner(p)'
  BY DEF Owned
<1> USE DEF NodeInv
<1>t. /\ pc \in [Process -> Label] /\ cmd \in [Process -> Command \cup {"none"}]
      /\ touched \subseteq Process
  BY DEF DispatchInv, SerialInv, NoResetInv, LockInv, TypeOK
<1>1. ASSUME NEW p \in Process,
             Around(p) \/ Begin(p) \/ (Crash(p) /\ ~Running(p)), UNCHANGED <<stage, op>>
      PROVE  \E q \in Process : Owner(q)'
  <2>1. PICK q \in Process : Owner(q)
    BY <1>1 DEF Owned
  <2> QED
    BY <1>1, <2>1, OwnerStays
<1>2. ASSUME NEW p \in Process, BeginBody(p) PROVE \E q \in Process : Owner(q)'
  <2>1. CASE UNCHANGED node
    BY <1>1, <1>2, <2>1 DEF BeginBody, node
  <2>2. CASE pc'[p] = "body" /\ cmd[p] = "repair" /\ BeginRepair
    <3>1. UNCHANGED cmd
      BY <1>2, <2>2, <1>t DEF BeginBody, Begin, Leave, Exit, Goto, Label
    <3>2. Owner(p)'
      BY <2>2, <3>1 DEF BeginRepair, Owner
    <3> QED
      BY <3>2
  <2> QED
    BY <1>2, <2>1, <2>2 DEF BeginBody
<1>3. ASSUME NEW p \in Process, BeginWork(p) PROVE \E q \in Process : Owner(q)'
  <2>1. op' = cmd[p]
    BY <1>3 DEF BeginWork, BeginBackup, BeginRestore, StageCache, operation
  <2>2. Owner(p)'
    BY <1>3, <2>1 DEF BeginWork, TouchHost, Owner
  <2> QED
    BY <2>2
<1>4. ASSUME NEW p \in Process, Work(p) PROVE \E q \in Process : Owner(q)'
  <2>1. op' = op
    BY <1>4 DEF Work, Body, Create, Restore, Stop, SaveData, SaveCache, Save, SaveManifest,
                StartAgain, VerifyTarget, ClearData, ClearCache, Clear, PutData, PutCache, Put,
                RepairK3s, Abort, Return, Proceed, operation
  <2>2. Owner(p)'
    BY <1>4, <2>1 DEF Work, TouchHost, Owner
  <2> QED
    BY <2>2
<1>5. ASSUME NEW p \in Process, EndWork(p) PROVE FALSE
  BY <1>5 DEF EndWork, node
<1>6. ASSUME NEW p \in Process, Die(p) PROVE \E q \in Process : Owner(q)'
  BY <1>1, <1>6 DEF Die, BackupDies, Return, node
<1>7. CASE Outside
  <2>1. UNCHANGED <<stage, op>>
    BY <1>7 DEF Outside, Environment, Reboot, DatastoreWrite, VolumeWrite, SystemdRestart, StopEnds, Decay,
                operation
  <2> QED
    BY <1>7, <2>1 DEF Outside, vars, Owned, Owner
<1> QED
  BY <1>1, <1>2, <1>3, <1>4, <1>5, <1>6, <1>7 DEF DispatchedNext, node

\* Every step of the composition is a step of Backup, or a stutter.
LEMMA NextIsBackup ==
    ASSUME OnlyNodeCommands, DispatchInv, DispatchInv', NodeInv, DispatchedNext
    PROVE  [BackupNext]_backupVars
<1>o. Owned'
  BY NextOwned
<1>b. Abandoned \in BOOLEAN /\ Abandoned' \in BOOLEAN
  BY DEF Abandoned, Interrupted
<1>i. interrupted = Abandoned /\ interrupted' = Abandoned'
  BY DEF NodeInv, DispatchedNext
<1>a. ASSUME UNCHANGED node, Abandoned => Abandoned' PROVE [BackupNext]_backupVars
  <2>1. stage # "idle" => ~interrupted'
    BY <1>a, <1>o, <1>i, BusyIsAlive DEF node
  <2> QED
    BY <1>a, <1>b, <1>i, <2>1, NodeAlone DEF NodeInv
<1>w. ASSUME NEW p \in Process, TouchHost(p) PROVE ~interrupted /\ ~interrupted'
  <2>1. ~Abandoned
    BY <1>w, BegunIsAlive DEF TouchHost, Begun, Running
  <2>2. ~Abandoned'
    BY <1>w, <2>1 DEF TouchHost, Abandoned
  <2> QED
    BY <1>i, <2>1, <2>2
<1>1. ASSUME NEW p \in Process, Around(p), UNCHANGED node PROVE [BackupNext]_backupVars
  BY <1>1, <1>a, AroundAbandons
<1>2. ASSUME NEW p \in Process, BeginBody(p) PROVE [BackupNext]_backupVars
  <2>1. CASE pc'[p] # "body"
    BY <1>2, <1>a, <2>1, AroundAbandons DEF BeginBody
  <2>2. ASSUME pc'[p] = "body" PROVE ~Abandoned'
    BY <1>2, <2>2, BegunStaysAlive DEF Begun, Running
  <2>3. CASE pc'[p] = "body" /\ cmd[p] = "repair"
    BY <1>2, <1>i, <2>2, <2>3 DEF BeginBody, BackupNext
  <2>4. CASE pc'[p] = "body" /\ cmd[p] # "repair"
    <3>1. pc[p] = "begin" /\ ~dry[p] /\ cmd[p] \in NodeCommand
      BY <1>2 DEF BeginBody, Begin, DispatchInv, SerialInv, NoResetInv, LockInv, Wet,
                  CommandOfTheStarted, OnlyNodeCommands
    <3>2. MayBegin(cmd[p], journal)
      BY <3>1 DEF DispatchInv, SerialInv, GateHolds
    <3>3. ~Abandoned
      BY <2>4, <3>1, <3>2 DEF MayBegin, allowsInterruptedRecovery, Resumable, NodeCommand, Abandoned
    <3> QED
      BY <1>2, <1>a, <2>4, <3>3 DEF BeginBody
  <2> QED
    BY <2>1, <2>3, <2>4
<1>3. ASSUME NEW p \in Process, BeginWork(p) PROVE [BackupNext]_backupVars
  <2>1. BeginGated
    BY <1>3 DEF BeginWork, BeginGated
  <2>2. ~interrupted /\ UNCHANGED interrupted
    BY <1>3, <1>w, <1>b, <1>i DEF BeginWork
  <2> QED
    BY <1>i, <2>1, <2>2 DEF BackupNext
<1>4. ASSUME NEW p \in Process, Work(p) PROVE [BackupNext]_backupVars
  <2>1. Body /\ UNCHANGED interrupted
    BY <1>4, <1>w, <1>b, <1>i DEF Work
  <2> QED
    BY <1>i, <2>1 DEF BackupNext
<1>5. ASSUME NEW p \in Process, EndWork(p) PROVE [BackupNext]_backupVars
  <2>1. Abandoned => Abandoned'
    BY <1>5 DEF EndWork, EndBody, Abandoned
  <2> QED
    BY <1>5, <1>a, <2>1 DEF EndWork
<1>6. ASSUME NEW p \in Process, Die(p) PROVE [BackupNext]_backupVars
  <2>1. (Abandoned => Abandoned') /\ (Running(p) => Abandoned')
    BY <1>6, ExitAbandons DEF Die, Crash, Begun
  <2>2. CASE Running(p)
    BY <1>6, <1>i, <1>b, <2>1, <2>2 DEF Die, BackupNext
  <2>3. CASE ~Running(p)
    BY <1>6, <1>a, <2>1, <2>3 DEF Die
  <2> QED
    BY <2>2, <2>3
<1>7. CASE Outside
  <2>1. Abandoned' = Abandoned
    BY <1>7 DEF Outside, vars, Abandoned
  <2>2. (Environment \/ Reboot) /\ UNCHANGED interrupted
    BY <1>7, <1>i, <2>1 DEF Outside
  <2> QED
    BY <1>i, <2>2 DEF BackupNext
<1> QED
  BY <1>1, <1>2, <1>3, <1>4, <1>5, <1>6, <1>7 DEF DispatchedNext

-----------------------------------------------------------------------------

\* The inductive invariant of the composition holds, and each of its steps is
\* one of Backup or a stutter.
THEOREM DispatchedInvariant ==
    OnlyNodeCommands => (DispatchedSpec => [](DispatchInv /\ NodeInv) /\ [][BackupNext]_backupVars)
<1> SUFFICES ASSUME OnlyNodeCommands
             PROVE  DispatchedSpec => [](DispatchInv /\ NodeInv) /\ [][BackupNext]_backupVars
  OBVIOUS
<1>1. DispatchedSpec => []DispatchInv
  BY DispatchInvariant, DispatchedImplementsLifecycle, PTL
<1>2. DispatchedInit => NodeInv
  <2> SUFFICES ASSUME DispatchedInit PROVE NodeInv
    OBVIOUS
  <2>1. BackupInv
    BY BackupInitial DEF DispatchedInit
  <2>2. Owned /\ ~interrupted /\ ~Abandoned
    BY DEF DispatchedInit, Init, BackupInit, Owned, Abandoned, Interrupted
  <2>3. interrupted \in BOOLEAN /\ Abandoned \in BOOLEAN
    BY DEF DispatchedInit, BackupInit, Abandoned, Interrupted
  <2> QED
    BY <2>1, <2>2, <2>3 DEF NodeInv
<1>3. DispatchInv /\ DispatchInv' /\ NodeInv /\ [DispatchedNext]_dispatchedVars =>
        NodeInv' /\ [BackupNext]_backupVars
  <2> SUFFICES ASSUME DispatchInv, DispatchInv', NodeInv, [DispatchedNext]_dispatchedVars
               PROVE  NodeInv' /\ [BackupNext]_backupVars
    OBVIOUS
  <2>1. [BackupNext]_backupVars
    BY NextIsBackup DEF dispatchedVars
  <2>2. BackupInv'
    BY <2>1, BackupInductive DEF NodeInv
  <2>3. Owned' /\ interrupted' = Abandoned'
    <3>1. CASE DispatchedNext
      BY <3>1, NextOwned DEF DispatchedNext
    <3>2. CASE UNCHANGED dispatchedVars
      BY <3>2 DEF dispatchedVars, vars, backupVars, NodeInv, Owned, Owner, Abandoned
    <3> QED
      BY <3>1, <3>2
  <2> QED
    BY <2>1, <2>2, <2>3 DEF NodeInv
<1> QED
  BY <1>1, <1>2, <1>3, PTL DEF DispatchedSpec

\* The dispatch skeleton provides what Backup assumes of it: for every number
\* of invocations the composition implements Backup, journal and all.
THEOREM DispatchedImplementsBackup == OnlyNodeCommands => (DispatchedSpec => ImplementsBackup)
<1> SUFFICES ASSUME OnlyNodeCommands PROVE DispatchedSpec => ImplementsBackup
  OBVIOUS
<1>1. DispatchedInit => BackupInit
  BY DEF DispatchedInit
<1>2. DispatchedSpec => [][BackupNext]_backupVars
  BY DispatchedInvariant
<1> QED
  BY <1>1, <1>2, PTL DEF DispatchedSpec, BackupSpec, ImplementsBackup

\* While a body works on the node the journal on disk names its operation, in
\* progress.
THEOREM WorkIsRecordedTheorem == OnlyNodeCommands => (DispatchedSpec => []WorkIsRecorded)
<1> SUFFICES ASSUME OnlyNodeCommands PROVE DispatchedSpec => []WorkIsRecorded
  OBVIOUS
<1>1. DispatchInv /\ NodeInv => WorkIsRecorded
  <2> SUFFICES ASSUME DispatchInv, NodeInv, stage # "idle"
               PROVE  Interrupted(journal) /\ journal.type = op
    BY DEF WorkIsRecorded
  <2>1. PICK p \in Process : Owner(p)
    BY DEF NodeInv, Owned
  <2> QED
    BY <2>1, BegunIsAlive DEF Owner, Begun, Running
<1>2. DispatchedSpec => [](DispatchInv /\ NodeInv)
  BY DispatchedInvariant
<1> QED
  BY <1>1, <1>2, PTL

\* A body that is about to begin finds the node free.
THEOREM NodeIsFreeTheorem == OnlyNodeCommands => (DispatchedSpec => []NodeIsFree)
<1> SUFFICES ASSUME OnlyNodeCommands PROVE DispatchedSpec => []NodeIsFree
  OBVIOUS
<1>1. DispatchInv /\ NodeInv => NodeIsFree
  <2> SUFFICES ASSUME DispatchInv, NodeInv, stage # "idle",
                      NEW p \in Process, Running(p), p \notin touched
               PROVE  cmd[p] = "repair" /\ op = "repair"
    BY DEF NodeIsFree
  <2>1. PICK q \in Process : Owner(q)
    BY DEF NodeInv, Owned
  <2>2. p = q
    BY <2>1, LinkedIsExclusive
       DEF DispatchInv, SerialInv, NoResetInv, Wet, MutualExclusion, Locked, Owner, Running
  <2> QED
    BY <2>1, <2>2 DEF Owner
<1>2. DispatchedSpec => [](DispatchInv /\ NodeInv)
  BY DispatchedInvariant
<1> QED
  BY <1>1, <1>2, PTL

=============================================================================
