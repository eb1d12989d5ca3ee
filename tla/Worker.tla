------------------------------- MODULE Worker -------------------------------
(***************************************************************************)
(* One host as a further member of a cluster: it joins with an enrollment  *)
(* as an agent (JoinWorker) or as an extra server (JoinServer), its agent  *)
(* is upgraded in place (UpgradeWorker), and it is uninstalled or reset    *)
(* and may join again in another role (internal/install/join.go,           *)
(* internal/k3s, internal/teardown).  Around them: systemd, a zonctl that  *)
(* dies, reboots and repair.                                               *)
(*                                                                         *)
(* The content of a file is the release that wrote it.  The installer lock *)
(* (Lifecycle) admits one operation at a time, and a dead one blocks join  *)
(* and upgrade.  What the control plane knows of the host is Fleet's.      *)
(*                                                                         *)
(* Simplifications: uninstall and factory-reset are single steps (Install  *)
(* has theirs); the checks before the first change are one step; the       *)
(* preloaded images are those of whole releases.                           *)
(***************************************************************************)
EXTENDS Naturals, FiniteSets

CONSTANTS
    MaxRelease,    \* the releases are 1..MaxRelease
    Gpu            \* those whose inference runtime needs a GPU

Release == 1..MaxRelease

ASSUME ReleaseAssumption == MaxRelease \in Nat \ {0}
ASSUME GpuAssumption == Gpu \subseteq Release

Absent == 0
Content == Release \cup {Absent}
Run == {"binary", "config", "unit"}      \* what the K3s process is made of
File == Run \cup {"symlink"}
Role == {"agent", "server"}

VARIABLES
    file,          \* [File -> the release that wrote it]
    mode,          \* the mode the K3s configuration asks for
    token,         \* the roles whose join token is on the host
    loaded,        \* the unit systemd has read
    enabled,       \* the unit is started at boot
    process,       \* the files the K3s process was started from
    data,          \* the K3s data directory holds a node's state
    network,       \* containers and CNI state of a K3s that ran
    images,        \* the releases whose images are preloaded
    receipt, role, \* the installed-state receipt
    pc, op, target, joining,            \* the running operation
    before,        \* UpgradeWorker's snapshots
    interrupted,   \* the journal holds an operation that died
    excused,       \* history: a death, or an error of a rollback or of a stop
    relict         \* history: what an uninstall or a reset left behind

disk == <<file, mode, token>>
agent == <<loaded, enabled, process, data, network, images>>
record == <<receipt, role>>
operation == <<pc, op, target, joining, before>>
past == <<interrupted, excused, relict>>
vars == <<disk, agent, record, operation, past>>

Off == [f \in Run |-> Absent]
Starting == [f \in Run |-> file[f]]

Label ==
    {"idle", "wipe", "token", "config", "unit", "binary", "symlink", "start", "gpu", "ready",
     "preload", "save", "stop", "reload",
     "undo token", "undo stop", "undo config", "undo unit", "undo binary", "undo symlink",
     "undo reload", "undo network", "undo data",
     "back unit", "back config", "back binary", "back reload", "back start"}

TypeOK ==
    /\ file \in [File -> Content] /\ mode \in Role \cup {"none"} /\ token \subseteq Role
    /\ loaded \in Content /\ enabled \in BOOLEAN /\ process \in [Run -> Content]
    /\ data \in BOOLEAN /\ network \in BOOLEAN /\ images \subseteq Release
    /\ receipt \in Content /\ role \in Role \cup {"none"}
    /\ pc \in Label /\ op \in {"none", "join", "upgrade"}
    /\ target \in Content /\ joining \in Role \cup {"none"}
    /\ before \in [file : [Run -> Content], mode : Role \cup {"none"}]
    /\ interrupted \in BOOLEAN /\ excused \in BOOLEAN /\ relict \subseteq {"token", "data"}
    /\ mode = "none" <=> file["config"] = Absent
    /\ pc = "idle" <=> op = "none"
    /\ op # "none" => target \in Release

Nothing == [file |-> Off, mode |-> "none"]

Init ==
    /\ file = [f \in File |-> Absent] /\ mode = "none" /\ token = {}
    /\ loaded = Absent /\ enabled = FALSE /\ process = Off
    /\ data = FALSE /\ network = FALSE /\ images = {}
    /\ receipt = Absent /\ role = "none"
    /\ pc = "idle" /\ op = "none" /\ target = Absent /\ joining = "none" /\ before = Nothing
    /\ interrupted = FALSE /\ excused = FALSE /\ relict = {}

-----------------------------------------------------------------------------
(* Steps the operations share.                                             *)

Goto(label) == pc' = label /\ UNCHANGED <<op, target, joining, before>>

\* The process ends, and with it what it knew.
Return ==
    pc' = "idle" /\ op' = "none" /\ target' = Absent /\ joining' = "none" /\ before' = Nothing

\* An error after the first change: the rollback of the join, or the
\* deferred function of the upgrade.
Fail == Goto(IF op = "join" THEN "undo token" ELSE "back unit")

\* A file is replaced at once or not at all.
Write(f) ==
    \/ file' = [file EXCEPT ![f] = target]
    \/ UNCHANGED file

WriteConfig ==
    /\ pc = "config"
    /\ \/ file' = [file EXCEPT !["config"] = target] /\ mode' = joining /\ Goto("unit")
       \/ UNCHANGED <<file, mode>> /\ Fail
    /\ UNCHANGED <<token, agent, record, past>>

WriteUnit ==
    /\ pc = "unit"
    /\ \/ /\ file' = [file EXCEPT !["unit"] = target]
          /\ Goto(IF op = "join" THEN "binary" ELSE "reload")
       \/ UNCHANGED file /\ Fail
    /\ UNCHANGED <<mode, token, agent, record, past>>

InstallBinary ==
    /\ pc = "binary"
    /\ \/ /\ file' = [file EXCEPT !["binary"] = target]
          /\ Goto(IF op = "join" THEN "symlink" ELSE "config")
       \/ UNCHANGED file /\ Fail
    /\ UNCHANGED <<mode, token, agent, record, past>>

\* systemctl start does nothing to a unit that is active.
Up ==
    /\ process' = IF process = Off THEN Starting ELSE process
    /\ data' = TRUE /\ network' = TRUE

Down == process' = Off /\ UNCHANGED <<data, network>>

\* daemon-reload, enable, start; an error may come after any of the three.
EnableAndStart(Ok, Error) ==
    /\ \/ loaded' = file["unit"] /\ enabled' = TRUE /\ Up /\ Ok
       \/ /\ loaded' \in {loaded, file["unit"]} /\ enabled' \in {enabled, TRUE}
          /\ \/ Up /\ loaded' = file["unit"] /\ enabled'
             \/ UNCHANGED <<process, data, network>>
          /\ Error
    /\ UNCHANGED images

Start ==
    /\ pc = "start"
    /\ EnableAndStart(Goto(IF target \in Gpu /\ (op = "join" => joining = "agent")
                           THEN "gpu" ELSE "ready"), Fail)
    /\ UNCHANGED <<disk, record, past>>

\* ConfigureLocalK3sRuntime restarts the unit.
ConfigureGpu ==
    /\ pc = "gpu"
    /\ \/ process' = Starting /\ Goto("ready")
       \/ process' \in {process, Starting, Off} /\ Fail
    /\ UNCHANGED <<disk, loaded, enabled, data, network, images, record, past>>

WaitReady ==
    /\ pc = "ready"
    /\ \/ process # Off /\ Goto("preload")
       \/ Fail
    /\ UNCHANGED <<disk, agent, record, past>>

PreloadAll ==
    /\ pc = "preload"
    /\ \/ process # Off /\ images' = images \cup {target} /\ Goto("save")
       \/ images' \in {images, images \cup {target}} /\ Fail
    /\ UNCHANGED <<disk, loaded, enabled, process, data, network, record, past>>

SaveReceipt ==
    /\ pc = "save"
    /\ \/ /\ receipt' = target
          /\ role' = IF op = "join" THEN joining ELSE role
          /\ Return
       \/ UNCHANGED record /\ Fail
    /\ UNCHANGED <<disk, agent, past>>

-----------------------------------------------------------------------------
(* JoinWorker, JoinServer                                                  *)

\* A valid enrollment and a bundle of its release, on a host without a
\* receipt and without a K3s unit.
BeginJoin ==
    /\ pc = "idle" /\ ~interrupted
    /\ receipt = Absent /\ loaded = Absent
    /\ pc' = "wipe" /\ op' = "join" /\ target' \in Release /\ joining' \in Role
    /\ UNCHANGED <<disk, agent, record, before, past>>

\* An error returns: nothing has been written yet.
WipeData ==
    /\ pc = "wipe"
    /\ \/ /\ data' = FALSE /\ images' = {} /\ relict' = relict \ {"data"}
          /\ Goto("token")
       \/ UNCHANGED <<data, images, relict>> /\ Return
    /\ UNCHANGED <<disk, loaded, enabled, process, network, record, interrupted, excused>>

WriteJoinToken ==
    /\ pc = "token"
    /\ \/ token' = token \cup {joining} /\ Goto("config")
       \/ UNCHANGED token /\ Return
    /\ UNCHANGED <<file, mode, agent, record, past>>

EnsureKubectlSymlink ==
    /\ pc = "symlink"
    /\ \/ Write("symlink") /\ file' # file /\ Goto("start")
       \/ file' = [file EXCEPT !["symlink"] = Absent] /\ Fail
    /\ UNCHANGED <<mode, token, agent, record, past>>

\* A step of the rollback: its error is dropped.
Undo(from, next, Effect, same) ==
    /\ pc = from
    /\ \/ Effect /\ UNCHANGED excused
       \/ UNCHANGED same /\ excused' = TRUE
    /\ IF next = "idle" THEN Return ELSE Goto(next)
    /\ UNCHANGED <<record, interrupted>>

UndoToken ==
    /\ Undo("undo token", "undo stop",
            /\ token' = token \ {joining}
            /\ relict' = IF joining = "agent" THEN relict \ {"token"} ELSE relict,
            <<token, relict>>)
    /\ UNCHANGED <<file, mode, agent>>

UndoStop ==
    /\ Undo("undo stop", "undo config", process' = Off, process)
    /\ UNCHANGED <<disk, loaded, enabled, data, network, images, relict>>

UndoFile(f, from, next) ==
    /\ Undo(from, next, file' = [file EXCEPT ![f] = Absent], file)
    /\ mode' = IF f = "config" /\ file'[f] = Absent THEN "none" ELSE mode
    /\ UNCHANGED <<token, agent, relict>>

\* Fault: systemd keeps the unit in its list.
UndoReload_skipped ==
    /\ Undo("undo reload", "undo network", loaded' = loaded, loaded)
    /\ UNCHANGED <<disk, enabled, process, data, network, images, relict>>

UndoReload ==
    /\ Undo("undo reload", "undo network", loaded' = file["unit"], loaded)
    /\ UNCHANGED <<disk, enabled, process, data, network, images, relict>>

UndoNetwork ==
    /\ Undo("undo network", "undo data", network' = FALSE, network)
    /\ UNCHANGED <<disk, loaded, enabled, process, data, images, relict>>

UndoData ==
    /\ Undo("undo data", "idle", data' = FALSE /\ images' = {}, <<data, images>>)
    /\ UNCHANGED <<disk, loaded, enabled, process, network, relict>>

-----------------------------------------------------------------------------
(* UpgradeWorker                                                           *)

\* A receipt of another node than the first control plane, and the token of an
\* agent.  Neither the role nor the order of the releases is looked at.
BeginUpgrade ==
    /\ pc = "idle" /\ ~interrupted
    /\ receipt # Absent /\ "agent" \in token
    /\ pc' = "stop" /\ op' = "upgrade" /\ target' \in Release /\ joining' = "agent"
    /\ before' = [file |-> Starting, mode |-> mode]
    /\ UNCHANGED <<disk, agent, record, past>>

\* Fault: the files are replaced under the running agent.
StopAgent_skipped ==
    /\ pc = "stop"
    /\ Goto("binary")
    /\ UNCHANGED <<disk, agent, record, past>>

\* An error returns without the deferred function.
StopAgent ==
    /\ pc = "stop"
    /\ \/ Down /\ Goto("binary") /\ UNCHANGED excused
       \/ Down /\ Return /\ excused' = TRUE
       \/ UNCHANGED <<process, data, network, excused>> /\ Return
    /\ UNCHANGED <<disk, loaded, enabled, images, record, interrupted, relict>>

Reload(from, Ok, Error) ==
    /\ pc = from
    /\ \/ loaded' = file["unit"] /\ Ok
       \/ UNCHANGED loaded /\ Error
    /\ UNCHANGED <<disk, enabled, process, data, network, images, record>>

\* Fault: a daemon-reload that fails is tried again, without a limit.
DaemonReload_retried == Reload("reload", Goto("start"), Goto("unit")) /\ UNCHANGED past

DaemonReload == Reload("reload", Goto("start"), Fail) /\ UNCHANGED past

\* The deferred function: an error is joined to the result, and it goes on.
Joined == excused' = TRUE /\ UNCHANGED <<interrupted, relict>>

RestoreFile(f, from, next) ==
    /\ pc = from
    /\ \/ /\ file' = [file EXCEPT ![f] = before.file[f]]
          /\ mode' = IF f = "config" THEN before.mode ELSE mode
          /\ UNCHANGED past
       \/ UNCHANGED <<file, mode>> /\ Joined
    /\ Goto(next)
    /\ UNCHANGED <<token, agent, record>>

\* Fault: the configuration has no snapshot.
RestoreConfig_missing ==
    /\ pc = "back config"
    /\ Goto("back binary")
    /\ UNCHANGED <<disk, agent, record, past>>

RestoreUnit == RestoreFile("unit", "back unit", "back config")
RestoreConfig == RestoreFile("config", "back config", "back binary")
RestoreBinary == RestoreFile("binary", "back binary", "back reload")

RestoreUnits ==
    Reload("back reload", Goto("back start") /\ UNCHANGED past, Goto("back start") /\ Joined)

RestoreAgent ==
    /\ pc = "back start"
    /\ EnableAndStart(Return /\ UNCHANGED past, Return /\ Joined)
    /\ UNCHANGED <<disk, record>>

-----------------------------------------------------------------------------
(* Around the operations.                                                  *)

\* Restart=always: a K3s that ends is started from what is there by now.
SystemdRestart ==
    /\ process # Off /\ file["binary"] # Absent /\ file["config"] # Absent /\ loaded # Absent
    /\ process' = [Starting EXCEPT !["unit"] = loaded]
    /\ UNCHANGED <<disk, loaded, enabled, data, network, images, record, operation, past>>

Crash ==
    /\ pc # "idle"
    /\ Return
    /\ interrupted' = TRUE /\ excused' = TRUE
    /\ UNCHANGED <<disk, agent, record, relict>>

\* A reboot ends zonctl as well; an enabled unit is started again.
Reboot ==
    /\ Return
    /\ interrupted' = (interrupted \/ pc # "idle") /\ excused' = (excused \/ pc # "idle")
    /\ loaded' = file["unit"]
    /\ process' = IF enabled /\ \A f \in Run : file[f] # Absent THEN Starting ELSE Off
    /\ data' = (data \/ process' # Off) /\ network' = (network \/ process' # Off)
    /\ UNCHANGED <<disk, enabled, images, record, relict>>

\* A repair of a host without a receipt fails, and takes the mark of the
\* interrupted operation away all the same (Lifecycle).
Repair ==
    /\ pc = "idle"
    /\ interrupted' = FALSE
    /\ IF receipt # Absent /\ loaded # Absent /\ process = Off
       THEN \/ file["binary"] # Absent /\ file["config"] # Absent
               /\ process' = [Starting EXCEPT !["unit"] = loaded] /\ data' = TRUE /\ network' = TRUE
            \/ UNCHANGED <<process, data, network>>
       ELSE UNCHANGED <<process, data, network>>
    /\ UNCHANGED <<disk, loaded, enabled, images, record, operation, excused, relict>>

\* removeK3s: a K3s whose unit is not in systemd's list is not stopped; the
\* token of a server goes with the files, that of an agent stays.
RemoveK3s ==
    /\ pc = "idle"
    /\ file' = [f \in File |-> Absent] /\ mode' = "none" /\ token' = token \ {"server"}
    /\ loaded' = Absent /\ network' = FALSE
    /\ process' = IF loaded = Absent THEN process ELSE Off
    /\ receipt' = Absent /\ role' = "none"
    /\ interrupted' = FALSE /\ excused' = (process' # Off)
    /\ UNCHANGED <<enabled, operation>>

Uninstall ==
    /\ RemoveK3s
    /\ relict' = {"data"} \cup (IF "agent" \in token THEN {"token"} ELSE {})
    /\ UNCHANGED <<data, images>>

FactoryReset ==
    /\ RemoveK3s
    /\ data' = FALSE /\ images' = {}
    /\ relict' = IF "agent" \in token THEN {"token"} ELSE {}

-----------------------------------------------------------------------------
Join ==
    \/ WipeData \/ WriteJoinToken \/ EnsureKubectlSymlink
    \/ UndoToken \/ UndoStop
    \/ UndoFile("config", "undo config", "undo unit")
    \/ UndoFile("unit", "undo unit", "undo binary")
    \/ UndoFile("binary", "undo binary", "undo symlink")
    \/ UndoFile("symlink", "undo symlink", "undo reload")
    \/ UndoReload \/ UndoNetwork \/ UndoData

Upgrade ==
    \/ StopAgent \/ DaemonReload
    \/ RestoreUnit \/ RestoreConfig \/ RestoreBinary \/ RestoreUnits \/ RestoreAgent

Step ==
    \/ Join \/ Upgrade
    \/ WriteConfig \/ WriteUnit \/ InstallBinary \/ Start \/ ConfigureGpu
    \/ WaitReady \/ PreloadAll \/ SaveReceipt

Next ==
    \/ BeginJoin \/ BeginUpgrade \/ Step
    \/ SystemdRestart \/ Crash \/ Reboot \/ Repair \/ Uninstall \/ FactoryReset

Spec == Init /\ [][Next]_vars

\* Every step of an operation has a timeout.
FairSpec == Spec /\ WF_vars(Step)

-----------------------------------------------------------------------------
(* Properties.                                                             *)

\* A join that fails leaves the host as it found it (the rollback of
\* JoinWorker and JoinServer): no files, no unit in systemd's list, no K3s, no
\* join secret, no node state, so that the next join is not refused.  A death
\* and the dropped errors of the rollback are excused.
FailedJoinLeavesNothing ==
    pc = "idle" /\ receipt = Absent /\ ~excused =>
        /\ \A f \in File : file[f] = Absent
        /\ loaded = Absent /\ process = Off /\ ~network
        /\ token # {} => token = {"agent"} /\ "token" \in relict
        /\ data => "data" \in relict

\* The receipt of a member tells what is on its host: after any number of
\* upgrades and failed upgrades the files, the unit systemd knows and the
\* images are those of the release it names, and K3s runs ("Do not strand a
\* worker with its K3s agent stopped", UpgradeWorker).  An extra server is
\* never turned into an agent by cluster-worker-upgrade; what keeps it from
\* that is the missing token of an agent, so a host on which an earlier life
\* as an agent left one is excused.
ReceiptMatchesHost ==
    pc = "idle" /\ receipt # Absent /\ ~excused =>
        /\ Starting = [f \in Run |-> receipt] /\ loaded = receipt
        /\ receipt \in images
        /\ process # Off
        /\ token # {}
        /\ role = "server" /\ "agent" \notin token => mode = "server"

\* A receipt is written only when K3s runs from the files of its release, with
\* its images there: both operations may be retried and reversed in any order.
\* (A K3s that a failed rollback left running without its unit is not seen by
\* the next join, and systemctl start does nothing to it: this is excused.)
ReceiptIsServed ==
    [][receipt' \notin {receipt, Absent} /\ ~excused =>
          process' = [f \in Run |-> receipt'] /\ receipt' \in images']_vars

\* An agent stopped by an upgrade comes back, however the upgrade ends.
AgentComesBack == pc = "binary" /\ op = "upgrade" ~> (process # Off \/ excused)

\* "This makes an interrupted or failed worker upgrade converge back to the
\* exact prior agent rather than merely restarting an unknown mixture of
\* versions" (UpgradeWorker).  Expected to be violated.
RunsItsFiles == pc = "idle" /\ receipt # Absent /\ ~excused => process = Starting

=============================================================================
