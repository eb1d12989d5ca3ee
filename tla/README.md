# zonctl in TLA+

`zonctl` installs, joins, upgrades, backs up, restores and removes an appliance:
a K3s cluster of one to several hosts, its charts, its host DNS, packages and
host agent. It is a command line program without a daemon of its own. What is
hard about it is not throughput but sequence: long lists of changes to a host,
each of which may fail or be cut off by a death, several invocations side by
side, and a K3s with containers that keeps running around them.

This directory holds models of those sequences, the TLC runs that check them on
small instances, and proofs checked by TLAPS.

    tlc -workers 4 -config dispatched_backup.cfg MCDispatchedBackup.tla
    tlapm OperationProofs.tla

## 1. The system

### Components

| component | code | state it keeps | operations | correct when |
|---|---|---|---|---|
| command dispatch | `cmd/zonctl/dispatch.go`, `main.go` | none of its own | lock, read journal, gate, begin, body, outcome, release | operations never overlap; what died is seen and not bypassed |
| lock and journal | `internal/lifecycle` | `installer.lock` (an inode), `transaction.json` (one record) | AcquireLock, Release, Current, Begin, Complete, Fail | one holder; the record on disk is that of the running operation |
| K3s-directory backup | `internal/backup` | `backups/<id>/` and its manifest | Create, Verify, Restore | a manifest is one moment; a restore gives it back whole; each failure behind the stop asks for K3s again; the last good data is never given up for a bad backup |
| PostgreSQL recovery set | `internal/recoveryset`, `cmd/zonctl/recovery_set_commands.go` | a directory of files and their manifest, replica counts | backup, restore, the restoring bootstrap | a manifest names whole files and blobs of one moment; nothing is given up for a bad set; what was scaled down comes back |
| upgrade | `internal/upgrade` | `.previous` snapshots | Upgrade, its rollback | the old data is in a verified backup before it changes; a failure puts back what it promises; the new receipt means the new release |
| repair | `internal/repair` | none | start K3s, clean the network, reapply | makes an interrupted host usable without destroying evidence |
| K3s and its ownership | `internal/k3s` | unit, binary, config, token, registries | Detect, DecideOwnership, EnableAndStart, Stop, CleanupNodeNetwork | never adopts, replaces or removes a K3s that is not the appliance's |
| install | `internal/install/install.go` | a stack of rollbacks | the fresh install | a failure undoes what was done, unless asked to preserve it; PostgreSQL data of an earlier install survives; done means complete |
| join, worker upgrade | `internal/install/join.go` | receipt of a further member | JoinWorker, JoinServer, UpgradeWorker | a failed join leaves nothing; the receipt tells what runs; an upgrade never strands the agent |
| enrollment and inventory | `internal/cluster`, `cmd/zonctl/cluster_commands.go` | signer key, enrollments, node inventory | create, register, deploy, remove, upgrade gate | nothing outlives its node; no control plane ahead of the K3s its workers run |
| three-server bootstrap | `internal/install/three_server*.go`, `internal/clustertopology` | stage records, inventory | stage, enrollment-create, finalize | interrupted runs are rerunnable; finalize only with all members |
| teardown | `internal/teardown` | - | uninstall, factory-reset | order of removal; nothing foreign removed; rerunnable |
| receipt | `internal/state` | `installed-state.json` | Load, Save (atomic) | written last; what all later commands trust |
| host agent | `internal/hostagent` | sockets, day-2 state | install, update, remove, mDNS on and off | a failed update restores the old agent; mDNS only where it was asked for |
| host packages, host DNS | `internal/hostpackages`, `internal/hostdns` | dpkg, units, resolved, port 53 | install, prepare, restore | the appliance has port 53; a failure leaves the host with a resolver |
| host zonctl | `internal/zonctlhost` | the installed binary | install with self-rollback | an interrupted copy is never executable |
| images | `internal/images` | containerd's store | preload | each needed image is there before the charts |
| metadata bundle | `internal/metadatabundle` | the metadata tree | stage by rename | the tree is one bundle |
| Helm | `internal/helm` | releases in the cluster | apply, wait, roll back | a failed release is rolled back |
| models | `internal/modelpack` | the models tree | import | verified before it is used |
| the rest | preflight, host facts, host directories, verification, bundle assembly, product configuration, evidence, diagnostics, support, redaction | reports and generated files | read-only or build-time | see "Not modelled" |

### How they interact

Every mutating command goes through `dispatch`: it prepares the state
directory, takes the lock, reads the journal, refuses or begins, runs one body,
records the outcome, releases. The bodies call each other's packages directly:
an upgrade calls `backup.Create` before its first change of K3s and
`backup.Restore` as its rollback; install, upgrade and repair share the K3s,
Helm, host agent and DNS packages; finalize runs an install over the K3s that
the stages started; factory-reset removes the state directory with the lock, the
journal, the backups and the receipt in it. Hosts interact through the
Kubernetes API (Node objects, the routing registry of the inference plane) and
through files an operator carries from one to the other (enrollments). All
other coupling is through files, systemd and the Kubernetes API of one host. The
receipt is written last, and every later command trusts it.

### What is hard

* **Several invocations.** The lock is a `flock` on an inode, while
  factory-reset unlinks the path.
* **Deaths.** A kill between any two steps; a host that reboots and whose
  enabled unit then starts K3s on whatever the directory holds.
* **Partial failure.** An upgrade has about twenty steps that may fail, and its
  rollback has steps that may fail too; the same for install and join.
* **K3s around us.** It writes its datastore, its containers survive a stop
  (`KillMode=process`), systemd restarts it, `systemctl start` does nothing to
  one that runs, its pods follow a scale command late.
* **Old copies.** Backups that rot, snapshots of a half-done attempt, receipts
  and Node objects of servers that were reset.
* **Several hosts.** Each runs its own commands with its own lock and journal;
  members come, die and come back under the same name between any two steps of
  a command on the control plane, and the inference plane publishes meanwhile.
* **The host's own services.** A reboot, the socket of Avahi, the
  post-installation of a package or a cancelled transaction of systemd start
  what a step has just stopped.

The hazards are listed one by one, with their lines and the properties aimed at
them, in `PROJECT.json`.

## 2. The modules

| module | what it is |
|---|---|
| `Lifecycle` | the dispatch skeleton with lock and journal, any number of processes |
| `SerialLog` | the abstract specification: one operation at a time, one visible record |
| `LifecycleSerial` | the refinement mapping from `Lifecycle` to `SerialLog` |
| `Backup` | create, verify, restore of the K3s directory with its environment |
| `DispatchedBackup` | `Lifecycle` and `Backup` composed: invocations of backup, restore, repair and models-import on one node, the body inside the skeleton |
| `RecoverySet` | backup and restore of the database and the blob storage, and the bootstrap from a set |
| `Upgrade` | the upgrade of one host and its rollback |
| `Install` | the fresh install over whatever K3s it finds, its rollbacks; uninstall, factory-reset and repair around it |
| `Worker` | one host as a further member: joins, worker upgrades, teardown, joins again |
| `Fleet` | the control plane's view of its members: enrollments, inventory, inference releases, routing, the upgrade gate |
| `EmbeddedEtcd` | staging and finalizing one or several servers, each dying, rebooting or being reset on its own |
| `HostServices` | packages and their units, resolved and port 53, the host agent and mDNS |
| `OperationProofs` | theorems about `Lifecycle`, `Backup` and `DispatchedBackup` |
| `RecoverySetProofs`, `UpgradeProofs`, `InstallProofs`, `WorkerProofs`, `FleetProofs`, `EmbeddedEtcdProofs`, `HostServicesProofs` | theorems about the module they are named after |
| `MCLifecycle`, `MCBackup`, `MCDispatchedBackup`, `MCRecoverySet`, `MCFleet` | instances for TLC (the others need none: their constants are plain) |

With one exception the modules meet at their borders rather than in one large
composition: each takes the operations of the others as single steps and says
so, and the journal of `Lifecycle` appears in each of them as `interrupted`, the
mark of an operation that died. `Upgrade` takes `Backup`'s operations as steps that
succeed or fail, `Install` and `Upgrade` take those of `HostServices`, `Fleet` takes
the join of `Worker`, `Worker` and `RecoverySet` take the teardown of `Install`. The
exception is `DispatchedBackup`, which puts the body of `Backup` into the skeleton of
`Lifecycle` and shows that what `Backup` takes for granted, one operation at a
time and none but repair over one that died, is what the lock, the gate and the
journal provide. Three refinements are proved: `Lifecycle` implements `SerialLog`, and
`DispatchedBackup` implements both `Lifecycle` and `Backup`.

An operator whose comment starts with "Fault:" is a plausible bug of the
definition it is named after (`FlockFile_shared` of `FlockFile`). It is part of
no specification; it is there to show which property would notice.

### Lifecycle

One process is one invocation. `pc` follows `dispatch.go`: `prepare`
(`MkdirAll`), `open` and `flock` (the two halves of `AcquireLock`), `current`
(read of the journal and gate), `begin` (`journal.Begin`), `body`, `finish`
(`Complete`/`Fail`), `release`. A process has a descriptor `fd` on an inode;
`lockFile` is the inode the path names. `Exit` is what the end of a process
does, normally or not: the kernel closes the descriptor and drops the lock. The
journal is one record; `Begin` overwrites it; failures of the outcome's write
are logged and forgotten, as in the code.

A body is a first change (`TouchHost`), an end (`EndBody`) and, for
factory-reset, `os.RemoveAll(stateDir)` in steps of one entry. `HonoursDryRun` lists
the bodies that look at `--dry-run` before they change anything; the
others only look at it before they persist evidence. `unrecovered` and
`touched` are history variables.

Left out: the input checks that end an invocation before it does anything;
what the bodies do besides (that is for the other modules). Identities are
reused when nothing refers to them any more, which keeps the state space finite
without bounding the length of a behaviour.

### SerialLog and LifecycleSerial

`SerialLog` knows neither files nor inodes: an operation begins atomically with
its record if no other is active and the record before it permits it, and ends
with an outcome over its own record, or dies. `LifecycleSerial` maps `active`
to the process between `Begin` and the write of its outcome, and `log` to the
journal. It holds without factory-reset and without dry runs; why not with
them is said under "What the code does not keep".

### Backup

The content of a file is the version of the write that produced it. The
datastore has a `Layout`: which of its files exist at each version, so that a
restore of an older version must remove files. Volumes, below the same data
directory, are written by containers; the second tree (`Cache`) is the metadata
bundle or the models. `Stop`, `Save`, `SaveManifest`, `StartAgain` are create;
`VerifyTarget`, `Stop`, `Clear`, `Put`, `StartAgain` are restore; every step may
fail and takes the error return of the code (`Abort`: start K3s, drop its
error) or, before and in the stop, none. `BeginRepair` and `RepairK3s` are repair,
which starts K3s if it is not active and may fail before. Around them:
`DatastoreWrite` while K3s is active, `VolumeWrite` while containers run,
`StageCache` by another command, `Decay` of a stored file, `SystemdRestart`,
`BackupDies` (the process goes, at any point from its record to its outcome),
`Reboot`. `interrupted` admits repair only, which replaces it (`BackupNext`).

`systemctl` may fail in two ways that matter. A stop that returns an error, its
context of three minutes having killed `systemctl` and nothing else, may go on:
K3s is then `stopping`, and `StopEnds` or the next start says what becomes of it.
And `EnableAndStart` is daemon-reload, enable and start: an error of the first two,
or of a call that never reached systemd, leaves the unit as it was, and a unit
that was stopped cleanly is nothing systemd restarts; a start that failed is
(`StartK3s`). `leftDown` is a history variable: K3s was left stopped by a process
that died, by such a start or by such a stop, and nobody has started it since.

Simplifications: a digest is the content it was computed from; a backup decays
only while nothing uses it (the code does not compare again what it copies
back); a K3s that runs on a directory that is not whole writes, but nothing
that makes it whole. A death in the middle of a restore leaves a partial
directory; the journal then admits repair, uninstall and factory-reset only,
and repair starts K3s on it. The model contains that behaviour. No document
promises anything about it, so no property is stated.

### DispatchedBackup

The variables of `Lifecycle` and `Backup` side by side, several processes, four
commands. A process goes through `Lifecycle`'s steps (`Around`, `BeginBody`); once in
its body it begins its work (`BeginWork`, which sets `touched`), does it step by step
(`Work`) and returns (`EndWork`); a death (`Die`) is one of both parts.
`Outside` is K3s, the containers, the disk and a reboot. Nothing here looks at
`interrupted`: who may begin is decided by the gate of `Lifecycle`, on the journal
as the process read it, and `interrupted` is merely defined as `Abandoned`, the journal
holding a record in progress that no living process will end.

Simplifications: factory-reset, uninstall and dry runs are left out
(`OnlyNodeCommands`), they are `Lifecycle`'s; a reboot comes up when every process
has gone by its own death.

### Upgrade

What an upgrade changes is a set of items (`Item`), each `old`, `new` or
`mixed`. `pc` follows `Upgrade` in `upgrade.go` from the metadata tree through
the backup, the images, the snapshots of the K3s files, the stop, the files,
the start, packages, cluster, host agent, DNS, charts, `zonctl`, inventory,
receipt. Each step succeeds, or fails and leaves what a failure of it leaves;
a failure goes through `failUpgrade`: nothing under `--preserve-failed-state`,
else `Revert` of the armed items and `backup.Restore` in two steps, errors
being collected and never ending it. `Crash`, `SystemdRestart` and `Repair` are
the environment; `before` remembers the host at the begin of an attempt, and
`leftDown` that an attempt ended with K3s stopped for one of the reasons it may
(`Remember`: a death, the flag, errors of the rollback, a pre-upgrade backup whose
own stop or start failed, which is returned without a rollback) and that it still
is. `StopFails`, `StartFails` and `StopEnds` are the failures of `systemctl` described
under Backup; a stop that ends late sets `leftDown` too.

Simplifications: backup and restore succeed or fail as wholes (`Backup` looks
inside); the many cluster changes between two host changes are one step; a
registry is always configured; images (best effort) and values files are left
out, as is the refresh of the release already installed; the rollback's
independent duties run in any order. `Render` models the pod CIDR of the
configuration, because a finding is about it.

### Install

What an install adds is a set of pieces (`present`): releases, secrets and
images, which live in the K3s data directory, and host pieces (packages, DNS,
agent, `zonctl`). K3s itself is its three `files`, each with an owner, the
`process` and the binary it was started from, and the `cluster` in the data
directory. `pc` follows `Install` in `install.go`: `Gate` (everything up to
`DecideOwnership`, with the stale receipt and the database directory), host DNS
and packages, then fresh (`Wipe`, `WriteFile`, `StartK3s`) or adopted K3s
(written over and started, or only restarted), then a step per piece (`Duty`),
the releases, the two parallel sets, the receipt.

The rollbacks are a `stack`, run by `Undo` from its end, one at a time. Errors
leave by three doors, and the tables `Barrier` and `Duty` say which step has
which: `return` (a plain error, no rollback), `eager` (`failInstall(..,
runRollbacks())`, which runs them whatever the flag says) and `cleanup`
(`cleanupOnFailure`, which looks at the flag). `Duty` also says what a failed
step leaves.

A rollout set is a set of goroutines (`running`), each a sequence of releases
still to apply and the rollbacks it has collected. `ApplyNext` is one of them
applying its next release; its rollbacks reach the stack when it ends, in the
order in which goroutines end. `JoinSet` is `Wait` and the look at the errors.

Around it: `PostgresWrites`, which fills the database directory while ace-infra
runs; `Crash`, which loses the stack; `Repair`; and uninstall and factory-reset
in the order of `teardown.go`, any step of which may fail (`TeardownFails`) and
be cut off. What died blocks a further install until a recovery
(`interrupted`, which stands for the gate of `Lifecycle`).

Simplifications: bootstrap mode fresh, a PostgreSQL profile, a pull registry;
checks, waits and preparations belong to the step that follows when their errors
leave by the same door; what no rollback and no property is about (metadata,
log directories, the signer key, models, workspaces) is left out; systemd's
list of unit files is the unit file; the rollbacks of one release
(its uninstall and the deletion of its secrets) are one.

### RecoverySet

The content of the database or of a blob is the version of the write that
produced it. Three Deployments have a replica count and, later, pods
(`PodsFollow`): blob storage writes while its pods run, also those that still
terminate. A backup is `WriteConfiguration`, `Export` and its verification, then
`archiveQuiescedBlobStorage` (`ReadReplicas`, `ScaleDown`, `AwaitPods`, one
`ArchiveObject` per object, and the deferred `ScaleUp`, which runs on every
path), then `CopyReceipt`, `WriteScope`, `SaveManifest`, `FinalVerify`. A restore
verifies, quiesces the three Deployments one by one, clears and extracts the
blobs, drops and loads the schema, and resumes all, failed or not. The restoring
bootstrap checks its target, extracts with `O_EXCL` and loads into an empty
database. Around them: `DatabaseWrite`, `BlobWrite`, `Decay` and `Discard` of the
set, `Crash`, `Repair`, `FactoryReset`, `FreshInstall`.

Simplifications: a digest is the content it was computed from; a set decays only
while nothing uses it; there is one set, in one directory.

### Worker

One host, whose files hold the release that wrote them; what systemd has read
(`loaded`), what the running K3s was started from (`process`) and what is on
disk (`file`) are three things, because `systemctl start` does nothing to a
unit that runs. `JoinWorker` and `JoinServer` are one path with a mode; an error
after the first change takes the labels `undo ..` in the order of the code's
rollback, errors dropped. `UpgradeWorker` snapshots, stops, writes, reloads,
starts; an error behind the stop takes the labels `back ..`, the deferred
function, errors joined. Around them: `SystemdRestart`, `Crash`, `Reboot`,
`Repair`, `Uninstall`, `FactoryReset`. `excused` remembers a death or an error of a
rollback or of a stop: what the code cannot promise after one is excused.
`relict` remembers what an uninstall leaves on purpose or by omission (the data
directory, the token of an agent).

### Fleet

The control plane's receipt (`nodes`, `topology`, `pinned`, `version`), the
signer's key file, and what the cluster knows: Node objects with a uid, the
release of inference a node was given (`deployed`), the routing registry. The
commands are `cluster-enrollment-create` in its four writes,
`cluster-node-register`, `cluster-inference-deploy`, `cluster-node-remove` step by
step, and the upgrade with `ValidateWorkerUpgradeReadiness` as `Gate` and one
`ReadVersion` per worker. A release pins a K3s (`K3sOf`), possibly the same as
another release does; a node reports the K3s its kubelet is of, and that is what
the gate compares, not the release of the appliance. Only one runs at a time; between any two of its
steps `Environment` acts: hosts join, upgrade, are reset and come back under
their name, the manager publishes (`Publish`), the operator uncordons, an
enrollment expires, the command dies. A uid is used once. `job.since` names the
nodes that changed behind the gate, while it reads their versions.

Simplifications: signatures are sound; the join and the worker upgrade are one
step each; labels, Traefik's addresses and the CA are arguments and errors.

### EmbeddedEtcd

Each server has its stage receipt (`cluster-bootstrap-state.json`), its files,
its K3s and the cluster whose data it holds; a cluster gets its identity when a
bootstrap server's first receipt is saved (`SavePrepared`, `created`).
`StageFirst` and `StageAgain` are
`StageEmbeddedEtcd` with its checks, the clearing of a leftover of this product,
and `prepared` recorded before the files; a stage has no rollback.
`CreateEnrollment` hands a peer what it may join. `BeginFinalize` is the checks of
`FinalizeEmbeddedEtcd`; `BeginInstall` removes an uncommitted database and takes
the ownership decision, and `Deploy`, `Commit`, `Seal`, `Rollback` are the install
over the adopted K3s. Every server may die, reboot (`Reboot`), be reset in three steps, or
see a repair that is refused.

Simplifications: all releases are builds of one version with one K3s;
enrollments do not expire; etcd keeps its quorum and is not looked inside.

### HostServices

Packages, their systemd units (active, enabled, masked), resolved's drop-in,
its stub, `/etc/resolv.conf`, the floor of unprivileged ports, who listens on
port 53. `Path` is the order of the parts of install, upgrade and uninstall;
`Prepare` (`LowerPortFloor`, `ReleaseStock`, `DisableStub`, `LinkUplink`,
`AwaitPort`, `WriteHosts`), the packages (`InstallPackages`,
`QuiesceConflicting`, `SettleMdns`), the agent and mDNS, the DNS release,
the teardown with `RestoreHostDNS`; and the rollbacks each of them registers. The
environment: the pod of CoreDNS, `ActivateBySocket`, `Reboot`, `Crash`.
`intact` and `undone` are histories: of a success nothing has disturbed since,
and of a `Prepare` whose own failure took LAN DNS away from under an appliance
that had it.

Simplifications: hostapd goes with dnsmasq; resolved is always active, its stub
on unless the drop-in of this program says no. A host whose operator switched
the stub off is left out (what `Restore` does there is said under "What the code
does not keep"). The stock dnsmasq wants all of port 53, so it does not start
while the stub or anybody else listens there.

## 3. The runs

Passing runs:

| run | shows | bounds |
|---|---|---|
| `lifecycle_reset` | `OverlapIsOffTheLinkedFile`: with factory-reset and dry runs, two operations overlap only when one holds an unlinked file; that a second invocation never waits for the first (`EveryInvocationEnds`) | 2 processes, 2 inodes, 2 transactions; cluster-finalize, repair, factory-reset; `FairSpec` |
| `backup_safety` | `ManifestIsAPointInTime`, `RestoredIsTheBackup`, `NotLeftStopped`, `LossOnlyUnderAVerifiedBackup` | 1 backup, 2 datastore files, 1 volume, 1 cache file, 3 writes |
| `dispatched_backup` | without factory-reset: `MutualExclusion`, `InterruptedIsNotBypassed`; that the skeleton, its bodies at work, implements `SerialLog` (`ImplementsSerialLog`); that `DispatchedBackup` implements `Backup` (`ImplementsBackup`) | 2 processes, 2 inodes, 2 transactions, backup, restore, repair, models-import; 1 backup, 1 datastore file, no second tree, 2 writes |
| `recovery_set` | `PublishedIsAPointInTime`, `RestoredIsTheSet`, `LossOnlyUnderAVerifiedSet`; whatever a backup or restore scaled to zero is asked for again (`OutageEnds`) | 2 objects, 2 writes; `FairSpec` |
| `upgrade_safety` | `OldDataIsBackedUp`, `CleanRollback`, `NewReceipt`, `NotLeftStopped` | 2 attempts, with and without preserve |
| `install_safety` | `CleanFailure`, `OrderlyUndo`, `InstalledIsComplete`, `DatabaseKept`, `ForeignIsAsked` | 2 installs, with and without preserve and force; the rollbacks of K3s and of the broker may fail; profile with registry and DNS; any number of teardowns and repairs |
| `worker` | `FailedJoinLeavesNothing`, `ReceiptMatchesHost`, `ReceiptIsServed`; an agent stopped by an upgrade comes back (`AgentComesBack`) | 2 releases, the second with a GPU runtime; any number of joins, upgrades, teardowns, deaths and reboots; `FairSpec` |
| `fleet` | `IssuedIsRecorded`, `NothingOutlivesItsNode`, `PublicationsAreKept`, `AdvanceIsGated` | 2 names, 2 Node objects ever, 1 valid enrollment at a time, 3 releases, the first two with the same K3s |
| `embedded_etcd` | `StagedIsMember`, `InstalledIsStaged`, `MembersKeepTheirData`, `CommittedDatabaseIsKept` | bootstrap server and one peer, 2 cluster identities, 2 releases; the peer has an older K3s of this product |
| `host_services` | `DNSKeepsItsPort`, `MdnsOffStaysOff`, `UninstallGivesDNSBack`, `RollbackRestoresMdns`; LAN DNS comes back by itself (`DNSComesBack`) | 3 operations, 1 reboot; `FairSpec` |

Each module's `TypeOK` (`BackupTypeOK` in `Backup`), `RunningIsRecorded` and
`OutcomeStays` of `Lifecycle`, `WorkIsRecorded` and `NodeIsFree` of `DispatchedBackup`
are in no run: they are proved for all values of the constants (section 4), and
were model-checked before.

Why the bounds are enough:

* *Lifecycle.* The gate tells apart recovery, resumable and other commands;
  `lifecycle_reset` has the first two, and a repair or factory-reset that died
  keeps out a cluster-finalize like any other command; ordinary commands are in
  `dispatched_backup`. Processes end and start again without bound, so two of them
  give any sequence of holders, dead predecessors and contenders with at most two
  alive at a time; the proofs cover any number. Two inodes give a linked file and
  the unlinked one the other process still holds; who opens the file holds none.
  The properties of `lifecycle_reset` do not look at transaction identities; two
  let `Begin` go on unless a dry run and the journal hold both.
* *Backup.* One file of the datastore exists only at odd versions: a restore
  from 2 to 1 must create it, one from 1 to 2 must remove it. Three
  writes give a state before the backup, one between backup and restore and one
  more during them. Any number of operations, deaths and reboots.
* *DispatchedBackup.* Who may begin, and over what, depends on the processes and
  on the journal, hardly on the files: one datastore file and one write after the
  backup give a directory that is whole, partial or older than the backup.
  Of two processes one can work, die or be in any step of dispatch while the other
  is in any other. One process at a time has a transaction, and the journal holds
  one: two identities. Processes, inodes and transactions are only compared for
  equality, and the properties, none of them about liveness, name none of them: symmetry is
  sound.
* *RecoverySet.* Two objects, so that the archive can be torn between them and
  the extraction interrupted between them; two writes, one before and one after
  the moment of the set. All replica counts are 1: only zero and not zero differ.
* *Upgrade.* Two attempts cover a death in the first, a repair and a second that
  starts from what the first left; items know no third content beside
  old, new and "anything else".
* *Install.* Two installs: one that dies, fails or is torn down, and one that
  finds what it left; data that PostgreSQL wrote before the second counts as
  older. Registry and DNS give a goroutine of two releases beside one
  of one release, and the first set two goroutines, so that a failure can hit
  before, between and after. The rollbacks that may fail (`Stubborn`) are
  K3s's, which has many parts, and one of a release. Nine initial states: an
  empty host, and somebody's K3s of the same or another version, running or
  not, with and without workloads.
* *Worker.* Two releases give an upgrade, a downgrade and a repetition; with one
  of them on a GPU host the extra restart is on some paths and not on others.
  Nothing else is bounded.
* *Fleet.* Two names, so that what is done to one must leave the other alone;
  two Node objects, so that a name can be taken by a second one. Three releases of
which two share their K3s: an upgrade between these two passes workers of the
older, the third asks for another K3s. The two names
  are interchangeable and the properties are an invariant or speak of single steps, which
  makes symmetry sound.
* *EmbeddedEtcd.* The peers interact only with the bootstrap server, so that one
  of them shows what any does; the quantifiers over all servers are what the
  proofs are for. A second identity gives a cluster that is staged anew
  over the memories of the first one.
* *HostServices.* Three operations: an install, an upgrade and an uninstall, or
  three attempts at one; one reboot anywhere in between.

`CHECK_DEADLOCK FALSE` stands in `recovery_set`, where the writes, fresh installs
and sets may be used up, and in the runs of `HostServices`, where the operations and
reboots are: the system may stop there.

Fairness. `FairSpec` of `Lifecycle` has weak fairness of `Step(p)` and of
`EndBody(p)` for each process: the operating system does not starve a process, a
body returns. Nothing obliges an operator to start one, and `Crash` is not fair.
No fairness of the lock is needed: `LOCK_NB` makes a contender end at once, and
the liveness run would fail without it (`FlockFile_waits`). `RecoverySet` and
`Worker` have weak fairness of `Step`, the next step of the running operation:
every command they wait for has a timeout or ends by itself (`kubectl rollout
status --timeout`, `WaitReady`, the contexts of `systemctl`), and a timeout is an
error, which is one of the outcomes of the step. `HostServices` has that of
`Operation` for the same reason and of `StartCoreDNS`, since K3s retries a pod
that cannot bind its port. `Worker` needs none of `SystemdRestart`.

Violated on purpose: each of these runs checks one sentence of a comment, flag
or message of the repository and TLC shows a behaviour of the code that
contradicts it. The properties say what the text says, and `PROJECT.json` quotes
it.

| run | text | what the code does |
|---|---|---|
| `install_preserved` | "do not roll back a failed install" | failures up to ace-infra's namespace roll back in order to evaluate an argument |
| `host_orphan` | a leftover CoreDNS on port 53 is reaped | the branch that reaps is entered only when there is none; the next install is blocked by the orphan |

### What the code does not keep

The following properties are stated in the modules and are false, too. No run
checks them; each can be had with the configuration named, with `SPECIFICATION
Spec`, without `SYMMETRY` and with the one property in place of the others.

| property | configuration | text | counterexample |
|---|---|---|---|
| `Lifecycle!MutualExclusion` | `lifecycle_reset` | one operation at a time | factory-reset unlinks the lock file it holds and goes on; a new invocation locks a new file |
| `Lifecycle!BlockedUntilRecovered` | `lifecycle_reset`, `Command <- WorkCommands`, `DryRuns <- LiveOnly` | repair "before starting a new operation" | a repair that fails replaces the in-progress record by its own failed one, and an install is let through |
| `Backup!NoSplitBrain` | `backup_safety` | clean the node's network and containers before the next start | restore starts K3s without it |
| `Upgrade!PodNetworkStays` | `upgrade_safety` | an upgrade retains the network parameters | the rewritten configuration drops the pod CIDR |
| `Install!FailureLeavesNoMore` | `install_safety` | "leaves no more installed than there was before it started" | errors such as those of the log directories (`install.go:1066`) are returned without the rollbacks already on the stack, and a release that fails in its prerequisites calls a nil function |
| `Install!InstalledRunsPinned` | `install_safety` | "K3s is upgraded to the target version if required" | the start of an active K3s does nothing, and the old binary goes on |
| `RecoverySet!BootstrappedIsTheSet` | `recovery_set` | restore to a "clean target" (`docs/backup-restore.md:70,81`, `teardown.go:178-182`) | factory-reset does not remove `/data/zon/blob-storage`, and the restoring bootstrap clears nothing: objects of before stay beside those of the set |
| `Worker!RunsItsFiles` | `worker` | "converge back to the exact prior agent" (`join.go:139-141`) | the rollback's `EnableAndStart` does nothing to an agent that the upgrade has already started from the new files |
| `Fleet!ControlPlaneWaitsForWorkers` | `fleet` | an upgrade "must not advance until every enrolled worker .. reports the bundle-pinned K3s version" (`nodes.go:137-141`) | the K3s version is compared, but the gate is evaluated under topology server-workers only (`upgrade_commands.go:57`); an enrolled prime makes it multi-server |
| `EmbeddedEtcd!InterruptedFinalizeIsRerunnable` | `embedded_etcd`, `Leftover = {}` | "Interrupted stage/finalize runs are rerunnable" (`docs/three-server-inventory.md:62`, `install.go:657-660`) | a finalize that dies once ace-infra's pods run is refused by every rerun, because ace-infra is not among `platformNamespaces` (`inspect.go:26`); and the rerun has by then removed the database directory under the running PostgreSQL |

More disagreements of text and code are visible in the models, without a
property of their own:

* `--dry-run` "without making changes": the bodies of install, repair, the
  K3s-directory backup, restore, upgrade, uninstall, factory-reset and
  models-import look at it only before they persist evidence (`HonoursDryRun`).
* "It always attempts to restart K3s before returning .. so a failed backup
  does not leave the appliance down" (`backup.go:23-25`): a `Stop` that fails is
  returned without a start (`backup.go:40-42`, in restore `backup.go:215-217`), and
  the stop may end after that; `EnableAndStart` returns before `start` when
  daemon-reload or enable fails (`service_linux.go:38-46`). An upgrade returns the
  error of its backup without its rollback (`upgrade.go:409-412`). In each case K3s
  stays stopped until somebody starts it (`leftDown` in `NotLeftStopped`).
* The gate of the upgrade lets a control plane pass whose workers are on an older
  release with the same K3s, as the comment of `ValidateWorkerUpgradeReadiness`
  says it does; `AdvanceIsGated` promises no more.
* "stop K3s for a consistent snapshot" (`backup.go:18`): containers survive the
  stop and write their volumes (`VolumeWrite` during `Save`), and write into the
  directory that restore says is "replaced, not merged".
* The "pre-upgrade backup" is taken after the metadata tree was replaced
  (`StageMetadata` before `TakeBackup`).
* An upgrade is reported as rolled back also when the restore of the rollback
  failed (`upgrade.go:424`); a missing control-plane node, found after
  everything has changed, is returned without the rollback (`FindControlPlane`).
* "never register a stop-on-rollback for a service we didn't start"
  (`install.go:814`): an adopted K3s of another version is stopped and its files
  are removed by the rollback (`UndoK3s`); a retry then takes the host for
  fresh and wipes the data directory (`Wipe`).
* A restore of a recovery set does not wait for the pods it has scaled down:
  `RestoredIsTheSet` holds only where none of them wrote meanwhile (`disturbed`).
  A failed quiesce returns with controlplane at zero, a death in the archive
  leaves blob storage at zero and the next backup refuses; both are `excused`
  in `OutageEnds`. The dump is older than the archive. A restoring bootstrap that
  fails leaves partial blobs, on which its retry fails.
* Uninstall and factory-reset remove `zon-server-token` and leave
  `zon-agent-token`; `cluster-worker-upgrade` looks at that token and not at the
  role, so it writes an agent's configuration over an extra server on a host
  that was a worker once. It compares no releases. A stop that fails returns
  before the deferred rollback can restart the agent.
* `cluster-node-remove` "can be rerun" (`cluster_commands.go:100-101`): one that
  dies between the deletion of the Node and the save of the receipt cannot.
  Routing is withdrawn before the drain, so a publication in between stays
  (`late`). The role an operator registers a node with is not compared with its
  enrollment; a removed prime's endpoint stays accepted; an enrollment's nonce
  is recorded nowhere; a partial key file blocks enrollment until somebody
  removes it.
* A stage that dies between the unit and the binary is refused by every
  rerun; so is a finalize that dies between `state.Save` and its own record.
  The text says factory-reset is refused on a staged host
  (`docs/three-server-inventory.md:82-83`), the code allows it
  (`three_server_lifecycle.go:22,39`), and the models have it. A restage renews the
  recorded release without preloading its images.
* `hostdns.Prepare` restores on its own failure also where an upgrade found LAN
  DNS already there, contrary to `upgrade.go:913-914` (`undone`); its early
  errors leave the sysctl drop-in; `Restore` always points `resolv.conf` at the
  stub, which nobody serves on a host whose operator had switched it off (such a
  host is not modelled, and `UninstallGivesDNSBack` says nothing of it); a death
  between the restart of resolved and the relinking is not made good by a rerun. Masks of dnsmasq and hostapd are never undone, an
  enabled Avahi that was not running cannot be enabled again because its
  rollback has masked it, and a failing dpkg registers no rollback
  (`before.noted` in `RollbackRestoresMdns`).

## 4. The proofs

Assumptions are those the modules state about their constants, and nothing else:
null values lie outside the sets they complete (`ConstantsAssumption`,
`NoTxnAssumption`, `NullAssumption`, `NoBackupAssumption`), commands are commands
of the program (`CommandAssumption`), the kinds of files are apart and there is
a datastore (`FileAssumption`), bounds are naturals or positive
(`VersionAssumption`, `BoundAssumption`, `BoundsAssumption`, `ReleaseAssumption`),
charts ask for at least one replica (`ReplicaAssumption`), flags are Booleans,
capabilities are optional releases and what may resist its rollback is something
a rollback removes (`OptionAssumption`, `CapabilityAssumption`,
`StubbornAssumption`), releases with a GPU are releases (`GpuAssumption`), each release pins a K3s
(`K3sAssumption`), the
bootstrap server is not its own peer and leftovers are on servers
(`BootstrapAssumption`, `LeftoverAssumption`). Sets are not assumed finite. Where
a theorem needs that the operator never runs factory-reset (`NoReset`), never
passes `--dry-run` (`NoDryRuns`) or runs none but the node's four commands
(`OnlyNodeCommands`, which implies both), its statement says so.

| module | theorem | property |
|---|---|---|
| each of the eight | `TypeCorrect` (and `BackupTypeCorrect`) | `TypeOK` (`BackupTypeOK`) |
| `OperationProofs` | `OverlapTheorem` | `OverlapIsOffTheLinkedFile` |
| | `MutualExclusionTheorem` (`NoReset`) | `MutualExclusion` |
| | `RunningIsRecordedTheorem` (`NoReset`) | `RunningIsRecorded` |
| | `NotBypassedTheorem` (`NoReset`) | `InterruptedIsNotBypassed` |
| | `OutcomeStaysTheorem` (`NoReset`) | `OutcomeStays` |
| | `Refinement` (`NoReset`, `NoDryRuns`) | `ImplementsSerialLog` |
| | `NotLeftStoppedTheorem` | `NotLeftStopped` |
| | `RestoredTheorem` | `RestoredIsTheBackup` |
| | `PointInTimeTheorem` | `ManifestIsAPointInTime` |
| | `LossTheorem` | `LossOnlyUnderAVerifiedBackup` |
| | `DispatchedImplementsLifecycle` | (`Spec` of `Lifecycle`) |
| | `DispatchedImplementsBackup` (`OnlyNodeCommands`) | `ImplementsBackup` |
| | `WorkIsRecordedTheorem` (`OnlyNodeCommands`) | `WorkIsRecorded` |
| | `NodeIsFreeTheorem` (`OnlyNodeCommands`) | `NodeIsFree` |
| `RecoverySetProofs` | `PublishedTheorem` | `PublishedIsAPointInTime` |
| | `LossTheorem` | `LossOnlyUnderAVerifiedSet` |
| | `RestoredTheorem` | `RestoredIsTheSet` |
| `UpgradeProofs` | `OldDataTheorem` | `OldDataIsBackedUp` |
| | `CleanRollbackTheorem` | `CleanRollback` |
| | `NewReceiptTheorem` | `NewReceipt` |
| | `NotLeftStoppedTheorem` | `NotLeftStopped` |
| `InstallProofs` | `DatabaseKeptTheorem` | `DatabaseKept` |
| | `ForeignIsAskedTheorem` | `ForeignIsAsked` |
| | `OrderlyUndoTheorem` | `OrderlyUndo` |
| | `InstalledTheorem` | `InstalledIsComplete` |
| | `CleanFailureTheorem` | `CleanFailure` |
| `WorkerProofs` | `FailedJoinTheorem` | `FailedJoinLeavesNothing` |
| | `ReceiptTheorem` | `ReceiptMatchesHost` |
| | `ServedTheorem` | `ReceiptIsServed` |
| `FleetProofs` | `IssuedTheorem` | `IssuedIsRecorded` |
| | `OutlivesTheorem` | `NothingOutlivesItsNode` |
| | `PublicationsTheorem` | `PublicationsAreKept` |
| | `AdvanceTheorem` | `AdvanceIsGated` |
| `EmbeddedEtcdProofs` | `StagedTheorem` | `StagedIsMember` |
| | `InstalledTheorem` | `InstalledIsStaged` |
| | `MembersKeepTheirDataTheorem` | `MembersKeepTheirData` |
| | `CommittedDatabaseTheorem` | `CommittedDatabaseIsKept` |
| `HostServicesProofs` | `DNSPortTheorem` | `DNSKeepsItsPort` |
| | `MdnsOffTheorem` | `MdnsOffStaysOff` |
| | `DNSBackTheorem` | `UninstallGivesDNSBack` |
| | `RestoresMdnsTheorem` | `RollbackRestoresMdns` |

* *Lifecycle.* `MutualExclusion` is not inductive: nothing in it says why two
  processes cannot both get past `flock`. `LockInv` adds that whoever is past it
  owns the flock of the inode its descriptor refers to (`FlockOwned`), and what
  it has in memory (`InMemory`). Two owners therefore refer to
  different inodes, of which at most one is linked: `OverlapTheorem`, whatever
  factory-reset does. Without it every descriptor refers to the linked inode
  (`OnLinkedFile`), which leaves one owner, and the journal is the record of the
  process whose body runs (`Recorded`): `NoResetInv`. The only two writes of the
  journal are then those of `Begin` and of the outcome (`JournalWrites`), and
  between the read of the journal and `Begin` nobody writes it (`GateHolds`), which
  gives the two action properties. Without dry runs as well, at most one
  process operates, so `activeBar` is that process, and each step
  is a begin, an end, a death or a stutter of `SerialLog`.
* *Backup.* From the stop to the start K3s stays stopped (`Quiet`): nobody but
  the operation then writes the datastore or the second tree, so that a copy
  is, file by file, pending or equal to its source (`Saved`, `PutBack`). The
  stored files of a published backup are those of its manifest, rotten or
  not (`AsListed`), so a verified backup equals its manifest, and a
  restore behind the verification replaces from a verified one (`Verified`). Of an
  operation that ends with K3s stopped, `NotLeftStopped` leaves only the starts
  systemd never heard of and the stops it finished alone.
* *DispatchedBackup.* Each step is one of `Lifecycle`, or leaves `Lifecycle` alone,
  by its construction, so the skeleton's invariants hold here as they are
  (`DispatchInv`). For `Backup` the work has to be tied to somebody: what is at
  work on the node is the body of a process that has touched it or is a repair
  (`Owned`), which keeps its record in the journal (`BegunIsAlive`). So while there
  is work nobody else begins (`NodeAlone`), and `interrupted` is false; it becomes
  true only where a process with a record goes (`ExitAbandons`), a step of
  `BackupDies`, and false only by a Begin over an abandoned record, which the gate
  grants to repair alone and which is `BeginRepair` (`NextIsBackup`). Being
  about `BackupSpec`, this carries all of `Backup`'s theorems over to the composition.
* *Upgrade.* The properties talk about ends of attempts, so the invariant says
  what each stage has behind it: `BackedUp` (the old data is in a backup from
  the stage after `TakeBackup` on), `Up` (who runs with K3s up), `Kept` (for
  each K3s file: if its rollback is armed its snapshot is what was there before,
  if not the file is), `Done` (what is new already, stage by stage from
  the last).
* *Install.* `TypeCorrect` needs that a goroutine that still runs has a release
  left to apply (`Work`), or `Head` and `Tail` would be undefined. The two
  properties about the gate rest on what is known behind it: `DatabaseInv` (the
  database directory holds nothing from before) and `ForeignInv` (a foreign K3s
  with workloads is still there only by force); of the steps behind the gate
  none brings either back (`UnderwayDatabase`, `UnderwayForeign`). `OrderlyUndo`
  looks at the top of the stack only; `StackInv` says what lies below: no piece of
  the cluster lies under the rollback that stops K3s (`Ordered`), none is on the
  stack before K3s is started (`Early`), and from then on K3s runs until that
  rollback (`Late`). The lemmas `OrderedAppend`, `OrderedConcat` and `OrderedFront`
  carry the order through what pushes and pops.
  `InstalledIsComplete` needs what each label of the way forward stands for:
  the pieces of the steps behind it (`Built`), every release of a running set
  there or left to a goroutine unless one failed (`Rolling`), the unit on disk
  (`UnitThere`). `CleanFailure` looks at the end of the rollbacks; until then
  every piece that was added has its rollback on the stack or with a goroutine
  that will send it (`ArmedInv`), and the rollback of K3s lies above that of the
  database directory, or K3s is gone and PostgreSQL with it (`StartedInv`).
* *RecoverySet.* A label says which files of the set the backup has behind it
  (`Gathered`). From the wait for the pods to the end of the archive blob storage
  stays at zero, nobody writes, and what is archived is, object by object, the
  snapshot (`Archived`). Behind the verification nobody touches the set
  (`Verified`), and what a restore has put back so far is what the set holds
  unless a pod wrote (`Putting`).
* *Worker.* As long as nothing is excused the host is clean without a receipt
  (`Clean`) and serves its receipt with one (`Served`). A join starts clean,
  writes its files in order, and its rollback has taken them all away at its last
  label (`Joining`); an upgrade has what the receipt names in its snapshot, so
  what its deferred function puts back is what the receipt names again
  (`Upgrading`).
* *Fleet.* A uid is used once (`Uids`), so that receipt, Node object, inference
  release and registry speak of one node if they name one uid. A release is
  given to a registered node and stays with it (`Given`), a removal forgets the
  node after its routing and release are gone (`Removing`), a node whose object
  was deleted under its registration is not routed to (`Replaced`). The gate knows
  all workers, since a member of another kind makes the topology one without the
  gate (`Grows`), and those it has read run the K3s of the target until they
  change (`Gated`).
* *EmbeddedEtcd.* Server by server: the data of a cluster is there only under a
  receipt of it (`OneCluster`), because a stage names the cluster before there
  is data (`Staging`, `Recorded`) and a reset takes the data before the receipt
  (`Resetting`); data of an older installation keeps the older configuration, so
  nothing is staged on top of it (`Older`). For the appliance: while a finalize
  runs or has committed, the bootstrap server is not staged and each server not
  reset since has the data of its cluster (`Finalizing`).
* *HostServices.* The paths of the operations are sequences, so what comes behind
  what is derived first (`InstallPath`, `UpgradePath`, `GoesOnWith`), and `Control` says
  which part of which operation runs over which receipt. On that rest five
  threads. `Ground`: an operation behind the drop-in of resolved has port 53 prepared,
  and a receipt with LAN DNS keeps it, because only an operation that found none
  registers its restore. `Silence`: mDNS that is off is masked, and an upgrade that
  took the mask away has a rollback registered that puts it back; without the second
  half a failed upgrade that was to switch mDNS on would break the first.
  `Remembered`: what the rollback of the packages goes by was noted before dpkg ran.
  `Left`: an uninstall has stopped K3s, then killed what listens, before it gives
  the port back. `Quiet`: where the stub does not hold the port, dnsmasq is masked
  already, because whoever takes the stub away has masked it first and nothing
  unmasks it; dnsmasq therefore never runs, and the stub finds the port free.

Only model-checked: the four liveness properties (`EveryInvocationEnds`,
`OutageEnds`, `AgentComesBack`, `DNSComesBack`), which are out of the prover's
reach. Every other property of a passing run is the statement of a theorem.
Recursive operators and induction over data do not occur in these modules. The
invariants were model-checked before they were proved.

## 5. Not modelled

* Read-only commands (status, verify, diagnostics, preflight, support
  bundle): they change nothing a property depends on.
* Release assembly (`bundle`, `releasebundle`, `releaseinput`, `fetch`):
  build-time, sequential, without shared state.
* Product configuration, TLS material, Helm values: generation of text.
* Host directories: idempotent file-system calls without a protocol.
* Signatures, provenance, vulnerability reports, the verification of an
  enrollment: cryptography and schemas; in `Fleet` and `Worker` an enrollment is
  valid or not there.
* Evidence, redaction, logging: reporting.
* Of modelled components: the loop of `PreloadAll` and the renames of the
  metadata bundle (single steps of `Upgrade` and `Install`), the comparison of
  versions, the export and import of a configuration archive by themselves, the
  Wi-Fi calls of the agent's client, which run only when somebody asks the
  agent; the inside of etcd, Kubernetes and Helm, of which the models have what
  the code sees.

## 6. Plan

Done: `Lifecycle` with its refinement, `Backup`, their composition
`DispatchedBackup`, `RecoverySet`, `Upgrade`, `Install`, `Worker`, `Fleet`,
`EmbeddedEtcd` and `HostServices`, with proofs of every safety property a run checks.

Left, in this order:

1. `Backup` under the upgrade: that the steps `Upgrade` takes for `backup.Create` and
   `backup.Restore` are what `Backup` does, as a refinement of an abstract backup that
   both modules name.
2. `HostServices` as the refinement of the single steps that `Install` and
   `Upgrade` take for host DNS, packages and agent.
3. `Images` and `MetadataBundle`: the preload loop and the renames, each as the
   refinement of the step that stands for it.
4. Pure algorithms: the comparison of versions, the endpoint lists of the
   receipt.
