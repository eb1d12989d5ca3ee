---------------------------- MODULE EmbeddedEtcd ----------------------------
(***************************************************************************)
(* The appliance on one or three servers with embedded etcd                *)
(* (internal/install/three_server.go, three_server_finalize.go,            *)
(* internal/clustertopology, cmd/zonctl/cluster_stage_commands.go): every  *)
(* server is staged by its own cluster-server-stage, the peers with an     *)
(* enrollment of the bootstrap server, and cluster-finalize deploys the    *)
(* product once.  No step is rolled back by a stage; any server may die,   *)
(* reboot or be reset by factory-reset at any time, and its commands run   *)
(* again.                                                                  *)
(*                                                                         *)
(* Simplifications: the releases are builds of one version with one K3s;   *)
(* enrollments do not expire; a leftover K3s is one this product wrote;    *)
(* K3s keeps quorum; Helm waits until the pods of a release are gone; a    *)
(* rerun over what is recorded already (joined, finalized) only reads and  *)
(* is no action; the checks of an operation and its first change are one   *)
(* step; a K3s that fails shows in the steps that need it; which images a  *)
(* server has is left out.                                                 *)
(***************************************************************************)
EXTENDS Naturals, FiniteSets

CONSTANTS
    Bootstrap,     \* the first server of the inventory
    Peers,         \* the others
    MaxCluster,    \* how often the bootstrap server may be staged anew
    MaxRelease,    \* the releases are 1..MaxRelease
    Leftover       \* servers with the K3s of an installation whose records are gone

ASSUME BootstrapAssumption == Bootstrap \notin Peers
ASSUME LeftoverAssumption == Leftover \subseteq {Bootstrap} \cup Peers
ASSUME BoundAssumption == MaxCluster \in Nat \ {0} /\ MaxRelease \in Nat \ {0}

Server == {Bootstrap} \cup Peers
Cluster == 1..MaxCluster
Old == MaxCluster + 1          \* the data of an earlier installation
Release == 1..MaxRelease
None == 0
File == {"config", "unit", "binary"}

VARIABLES
    receipt,       \* cluster-bootstrap-state.json of each server
    file,          \* what wrote the files of its K3s
    token,         \* the cluster whose join token it has
    k3s,           \* its process runs
    data,          \* the cluster whose data its K3s has
    registered,    \* the cluster that has a Node object for it
    issued,        \* the last enrollment that was handed out for each peer
    created,       \* clusters that were given an identity
    installed,     \* installed-state.json of the bootstrap server
    product,       \* pods of the product run on the cluster
    database,      \* PostgreSQL's directory on the bootstrap server
    pc, arg,       \* the operation each server runs, and its arguments
    interrupted,   \* the operation its journal says has died
    torn,          \* history: servers of an unfinished factory-reset
    left           \* history: servers that were reset since the gate

host == <<file, token, k3s, data>>
cluster == <<registered, product>>
records == <<receipt, issued, created, installed, database>>
operation == <<pc, arg>>
history == <<torn, left>>
vars == <<host, cluster, records, operation, interrupted, history>>

Phase == {"none", "prepared", "server-ready", "joined", "finalized"}
NoReceipt == [phase |-> "none", cluster |-> None, release |-> None]
NotInstalled == [cluster |-> None, release |-> None]
NoArg == [cluster |-> None, release |-> None]

StageLabel == {"prepare", "config", "unit", "binary", "start", "preload", "record"}
FinalizeLabel == {"install", "deploy", "commit", "seal", "rollback"}
ResetLabel == {"reset data", "reset database", "reset state"}

Operation(label) ==
    IF label \in StageLabel THEN "stage"
    ELSE IF label \in FinalizeLabel THEN "finalize"
    ELSE IF label \in ResetLabel THEN "factory-reset" ELSE "none"

Enrollment == [cluster : Cluster, release : Release]

TypeOK ==
    /\ receipt \in [Server -> [phase : Phase, cluster : Cluster \cup {None}, release : Release \cup {None}]]
    /\ file \in [Server -> [File -> {"none", "old", "staged"}]]
    /\ token \in [Server -> Cluster \cup {None}]
    /\ k3s \in [Server -> BOOLEAN]
    /\ data \in [Server -> Cluster \cup {None, Old}]
    /\ registered \in [Server -> Cluster \cup {None}]
    /\ issued \in [Peers -> Enrollment \cup {NoArg}] /\ created \in 0..MaxCluster
    /\ installed \in [cluster : Cluster \cup {None}, release : Release \cup {None}]
    /\ product \in BOOLEAN /\ database \in {"none", "uncommitted", "committed"}
    /\ pc \in [Server -> {"idle"} \cup StageLabel \cup FinalizeLabel \cup ResetLabel]
    /\ arg \in [Server -> [cluster : Cluster \cup {None}, release : Release \cup {None}]]
    /\ interrupted \in [Server -> {"none", "stage", "finalize", "factory-reset"}]
    /\ torn \subseteq Server /\ left \subseteq Server
    /\ \A s \in Server :
          /\ receipt[s].phase = "none" <=> receipt[s] = NoReceipt
          /\ receipt[s].phase # "none" => receipt[s].cluster \in 1..created
          /\ s # Bootstrap => Operation(pc[s]) # "finalize" /\ receipt[s].phase \notin {"server-ready", "finalized"}

NoFiles == [f \in File |-> "none"]

Init ==
    /\ receipt = [s \in Server |-> NoReceipt]
    /\ file = [s \in Server |-> IF s \in Leftover THEN [f \in File |-> "old"] ELSE NoFiles]
    /\ data = [s \in Server |-> IF s \in Leftover THEN Old ELSE None]
    /\ token = [s \in Server |-> None] /\ k3s = [s \in Server |-> FALSE]
    /\ registered = [s \in Server |-> None]
    /\ issued = [p \in Peers |-> NoArg] /\ created = 0
    /\ installed = NotInstalled /\ product = FALSE /\ database = "none"
    /\ pc = [s \in Server |-> "idle"] /\ arg = [s \in Server |-> NoArg]
    /\ interrupted = [s \in Server |-> "none"]
    /\ torn = {} /\ left = {}

-----------------------------------------------------------------------------
Goto(s, label) == pc' = [pc EXCEPT ![s] = label] /\ UNCHANGED arg

Return(s) == pc' = [pc EXCEPT ![s] = "idle"] /\ arg' = [arg EXCEPT ![s] = NoArg]

\* The journal admits an operation after a death only if it is the same one,
\* or a factory-reset.
Admits(s, op) == pc[s] = "idle" /\ interrupted[s] \in {"none", op}

Begin(s, label, a) ==
    /\ pc' = [pc EXCEPT ![s] = label]
    /\ arg' = [arg EXCEPT ![s] = IF label = "idle" THEN NoArg ELSE a]
    /\ interrupted' = [interrupted EXCEPT ![s] = "none"]

Save(s, r) == receipt' = [receipt EXCEPT ![s] = r]

-----------------------------------------------------------------------------
(* K3s under systemd                                                       *)

\* What a start does to the data: a leftover configuration brings its own
\* cluster back, the bootstrap server makes the cluster of its receipt, and a
\* peer joins the cluster of its token if its first server answers.
CanStart(s) ==
    /\ \A f \in File : file[s][f] # "none"
    /\ data[s] = None /\ file[s]["config"] = "staged" /\ s # Bootstrap =>
          k3s[Bootstrap] /\ data[Bootstrap] = token[s]

DataOf(s) ==
    IF data[s] # None THEN data[s]
    ELSE IF file[s]["config"] = "old" THEN Old
    ELSE IF s = Bootstrap THEN receipt[s].cluster ELSE token[s]

StartK3s(s) ==
    /\ CanStart(s)
    /\ k3s' = [k3s EXCEPT ![s] = TRUE]
    /\ data' = [data EXCEPT ![s] = DataOf(s)]

\* The kubelet registers its node.
NodeRegisters(s) ==
    /\ k3s[s] /\ data[s] \in Cluster /\ registered[s] # data[s]
    /\ registered' = [registered EXCEPT ![s] = data[s]]
    /\ UNCHANGED <<host, product, records, operation, interrupted, history>>

-----------------------------------------------------------------------------
(* StageEmbeddedEtcd                                                       *)

\* A finalized bootstrap server whose installed-state is that of its receipt:
\* the only one that may be staged over an installation.
ResumesFinalized ==
    /\ receipt[Bootstrap].phase = "finalized"
    /\ installed = [cluster |-> receipt[Bootstrap].cluster, release |-> receipt[Bootstrap].release]

\* Fault: an installed appliance is staged again.
MayStage_installed(s) == TRUE

MayStage(s) == s = Bootstrap /\ installed # NotInstalled => ResumesFinalized

\* A host without a receipt: no K3s that runs, and no data but that of a
\* leftover unit of this product.
Unstaged(s) ==
    /\ file[s]["unit"] # "none" => ~k3s[s]
    /\ file[s]["unit"] = "none" => data[s] = None
    /\ s = Bootstrap => database = "none"

\* A host with one: its binary and its configuration are the staged ones.
Restaged(s) ==
    /\ file[s]["unit"] # "none" => file[s]["binary"] = "staged" /\ file[s]["config"] = "staged"
    /\ file[s]["config"] # "none" => file[s]["config"] = "staged"

\* Stop, RemoveAll of the data of a leftover unit, and the leftover token.
ClearLeftover(s, ok) ==
    /\ k3s' = [k3s EXCEPT ![s] = IF file[s]["unit"] = "none" THEN @ ELSE FALSE]
    /\ IF ok
       THEN data' = [data EXCEPT ![s] = None] /\ token' = [token EXCEPT ![s] = None]
       ELSE UNCHANGED <<data, token>>
    /\ UNCHANGED file

StageFirst(s, r, c) ==
    /\ Admits(s, "stage") /\ MayStage(s)
    /\ receipt[s].phase = "none" /\ Unstaged(s)
    /\ \E ok \in BOOLEAN :
          /\ ClearLeftover(s, ok)
          /\ Begin(s, IF ok THEN "prepare" ELSE "idle", [cluster |-> c, release |-> r])
    /\ UNCHANGED <<cluster, records, history>>

\* Fault: what is there is cleared again when a staged K3s does not run.
StageAgain_clears(s, r, c) ==
    /\ Admits(s, "stage") /\ MayStage(s)
    /\ receipt[s].phase = "prepared" /\ Restaged(s)
    /\ IF k3s[s] THEN UNCHANGED host ELSE ClearLeftover(s, TRUE)
    /\ Begin(s, "config", [cluster |-> c, release |-> r])
    /\ UNCHANGED <<cluster, records, history>>

\* A prepared or ready receipt takes the release of this run; a ready one is
\* then returned as it is, without the images of that release.
StageAgain(s, r, c) ==
    /\ Admits(s, "stage") /\ MayStage(s)
    /\ receipt[s].phase \in {"prepared", "server-ready"} /\ Restaged(s)
    /\ \/ /\ Save(s, [receipt[s] EXCEPT !.release = r])
          /\ Begin(s, IF receipt[s].phase = "prepared" THEN "config" ELSE "idle",
                   [cluster |-> c, release |-> r])
       \/ receipt[s].release # r /\ UNCHANGED receipt /\ Begin(s, "idle", NoArg)
    /\ UNCHANGED <<host, cluster, issued, created, installed, database, history>>

Stage(s, r, c) == StageFirst(s, r, c) \/ StageAgain(s, r, c)

StageBootstrap(r) == Stage(Bootstrap, r, None)

\* A peer that is staged already refuses the enrollment of another cluster.
StagePeer(p, r) ==
    /\ issued[p].release = r
    /\ receipt[p].phase # "none" => receipt[p].cluster = issued[p].cluster
    /\ Stage(p, r, issued[p].cluster)

SavePrepared(s) ==
    /\ pc[s] = "prepare"
    /\ \/ LET id == IF s = Bootstrap THEN created + 1 ELSE arg[s].cluster IN
          /\ id \in Cluster
          /\ Save(s, [phase |-> "prepared", cluster |-> id, release |-> arg[s].release])
          /\ created' = IF s = Bootstrap THEN id ELSE created
          /\ Goto(s, "config")
       \/ UNCHANGED <<receipt, created>> /\ Return(s)
    /\ UNCHANGED <<host, cluster, issued, installed, database, interrupted, history>>

\* A file is replaced at once or not at all.
Write(s, f, next) ==
    \/ file' = [file EXCEPT ![s][f] = "staged"] /\ Goto(s, next)
    \/ UNCHANGED file /\ Return(s)

\* The join token of a peer, then the configuration.
WriteConfig(s) ==
    /\ pc[s] = "config"
    /\ token' = [token EXCEPT ![s] = arg[s].cluster]
    /\ Write(s, "config", "unit")
    /\ UNCHANGED <<k3s, data, cluster, records, interrupted, history>>

WriteUnit(s) ==
    /\ pc[s] = "unit" /\ Write(s, "unit", "binary")
    /\ UNCHANGED <<token, k3s, data, cluster, records, interrupted, history>>

InstallBinary(s) ==
    /\ pc[s] = "binary" /\ Write(s, "binary", "start")
    /\ UNCHANGED <<token, k3s, data, cluster, records, interrupted, history>>

\* systemctl start does nothing to a unit that is active.
EnableAndStart(s) ==
    /\ pc[s] = "start"
    /\ \/ /\ IF k3s[s] THEN UNCHANGED <<k3s, data>> ELSE StartK3s(s)
          /\ Goto(s, "preload")
       \/ UNCHANGED <<k3s, data>> /\ Return(s)
    /\ UNCHANGED <<file, token, cluster, records, interrupted, history>>

\* verifyJoinedServerCA, WaitReady, PreloadAll.
Preload(s) ==
    /\ pc[s] = "preload"
    /\ \/ /\ s # Bootstrap => data[s] = arg[s].cluster
          /\ k3s[s]
          /\ Goto(s, "record")
       \/ Return(s)
    /\ UNCHANGED <<host, cluster, records, interrupted, history>>

\* Fault: a peer does not wait for its node to be registered.
Record_unregistered(s) ==
    /\ pc[s] = "record"
    /\ \/ Save(s, [receipt[s] EXCEPT !.phase = IF s = Bootstrap THEN "server-ready" ELSE "joined"])
       \/ UNCHANGED receipt
    /\ Return(s)
    /\ UNCHANGED <<host, cluster, issued, created, installed, database, interrupted, history>>

\* The bootstrap server makes its signer; a peer waits for the UID of its node.
Record(s) ==
    /\ pc[s] = "record"
    /\ \/ s = Bootstrap /\ Save(s, [receipt[s] EXCEPT !.phase = "server-ready"])
       \/ /\ s # Bootstrap /\ registered[s] = data[s]
          /\ Save(s, [receipt[s] EXCEPT !.phase = "joined"])
       \/ UNCHANGED receipt
    /\ Return(s)
    /\ UNCHANGED <<host, cluster, issued, created, installed, database, interrupted, history>>

-----------------------------------------------------------------------------
(* cluster-server-enrollment-create                                        *)

CreateEnrollment(p) ==
    /\ Admits(Bootstrap, "none")
    /\ receipt[Bootstrap].phase \in {"server-ready", "finalized"}
    /\ data[Bootstrap] # None                  \* its token and its CA
    /\ issued' = [issued EXCEPT ![p] = [cluster |-> receipt[Bootstrap].cluster,
                                        release |-> receipt[Bootstrap].release]]
    /\ UNCHANGED <<host, cluster, receipt, created, installed, database, operation, interrupted, history>>

-----------------------------------------------------------------------------
(* FinalizeEmbeddedEtcd                                                    *)

\* The Node object of a server outlives the server.
NodesReady == \A s \in Server : registered[s] = data[Bootstrap]

EndpointsAnswer == \A s \in Server : k3s[s] /\ data[s] = data[Bootstrap]

BeginFinalize(r) ==
    /\ Admits(Bootstrap, "finalize")
    /\ receipt[Bootstrap].phase = "server-ready" /\ receipt[Bootstrap].release = r
    /\ k3s[Bootstrap] /\ file[Bootstrap]["binary"] = "staged"
    /\ NodesReady /\ EndpointsAnswer
    /\ Begin(Bootstrap, "install", [cluster |-> None, release |-> r])
    /\ left' = {}
    /\ UNCHANGED <<host, cluster, records, torn>>

\* Fault: it goes whether an installation is recorded or not.
Discarded_recorded == "none"

\* discardUncommittedEmbeddedEtcdDatabase: what a finalize left that never
\* wrote installed-state.
Discarded == IF installed = NotInstalled THEN "none" ELSE database

\* DecideOwnership: an appliance that is installed is not installed again, and
\* a K3s in which pods of another namespace run is not adopted.  ace-infra is
\* not one of the product's namespaces (platformNamespaces).
Refused == installed # NotInstalled \/ product

BeginInstall ==
    /\ pc[Bootstrap] = "install"
    /\ database' \in {database, Discarded}
    /\ \/ database' = Discarded /\ ~Refused /\ Goto(Bootstrap, "deploy")
       \/ Return(Bootstrap)
    /\ UNCHANGED <<host, cluster, receipt, issued, created, installed, interrupted, history>>

\* Install over the adopted K3s: the first release, with the database in it,
\* and the others.
Deploy ==
    /\ pc[Bootstrap] = "deploy"
    /\ \/ /\ k3s[Bootstrap]
          /\ product' = TRUE /\ database' = "uncommitted"
          /\ (Goto(Bootstrap, "commit") \/ Goto(Bootstrap, "rollback"))
       \/ UNCHANGED <<product, database>> /\ Goto(Bootstrap, "rollback")
    /\ UNCHANGED <<host, registered>>
    /\ UNCHANGED <<receipt, issued, created, installed, interrupted, history>>

\* state.Save.
Commit ==
    /\ pc[Bootstrap] = "commit"
    /\ \/ /\ installed' = [cluster |-> receipt[Bootstrap].cluster, release |-> arg[Bootstrap].release]
          /\ database' = "committed" /\ Goto(Bootstrap, "seal")
       \/ UNCHANGED <<installed, database>> /\ Goto(Bootstrap, "rollback")
    /\ UNCHANGED <<host, cluster, receipt, issued, created, interrupted, history>>

Seal ==
    /\ pc[Bootstrap] = "seal"
    /\ \/ Save(Bootstrap, [receipt[Bootstrap] EXCEPT !.phase = "finalized"])
       \/ UNCHANGED receipt
    /\ Return(Bootstrap)
    /\ UNCHANGED <<host, cluster, issued, created, installed, database, interrupted, history>>

\* The errors of the rollbacks are joined; each may leave its part.
Rollback ==
    /\ pc[Bootstrap] = "rollback"
    /\ product' \in {FALSE, product} /\ database' \in {"none", database}
    /\ Return(Bootstrap)
    /\ UNCHANGED <<host, registered, receipt, issued, created, installed, interrupted, history>>

-----------------------------------------------------------------------------
(* FactoryReset of one server, and what comes from outside                 *)

\* removeK3s: stopped, then the unit, the binary, the configuration and the
\* token, in this order.
FactoryReset(s) ==
    /\ pc[s] = "idle"
    /\ torn' = torn \cup {s}
    /\ left' = IF Operation(pc[Bootstrap]) = "finalize" \/ installed # NotInstalled
               THEN left \cup {s} ELSE {}
    /\ k3s' = [k3s EXCEPT ![s] = FALSE]
    /\ \/ /\ file' = [file EXCEPT ![s] = NoFiles]
          /\ token' = [token EXCEPT ![s] = None]
          /\ Begin(s, "reset data", NoArg)
       \/ /\ file' \in {file, [file EXCEPT ![s]["unit"] = "none"]}
          /\ UNCHANGED token /\ Begin(s, "idle", NoArg)
    /\ UNCHANGED <<data, cluster, records>>

\* With the data of the first server its cluster is gone.
RemoveData(s) ==
    /\ pc[s] = "reset data"
    /\ \/ /\ data' = [data EXCEPT ![s] = None]
          /\ product' = (product /\ s # Bootstrap)
          /\ Goto(s, IF s = Bootstrap THEN "reset database" ELSE "reset state")
       \/ UNCHANGED <<data, product>> /\ Return(s)
    /\ UNCHANGED <<file, token, k3s, registered, records, interrupted, history>>

RemoveDatabase ==
    /\ pc[Bootstrap] = "reset database"
    /\ \/ database' = "none" /\ Goto(Bootstrap, "reset state")
       \/ UNCHANGED database /\ Return(Bootstrap)
    /\ UNCHANGED <<host, cluster, receipt, issued, created, installed, interrupted, history>>

\* The state directory, last.
RemoveState(s) ==
    /\ pc[s] = "reset state"
    /\ \/ /\ Save(s, NoReceipt)
          /\ installed' = IF s = Bootstrap THEN NotInstalled ELSE installed
          /\ torn' = torn \ {s}
       \/ UNCHANGED <<receipt, installed, torn>>
    /\ Return(s)
    /\ UNCHANGED <<host, cluster, issued, created, database, interrupted, left>>

Crash(s) ==
    /\ pc[s] # "idle"
    /\ interrupted' = [interrupted EXCEPT ![s] = Operation(pc[s])]
    /\ Return(s)
    /\ UNCHANGED <<host, cluster, records, history>>

\* An installed K3s may be enabled by now, and then comes back or keeps trying.
Reboot(s) ==
    /\ interrupted' = [interrupted EXCEPT ![s] = IF pc[s] = "idle" THEN @ ELSE Operation(pc[s])]
    /\ \/ StartK3s(s)
       \/ k3s' = [k3s EXCEPT ![s] = FALSE] /\ UNCHANGED data
    /\ Return(s)
    /\ UNCHANGED <<file, token, cluster, records, history>>

\* repair and uninstall are refused on a staged host, and take the mark of the
\* interrupted operation away all the same (Lifecycle).
RefusedRepair(s) ==
    /\ pc[s] = "idle" /\ receipt[s].phase # "none" /\ interrupted[s] # "none"
    /\ interrupted' = [interrupted EXCEPT ![s] = "none"]
    /\ UNCHANGED <<host, cluster, records, operation, history>>

-----------------------------------------------------------------------------
StageStep(s) ==
    \/ SavePrepared(s) \/ WriteConfig(s) \/ WriteUnit(s)
    \/ InstallBinary(s) \/ EnableAndStart(s) \/ Preload(s) \/ Record(s)

FinalizeStep ==
    \/ BeginInstall \/ Deploy \/ Commit \/ Seal \/ Rollback

ResetStep(s) == RemoveData(s) \/ RemoveState(s)

Next ==
    \/ \E r \in Release : StageBootstrap(r) \/ BeginFinalize(r)
    \/ \E p \in Peers : CreateEnrollment(p) \/ \E r \in Release : StagePeer(p, r)
    \/ FinalizeStep \/ RemoveDatabase
    \/ \E s \in Server :
          \/ StageStep(s) \/ FactoryReset(s) \/ ResetStep(s)
          \/ NodeRegisters(s) \/ Crash(s) \/ Reboot(s) \/ RefusedRepair(s)

Spec == Init /\ [][Next]_vars

-----------------------------------------------------------------------------
(* Properties.                                                             *)

\* A receipt past "prepared" tells the truth about its server, however often
\* it was staged, rebooted or staged again: K3s is the staged one and has the
\* data of the recorded cluster, and a peer is a registered node of it (an
\* unfinished factory-reset is excused).
StagedIsMember ==
    \A s \in Server :
        receipt[s].phase \notin {"none", "prepared"} /\ s \notin torn =>
            /\ \A f \in File : file[s][f] = "staged"
            /\ data[s] = receipt[s].cluster
            /\ s # Bootstrap => registered[s] = receipt[s].cluster

\* Only factory-reset takes the data of a member of a cluster away: the
\* RemoveAll of a stage reaches leftovers alone, whatever died before it.
MembersKeepTheirData ==
    [][\A s \in Server : data[s] \in Cluster /\ data'[s] # data[s] => pc[s] = "reset data"]_vars

\* What is installed is what is staged: a stage never renews the receipt of an
\* appliance that a finalize has committed, recorded as finalized or not.  And
\* "it deploys product charts ... only after every planned ... node": an
\* installed appliance has every server of its inventory in its cluster, but
\* for those reset after the gate had looked.  The Node object of a reset
\* server does not count.
InstalledIsStaged ==
    installed # NotInstalled =>
        /\ installed = [cluster |-> receipt[Bootstrap].cluster, release |-> receipt[Bootstrap].release]
        /\ receipt[Bootstrap].phase \in {"server-ready", "finalized"}
        /\ \A s \in Server \ left : data[s] = installed.cluster

\* The database of an installed appliance is never taken for what a failed
\* finalize left behind.
CommittedDatabaseIsKept ==
    [][database = "committed" /\ database' # database => pc[Bootstrap] = "reset database"]_vars

\* "Interrupted stage/finalize runs are rerunnable with the same inputs": what
\* a finalize left that died is not a reason to refuse its rerun.  Expected to
\* be violated.
InterruptedFinalizeIsRerunnable ==
    interrupted[Bootstrap] = "finalize" /\ Bootstrap \notin torn
        => receipt[Bootstrap].phase = "finalized" \/ ~Refused

=============================================================================
