------------------------ MODULE EmbeddedEtcdProofs ------------------------
(***************************************************************************)
(* Theorems about staging and finalizing servers with embedded etcd, for   *)
(* any set of peers, any number of clusters and releases, and whatever an  *)
(* older installation left on any of the servers.                          *)
(*                                                                         *)
(* The argument, server by server: the data of a cluster is on a server    *)
(* only under a receipt of that cluster (OneCluster), since a stage names  *)
(* the cluster only when there is no data yet (Staging) and a reset takes  *)
(* the data before the receipt (Resetting); data of an older installation  *)
(* under a receipt stays with the older configuration, so nothing is       *)
(* staged on top of it (Older).  For the appliance: while a finalize runs  *)
(* or has committed, the bootstrap server is not staged and every server   *)
(* that was not reset since has the data of its cluster (Finalizing).      *)
(***************************************************************************)
EXTENDS EmbeddedEtcd, TLAPS

HasReceipt(s) == receipt[s].phase # "none"

\* Where a stage is: what it has written by then, and for which cluster.
Staging(s) ==
    /\ pc[s] = "prepare" => ~HasReceipt(s) /\ data[s] = None /\ ~k3s[s]
    /\ pc[s] \in StageLabel \ {"prepare"} => receipt[s].phase = "prepared"
    /\ pc[s] \in {"unit", "binary", "start", "preload", "record"} => file[s]["config"] = "staged"
    /\ pc[s] \in {"binary", "start", "preload", "record"} => file[s]["unit"] = "staged"
    /\ pc[s] \in {"start", "preload", "record"} => file[s]["binary"] = "staged"
    /\ pc[s] = "record" => s \in torn \/ data[s] = receipt[s].cluster
    /\ pc[s] \in StageLabel /\ s # Bootstrap => arg[s].cluster \in 1..created
    /\ pc[s] \in StageLabel => arg[s].release \in Release
    /\ pc[s] \in StageLabel \ {"prepare"} /\ s # Bootstrap => arg[s].cluster = receipt[s].cluster

\* Nothing is staged on a host without a receipt, and the token is that of
\* the receipt's cluster.
Recorded(s) ==
    /\ HasReceipt(s) => receipt[s].release \in Release
    /\ ~HasReceipt(s) => data[s] \in {None, Old} /\ \A f \in File : file[s][f] # "staged"
    /\ s # Bootstrap /\ file[s]["config"] = "staged" => token[s] = receipt[s].cluster

OneCluster(s) == data[s] \in Cluster => HasReceipt(s) /\ data[s] = receipt[s].cluster

Older(s) ==
    data[s] = Old /\ HasReceipt(s) /\ s \notin torn => pc[s] = "idle" /\ file[s]["config"] = "old"

Runs(s) == k3s[s] => data[s] # None

Resetting(s) ==
    /\ pc[s] \in ResetLabel => s \in torn /\ ~k3s[s] /\ file[s] = NoFiles
    /\ pc[s] \in {"reset database", "reset state"} => data[s] = None

Member(s) ==
    receipt[s].phase \notin {"none", "prepared"} /\ s \notin torn =>
        /\ \A f \in File : file[s][f] = "staged"
        /\ data[s] = receipt[s].cluster
        /\ s # Bootstrap => registered[s] = receipt[s].cluster

ServerInv(s) ==
    /\ Staging(s) /\ Recorded(s) /\ OneCluster(s) /\ Older(s) /\ Runs(s)
    /\ Resetting(s) /\ Member(s)

Enrolled == \A p \in Peers : issued[p].cluster \in 0..created

Final == pc[Bootstrap] \in FinalizeLabel \/ installed # NotInstalled

Finalizing ==
    /\ pc[Bootstrap] \in FinalizeLabel =>
          /\ receipt[Bootstrap].phase = "server-ready"
          /\ arg[Bootstrap].release = receipt[Bootstrap].release
    /\ pc[Bootstrap] \in {"deploy", "commit", "rollback"} \cup StageLabel => installed = NotInstalled
    /\ Final => \A s \in Server \ left :
                    data[s] = receipt[Bootstrap].cluster /\ pc[s] # "reset data"
    /\ database = "committed" => installed # NotInstalled
    /\ pc[Bootstrap] = "reset state" => database = "none"
    /\ installed # NotInstalled =>
          /\ installed = [cluster |-> receipt[Bootstrap].cluster, release |-> receipt[Bootstrap].release]
          /\ receipt[Bootstrap].phase \in {"server-ready", "finalized"}

EtcdInv == TypeOK /\ (\A s \in Server : ServerInv(s)) /\ Enrolled /\ Finalizing

-----------------------------------------------------------------------------

\* What the bounds say of the identities of clusters.
LEMMA Identities ==
    /\ Bootstrap \in Server /\ Peers \subseteq Server /\ Bootstrap \notin Peers
    /\ \A s \in Server : s # Bootstrap => s \in Peers
    /\ None \notin Cluster /\ Old \notin Cluster /\ None # Old
    /\ None \notin Release
    /\ \A n \in 0..MaxCluster : 1..n \subseteq Cluster
BY BootstrapAssumption, BoundAssumption DEF Server, Cluster, None, Old, Release

Typing == receipt \in [Server -> [phase : Phase, cluster : Cluster \cup {None}, release : Release \cup {None}]]

\* Every step keeps the records of the servers typed.
LEMMA NextTypesRecords == EtcdInv /\ Next =>
    /\ receipt' \in [Server -> [phase : Phase, cluster : Cluster \cup {None}, release : Release \cup {None}]]
    /\ created' \in 0..MaxCluster /\ created =< created'
<1> SUFFICES ASSUME EtcdInv, Next
             PROVE  /\ Typing'
                    /\ created' \in 0..MaxCluster /\ created =< created'
  BY DEF Typing
<1>0. /\ Typing /\ created \in 0..MaxCluster
      /\ arg \in [Server -> [cluster : Cluster \cup {None}, release : Release \cup {None}]]
      /\ MaxCluster \in Nat
      /\ NoReceipt \in [phase : Phase, cluster : Cluster \cup {None}, release : Release \cup {None}]
  BY BoundAssumption DEF EtcdInv, TypeOK, Typing, NoReceipt, Phase
<1>s. ASSUME NEW s \in Server, NEW r \in [phase : Phase, cluster : Cluster \cup {None}, release : Release \cup {None}],
             Save(s, r)
      PROVE  Typing'
  BY <1>0, <1>s DEF Typing, Save
<1> USE <1>0, Identities DEF records
<1>1. ASSUME NEW s \in Server, NEW r \in Release, NEW c, Stage(s, r, c)
      PROVE  Typing' /\ created' = created
  <2>1. CASE StageFirst(s, r, c)
    BY <2>1 DEF StageFirst, Typing
  <2>2. CASE StageAgain(s, r, c)
    <3>1. [receipt[s] EXCEPT !.release = r] \in [phase : Phase, cluster : Cluster \cup {None}, release : Release \cup {None}]
      BY DEF Typing
    <3>2. created' = created /\ (Save(s, [receipt[s] EXCEPT !.release = r]) \/ UNCHANGED receipt)
      BY <2>2 DEF StageAgain
    <3> QED BY <3>1, <3>2, <1>s DEF Typing
  <2> QED BY <1>1, <2>1, <2>2 DEF Stage
<1>2. CASE \E r \in Release : StageBootstrap(r) \/ BeginFinalize(r)
  BY <1>1, <1>2 DEF StageBootstrap, BeginFinalize, Typing
<1>3. CASE \E p \in Peers : CreateEnrollment(p) \/ \E r \in Release : StagePeer(p, r)
  BY <1>1, <1>3 DEF StagePeer, CreateEnrollment, Typing
<1>4. CASE FinalizeStep \/ RemoveDatabase
  <2>1. CASE Seal
    <3>1. [receipt[Bootstrap] EXCEPT !.phase = "finalized"]
             \in [phase : Phase, cluster : Cluster \cup {None}, release : Release \cup {None}]
      BY DEF Typing, Phase
    <3>2. created' = created
      BY <2>1 DEF Seal
    <3> QED BY <2>1, <3>1, <3>2, <1>s DEF Seal, Typing
  <2>2. CASE BeginInstall \/ Deploy \/ Commit \/ Rollback \/ RemoveDatabase
    <3>1. receipt' = receipt /\ created' = created
      BY <2>2 DEF BeginInstall, Deploy, Commit, Rollback, RemoveDatabase
    <3> QED BY <3>1 DEF Typing
  <2> QED BY <1>4, <2>1, <2>2 DEF FinalizeStep
<1>5. ASSUME NEW s \in Server, StageStep(s)
      PROVE  Typing' /\ created' \in 0..MaxCluster /\ created =< created'
  <2>1. CASE SavePrepared(s)
    <3> DEFINE id == IF s = Bootstrap THEN created + 1 ELSE arg[s].cluster
    <3>1. CASE id \in Cluster /\ Save(s, [phase |-> "prepared", cluster |-> id, release |-> arg[s].release])
               /\ created' = IF s = Bootstrap THEN id ELSE created
      <4>1. [phase |-> "prepared", cluster |-> id, release |-> arg[s].release]
               \in [phase : Phase, cluster : Cluster \cup {None}, release : Release \cup {None}]
        BY <3>1 DEF Phase
      <4>2. Typing'
        BY <3>1, <4>1, <1>s
      <4> QED BY <3>1, <4>2 DEF Cluster
    <3>2. CASE UNCHANGED <<receipt, created>>
      BY <3>2 DEF Typing
    <3> QED BY <2>1, <3>1, <3>2 DEF SavePrepared
  <2>2. CASE Record(s)
    <3>1. ASSUME NEW q \in {"server-ready", "joined"}
          PROVE  [receipt[s] EXCEPT !.phase = q]
                   \in [phase : Phase, cluster : Cluster \cup {None}, release : Release \cup {None}]
      BY DEF Typing, Phase
    <3> QED BY <2>2, <3>1, <1>s DEF Record, Typing
  <2> QED BY <1>5, <2>1, <2>2 DEF StageStep, WriteConfig, WriteUnit, InstallBinary, EnableAndStart, Preload, Typing
<1>6. ASSUME NEW s \in Server, ResetStep(s)
      PROVE  Typing' /\ created' = created
  BY <1>6, <1>s DEF ResetStep, RemoveData, RemoveState, Typing
<1>7. ASSUME NEW s \in Server,
             FactoryReset(s) \/ NodeRegisters(s) \/ Crash(s) \/ Reboot(s) \/ RefusedRepair(s)
      PROVE  Typing' /\ created' = created
  BY <1>7 DEF FactoryReset, NodeRegisters, Crash, Reboot, RefusedRepair, Typing
<1> QED BY <1>2, <1>3, <1>4, <1>5, <1>6, <1>7 DEF Next

HostTyping ==
    /\ file \in [Server -> [File -> {"none", "old", "staged"}]]
    /\ token \in [Server -> Cluster \cup {None}]
    /\ k3s \in [Server -> BOOLEAN]
    /\ data \in [Server -> Cluster \cup {None, Old}]
    /\ registered \in [Server -> Cluster \cup {None}]

\* Every step keeps the hosts typed.
LEMMA NextTypesHosts == EtcdInv /\ Next => HostTyping'
<1> SUFFICES ASSUME EtcdInv, Next PROVE HostTyping'
  OBVIOUS
<1>0. /\ HostTyping /\ Typing
      /\ arg \in [Server -> [cluster : Cluster \cup {None}, release : Release \cup {None}]]
      /\ NoFiles \in [File -> {"none", "old", "staged"}]
  BY DEF EtcdInv, TypeOK, Typing, HostTyping, NoFiles
<1> USE <1>0, Identities DEF HostTyping, host, cluster
<1>s. ASSUME NEW s \in Server, StartK3s(s)
      PROVE  k3s' \in [Server -> BOOLEAN] /\ data' \in [Server -> Cluster \cup {None, Old}]
  <2>1. DataOf(s) \in Cluster \cup {None, Old}
    BY DEF DataOf, Typing
  <2> QED BY <2>1, <1>s DEF StartK3s
<1>w. ASSUME NEW s \in Server, NEW f \in File, NEW l, Write(s, f, l)
      PROVE  file' \in [Server -> [File -> {"none", "old", "staged"}]]
  <2>1. CASE file' = [file EXCEPT ![s][f] = "staged"]
    <3>1. [file[s] EXCEPT ![f] = "staged"] \in [File -> {"none", "old", "staged"}]
      OBVIOUS
    <3> QED BY <2>1, <3>1
  <2> QED BY <1>w, <2>1 DEF Write
<1>1. ASSUME NEW s \in Server, NEW r \in Release, NEW c, Stage(s, r, c)
      PROVE  HostTyping'
  BY <1>1 DEF Stage, StageFirst, StageAgain, ClearLeftover
<1>2. CASE \E r \in Release : StageBootstrap(r) \/ BeginFinalize(r)
  BY <1>1, <1>2 DEF StageBootstrap, BeginFinalize
<1>3. CASE \E p \in Peers : CreateEnrollment(p) \/ \E r \in Release : StagePeer(p, r)
  BY <1>1, <1>3 DEF StagePeer, CreateEnrollment
<1>4. CASE FinalizeStep \/ RemoveDatabase
  BY <1>4 DEF FinalizeStep, BeginInstall, Deploy, Commit, Seal, Rollback, RemoveDatabase
<1>5. ASSUME NEW s \in Server, StageStep(s)
      PROVE  HostTyping'
  <2> USE DEF File
  <2>1. CASE SavePrepared(s) \/ Preload(s) \/ Record(s)
    BY <2>1 DEF SavePrepared, Preload, Record
  <2>2. CASE WriteConfig(s)
    BY <2>2, <1>w DEF WriteConfig
  <2>3. CASE WriteUnit(s)
    BY <2>3, <1>w DEF WriteUnit
  <2>4. CASE InstallBinary(s)
    BY <2>4, <1>w DEF InstallBinary
  <2>5. CASE EnableAndStart(s)
    BY <2>5, <1>s DEF EnableAndStart
  <2> QED BY <1>5, <2>1, <2>2, <2>3, <2>4, <2>5 DEF StageStep
<1>6. ASSUME NEW s \in Server, ResetStep(s) \/ FactoryReset(s)
      PROVE  HostTyping'
  <2>1. CASE FactoryReset(s)
    <3>1. [file[s] EXCEPT !["unit"] = "none"] \in [File -> {"none", "old", "staged"}]
      BY DEF File
    <3>2. file' \in {file, [file EXCEPT ![s] = NoFiles], [file EXCEPT ![s]["unit"] = "none"]}
      BY <2>1 DEF FactoryReset
    <3>3. file' \in [Server -> [File -> {"none", "old", "staged"}]]
      BY <3>1, <3>2
    <3> QED BY <2>1, <3>3 DEF FactoryReset
  <2> QED BY <1>6, <2>1 DEF ResetStep, RemoveData, RemoveState
<1>7. ASSUME NEW s \in Server, NodeRegisters(s) \/ Crash(s) \/ Reboot(s) \/ RefusedRepair(s)
      PROVE  HostTyping'
  <2>1. CASE Reboot(s)
    BY <2>1, <1>s DEF Reboot
  <2> QED BY <1>7, <2>1 DEF NodeRegisters, Crash, RefusedRepair
<1> QED BY <1>2, <1>3, <1>4, <1>5, <1>6, <1>7 DEF Next

RestTyping ==
    /\ issued \in [Peers -> Enrollment \cup {NoArg}]
    /\ installed \in [cluster : Cluster \cup {None}, release : Release \cup {None}]
    /\ product \in BOOLEAN /\ database \in {"none", "uncommitted", "committed"}
    /\ pc \in [Server -> {"idle"} \cup StageLabel \cup FinalizeLabel \cup ResetLabel]
    /\ arg \in [Server -> [cluster : Cluster \cup {None}, release : Release \cup {None}]]
    /\ interrupted \in [Server -> {"none", "stage", "finalize", "factory-reset"}]
    /\ torn \subseteq Server /\ left \subseteq Server

\* Every step keeps the operations and what they publish typed.
LEMMA NextTypesRest == EtcdInv /\ Next => RestTyping'
<1> SUFFICES ASSUME EtcdInv, Next PROVE RestTyping'
  OBVIOUS
<1> DEFINE Args == [cluster : Cluster \cup {None}, release : Release \cup {None}]
           Labels == {"idle"} \cup StageLabel \cup FinalizeLabel \cup ResetLabel
<1>0. /\ RestTyping /\ Typing /\ Enrolled
      /\ NoArg \in Args /\ NotInstalled \in Args
      /\ \A s \in Server : HasReceipt(s) => receipt[s].cluster \in Cluster
      /\ pc[Bootstrap] \in FinalizeLabel => receipt[Bootstrap].phase = "server-ready"
  BY Identities DEF EtcdInv, TypeOK, Typing, RestTyping, NoArg, NotInstalled, HasReceipt, Finalizing
<1> USE <1>0, Identities DEF RestTyping
<1>g. ASSUME NEW s \in Server, NEW l \in Labels, Goto(s, l)
      PROVE  pc' \in [Server -> Labels] /\ arg' \in [Server -> Args]
  BY <1>g DEF Goto
<1>r. ASSUME NEW s \in Server, Return(s)
      PROVE  pc' \in [Server -> Labels] /\ arg' \in [Server -> Args]
  BY <1>r DEF Return
<1>b. ASSUME NEW s \in Server, NEW l \in Labels, NEW a \in Args, Begin(s, l, a)
      PROVE  /\ pc' \in [Server -> Labels] /\ arg' \in [Server -> Args]
             /\ interrupted' \in [Server -> {"none", "stage", "finalize", "factory-reset"}]
  BY <1>b DEF Begin
<1>o. \A l : Operation(l) \in {"none", "stage", "finalize", "factory-reset"}
  BY DEF Operation
<1>1. ASSUME NEW s \in Server, NEW r \in Release, NEW c \in Cluster \cup {None}, Stage(s, r, c)
      PROVE  RestTyping'
  <2>0. [cluster |-> c, release |-> r] \in Args /\ {"idle", "prepare", "config"} \subseteq Labels
    BY DEF StageLabel
  <2>1. CASE StageFirst(s, r, c)
    <3>1. PICK ok \in BOOLEAN : Begin(s, IF ok THEN "prepare" ELSE "idle", [cluster |-> c, release |-> r])
      BY <2>1 DEF StageFirst
    <3>2. /\ pc' \in [Server -> Labels] /\ arg' \in [Server -> Args]
          /\ interrupted' \in [Server -> {"none", "stage", "finalize", "factory-reset"}]
      BY <2>0, <3>1, <1>b
    <3> QED BY <2>1, <3>2 DEF StageFirst, cluster, records, history
  <2>2. CASE StageAgain(s, r, c)
    <3>1. \/ Begin(s, "config", [cluster |-> c, release |-> r])
          \/ Begin(s, "idle", [cluster |-> c, release |-> r])
          \/ Begin(s, "idle", NoArg)
      BY <2>2 DEF StageAgain
    <3>2. /\ pc' \in [Server -> Labels] /\ arg' \in [Server -> Args]
          /\ interrupted' \in [Server -> {"none", "stage", "finalize", "factory-reset"}]
      BY <2>0, <3>1, <1>b
    <3> QED BY <2>2, <3>2 DEF StageAgain, cluster, history
  <2> QED BY <1>1, <2>1, <2>2 DEF Stage
<1>2. CASE \E r \in Release : StageBootstrap(r) \/ BeginFinalize(r)
  <2>1. CASE \E r \in Release : StageBootstrap(r)
    BY <1>1, <2>1 DEF StageBootstrap
  <2>2. ASSUME NEW r \in Release, BeginFinalize(r) PROVE RestTyping'
    <3>1. [cluster |-> None, release |-> r] \in Args /\ "install" \in Labels
      BY DEF FinalizeLabel
    <3>2. /\ pc' \in [Server -> Labels] /\ arg' \in [Server -> Args]
          /\ interrupted' \in [Server -> {"none", "stage", "finalize", "factory-reset"}]
      BY <2>2, <3>1, <1>b DEF BeginFinalize
    <3> QED BY <2>2, <3>2 DEF BeginFinalize, cluster, records
  <2> QED BY <1>2, <2>1, <2>2
<1>3. CASE \E p \in Peers : CreateEnrollment(p) \/ \E r \in Release : StagePeer(p, r)
  <2>1. ASSUME NEW p \in Peers, CreateEnrollment(p) PROVE RestTyping'
    <3>1. receipt[Bootstrap].cluster \in Cluster /\ receipt[Bootstrap].release \in Release
      <4>1. HasReceipt(Bootstrap)
        BY <2>1 DEF CreateEnrollment, HasReceipt
      <4>2. receipt[Bootstrap].release # None
        BY <4>1 DEF EtcdInv, ServerInv, Recorded
      <4> QED BY <4>1, <4>2 DEF Typing
    <3>2. issued' \in [Peers -> Enrollment \cup {NoArg}]
      BY <2>1, <3>1 DEF CreateEnrollment, Enrollment
    <3> QED BY <2>1, <3>2 DEF CreateEnrollment, cluster, operation, history
  <2>2. ASSUME NEW p \in Peers, NEW r \in Release, StagePeer(p, r) PROVE RestTyping'
    <3>1. issued[p].cluster \in Cluster \cup {None}
      BY DEF Enrollment, NoArg
    <3> QED BY <1>1, <2>2, <3>1 DEF StagePeer
  <2> QED BY <1>3, <2>1, <2>2
<1>4. CASE FinalizeStep \/ RemoveDatabase
  <2>0. {"deploy", "commit", "seal", "rollback", "reset state"} \subseteq Labels
    BY DEF FinalizeLabel, ResetLabel
  <2>1. pc' \in [Server -> Labels] /\ arg' \in [Server -> Args]
    BY <1>4, <2>0, <1>g, <1>r DEF FinalizeStep, BeginInstall, Deploy, Commit, Seal, Rollback, RemoveDatabase
  <2>2. CASE Commit
    <3>1. receipt[Bootstrap].cluster \in Cluster \cup {None} /\ arg[Bootstrap].release \in Release \cup {None}
      BY DEF Typing
    <3> QED BY <2>1, <2>2, <3>1 DEF Commit, cluster, history
  <2> QED BY <1>4, <2>1, <2>2
      DEF FinalizeStep, BeginInstall, Deploy, Seal, Rollback, RemoveDatabase, Discarded, cluster, history
<1>5. ASSUME NEW s \in Server, StageStep(s)
      PROVE  RestTyping'
  <2>0. StageLabel \subseteq Labels /\ {"config", "unit", "binary", "start", "preload", "record"} \subseteq StageLabel
    BY DEF StageLabel
  <2>1. \/ Return(s) \/ Goto(s, "config") \/ Goto(s, "unit") \/ Goto(s, "binary")
        \/ Goto(s, "start") \/ Goto(s, "preload") \/ Goto(s, "record")
    BY <1>5 DEF StageStep, SavePrepared, WriteConfig, WriteUnit, InstallBinary, EnableAndStart, Preload, Record, Write
  <2>2. pc' \in [Server -> Labels] /\ arg' \in [Server -> Args]
    BY <2>0, <2>1, <1>g, <1>r
  <2> QED BY <1>5, <2>2
      DEF StageStep, SavePrepared, WriteConfig, WriteUnit, InstallBinary, EnableAndStart, Preload, Record,
          cluster, records, history
<1>6. ASSUME NEW s \in Server, ResetStep(s) \/ FactoryReset(s)
      PROVE  RestTyping'
  <2>0. {"idle", "reset data", "reset database", "reset state"} \subseteq Labels
    BY DEF ResetLabel
  <2>1. pc' \in [Server -> Labels] /\ arg' \in [Server -> Args]
    BY <1>6, <2>0, <1>g, <1>r, <1>b DEF ResetStep, FactoryReset, RemoveData, RemoveState
  <2>2. CASE FactoryReset(s)
    <3>1. interrupted' \in [Server -> {"none", "stage", "finalize", "factory-reset"}]
      BY <2>2 DEF FactoryReset, Begin
    <3> QED BY <2>1, <2>2, <3>1 DEF FactoryReset, cluster, records
  <2> QED BY <1>6, <2>1, <2>2 DEF ResetStep, RemoveData, RemoveState, cluster, records, history
<1>7. ASSUME NEW s \in Server, NodeRegisters(s) \/ Crash(s) \/ Reboot(s) \/ RefusedRepair(s)
      PROVE  RestTyping'
  <2>1. CASE NodeRegisters(s)
    BY <2>1 DEF NodeRegisters, records, operation, history
  <2>2. CASE Crash(s)
    BY <2>2, <1>o, <1>r DEF Crash, cluster, records, history
  <2>3. CASE Reboot(s)
    BY <2>3, <1>o, <1>r DEF Reboot, cluster, records, history
  <2>4. CASE RefusedRepair(s)
    BY <2>4, <1>o DEF RefusedRepair, cluster, records, operation, history
  <2> QED BY <1>7, <2>1, <2>2, <2>3, <2>4
<1> QED BY <1>2, <1>3, <1>4, <1>5, <1>6, <1>7 DEF Next

-----------------------------------------------------------------------------

Spares(s) ==
    /\ pc'[s] = pc[s] /\ arg'[s] = arg[s] /\ receipt'[s] = receipt[s]
    /\ file'[s] = file[s] /\ token'[s] = token[s] /\ data'[s] = data[s] /\ k3s'[s] = k3s[s]
    /\ registered'[s] = registered[s]
    /\ s \in torn' <=> s \in torn

\* A step that leaves a server alone keeps its part of the invariant.
LEMMA Elsewhere ==
    ASSUME NEW s \in Server, ServerInv(s), created \in Nat, created' \in Nat, created =< created',
           Spares(s)
    PROVE  ServerInv(s)'
<1> USE DEF Spares
<1>1. Staging(s)'
  <2>1. 1..created \subseteq 1..created'
    OBVIOUS
  <2> QED BY <2>1 DEF ServerInv, Staging, HasReceipt
<1>2. Recorded(s)' /\ OneCluster(s)' /\ Older(s)'
  BY DEF ServerInv, Recorded, OneCluster, Older, HasReceipt
<1>3. Runs(s)' /\ Resetting(s)' /\ Member(s)'
  BY DEF ServerInv, Runs, Resetting, Member
<1> QED BY <1>1, <1>2, <1>3 DEF ServerInv

Types == Typing /\ HostTyping /\ RestTyping /\ created \in 0..MaxCluster

\* Where the parts of the invariant are found.
LEMMA Parts == EtcdInv =>
    /\ Types
    /\ \A s \in Server : ServerInv(s)
    /\ Enrolled /\ Finalizing
BY DEF EtcdInv, TypeOK, Types, Typing, HostTyping, RestTyping

\* The stages, step by step.
LEMMA StageServers ==
    ASSUME NEW s \in Server, NEW r \in Release, NEW c \in Cluster \cup {None}, EtcdInv, Stage(s, r, c),
           s # Bootstrap => c \in 1..created /\ (HasReceipt(s) => c = receipt[s].cluster)
    PROVE  ServerInv(s)' /\ \A x \in Server \ {s} : Spares(x)
<1>0. Types /\ ServerInv(s)
  BY Parts
<1> USE <1>0, Identities DEF Types, Typing, HostTyping, RestTyping, host, cluster, records, history
<1>1. CASE StageFirst(s, r, c)
  <2>0. PICK ok \in BOOLEAN : ClearLeftover(s, ok) /\ Begin(s, IF ok THEN "prepare" ELSE "idle", [cluster |-> c, release |-> r])
    BY <1>1 DEF StageFirst
  <2>1. \A x \in Server \ {s} : Spares(x)
    BY <1>1, <2>0 DEF StageFirst, ClearLeftover, Begin, Spares
  <2>2. /\ ~HasReceipt(s) /\ receipt' = receipt /\ created' = created /\ file' = file /\ torn' = torn
        /\ registered' = registered
        /\ pc'[s] \in {"prepare", "idle"}
        /\ pc'[s] = "prepare" => data'[s] = None /\ ~k3s'[s] /\ arg'[s] = [cluster |-> c, release |-> r]
        /\ data'[s] \in {None, Old}
        /\ token'[s] \in {token[s], None}
        /\ k3s'[s] => k3s[s] /\ data'[s] = data[s]
    <3>1. /\ ~HasReceipt(s) /\ receipt' = receipt /\ created' = created /\ file' = file /\ torn' = torn
          /\ registered' = registered /\ Unstaged(s)
      BY <1>1, <2>0 DEF StageFirst, ClearLeftover, HasReceipt
    <3>2. /\ pc'[s] = IF ok THEN "prepare" ELSE "idle"
          /\ ok => arg'[s] = [cluster |-> c, release |-> r]
      BY <2>0 DEF Begin
    <3>3. data[s] \in {None, Old}
      BY <3>1 DEF ServerInv, Recorded
    <3>4. k3s[s] => file[s]["unit"] = "none" /\ data[s] = None
      BY <3>1 DEF Unstaged
    <3>5. ~k3s[s]
      BY <3>4 DEF ServerInv, Runs
    <3>6. /\ data'[s] \in {data[s], None}
          /\ ok => data'[s] = None
          /\ token'[s] \in {token[s], None} /\ ~k3s'[s]
      BY <2>0, <3>5 DEF ClearLeftover
    <3>7. /\ pc'[s] \in {"prepare", "idle"}
          /\ pc'[s] = "prepare" => ok
      <4>1. CASE ok
        BY <3>2, <4>1
      <4>2. CASE ~ok
        BY <3>2, <4>2
      <4> QED BY <4>1, <4>2
    <3>8. pc'[s] = "prepare" => data'[s] = None /\ ~k3s'[s] /\ arg'[s] = [cluster |-> c, release |-> r]
      BY <3>2, <3>6, <3>7
    <3> QED BY <3>1, <3>3, <3>6, <3>7, <3>8
  <2>3. Staging(s)'
    BY <2>2 DEF Staging, HasReceipt, StageLabel, ServerInv
  <2>4. ServerInv(s)'
    BY <2>2, <2>3 DEF ServerInv, Recorded, OneCluster, Older, Runs, Resetting, Member, HasReceipt, ResetLabel, File
  <2> QED BY <2>1, <2>4
<1>2. CASE StageAgain(s, r, c)
  <2>1. \A x \in Server \ {s} : Spares(x)
    BY <1>2 DEF StageAgain, Begin, Save, Spares
  <2>2. /\ receipt[s].phase \in {"prepared", "server-ready"}
        /\ receipt'[s] \in {receipt[s], [receipt[s] EXCEPT !.release = r]}
        /\ Restaged(s)
        /\ UNCHANGED host /\ torn' = torn /\ created' = created /\ registered' = registered
        /\ \/ pc'[s] = "idle"
           \/ /\ pc'[s] = "config" /\ receipt[s].phase = "prepared"
              /\ arg'[s] = [cluster |-> c, release |-> r]
        /\ pc[s] = "idle"
    BY <1>2 DEF StageAgain, Begin, Save, Admits
  <2>3. receipt'[s].phase = receipt[s].phase /\ receipt'[s].cluster = receipt[s].cluster
    BY <2>2
  <2>4. HasReceipt(s) /\ HasReceipt(s)'
    BY <2>2, <2>3 DEF HasReceipt
  <2>5. Staging(s)'
    BY <2>2, <2>3, <2>4 DEF Staging, StageLabel
  <2>6. Recorded(s)' /\ OneCluster(s)' /\ Runs(s)' /\ Resetting(s)' /\ Member(s)'
    <3>1. ServerInv(s) /\ UNCHANGED <<file, token, data, k3s>> /\ pc'[s] \notin ResetLabel
          /\ receipt'[s].release \in {receipt[s].release, r}
      <4>1. receipt'[s].release \in {receipt[s].release, r}
        BY <2>2
      <4>2. UNCHANGED <<file, token, data, k3s>> /\ pc'[s] \in {"idle", "config"}
        BY <2>2
      <4> QED BY <2>2, <4>1, <4>2 DEF ResetLabel
    <3>2. Recorded(s)' /\ OneCluster(s)'
      BY <2>3, <2>4, <3>1 DEF ServerInv, Recorded, OneCluster
    <3>3. Runs(s)' /\ Resetting(s)'
      BY <3>1 DEF ServerInv, Runs, Resetting, ResetLabel
    <3>4. Member(s)'
      BY <2>2, <2>3, <3>1 DEF ServerInv, Member
    <3> QED BY <3>2, <3>3, <3>4
  <2>7. Older(s)'
    BY <2>2, <2>4 DEF ServerInv, Older, Restaged
  <2> QED BY <2>1, <2>5, <2>6, <2>7 DEF ServerInv
<1> QED BY <1>1, <1>2 DEF Stage

LEMMA StageStepServers ==
    ASSUME NEW s \in Server, EtcdInv, StageStep(s)
    PROVE  ServerInv(s)' /\ \A x \in Server \ {s} : Spares(x)
<1>0. Types /\ ServerInv(s)
  BY Parts
<1> USE <1>0, Identities DEF Types, Typing, HostTyping, RestTyping, host, cluster, records, history, Goto, Return, Save
<1>1. CASE SavePrepared(s)
  <2>1. \A x \in Server \ {s} : Spares(x)
    BY <1>1 DEF SavePrepared, Spares
  <2> DEFINE id == IF s = Bootstrap THEN created + 1 ELSE arg[s].cluster
  <2>2. /\ UNCHANGED <<file, token, data, k3s, registered, torn>>
        /\ pc[s] = "prepare"
        /\ \/ /\ receipt'[s] = [phase |-> "prepared", cluster |-> id, release |-> arg[s].release]
              /\ created' = IF s = Bootstrap THEN id ELSE created
              /\ pc'[s] = "config" /\ arg'[s] = arg[s]
           \/ receipt'[s] = receipt[s] /\ created' = created /\ pc'[s] = "idle"
    BY <1>1 DEF SavePrepared
  <2>3. /\ data[s] = None /\ ~HasReceipt(s) /\ arg[s].release \in Release
        /\ s # Bootstrap => arg[s].cluster \in 1..created
        /\ \A f \in File : file[s][f] # "staged"
    BY <2>2 DEF ServerInv, Staging, Recorded, StageLabel
  <2>4. Staging(s)'
    BY <2>2, <2>3 DEF Staging, StageLabel, HasReceipt
  <2>5. Recorded(s)'
    BY <2>2, <2>3 DEF ServerInv, Recorded, HasReceipt, File
  <2>6. OneCluster(s)' /\ Older(s)'
    BY <2>2, <2>3 DEF ServerInv, OneCluster, Older, HasReceipt, File
  <2>7. Runs(s)' /\ Resetting(s)'
    BY <2>2 DEF ServerInv, Runs, Resetting, ResetLabel
  <2>8. Member(s)'
    <3>1. receipt'[s].phase \in {"none", "prepared"} \/ receipt'[s] = receipt[s]
      BY <2>2
    <3> QED BY <2>2, <3>1 DEF ServerInv, Member
  <2> QED BY <2>1, <2>4, <2>5, <2>6, <2>7, <2>8 DEF ServerInv
<1>2. CASE WriteConfig(s)
  <2>1. \A x \in Server \ {s} : Spares(x)
    BY <1>2 DEF WriteConfig, Write, Spares
  <2>2. /\ UNCHANGED <<receipt, created, data, k3s, registered, torn>>
        /\ pc[s] = "config" /\ token'[s] = arg[s].cluster
        /\ \/ file'[s] = [file[s] EXCEPT !["config"] = "staged"] /\ pc'[s] = "unit" /\ arg'[s] = arg[s]
           \/ file'[s] = file[s] /\ pc'[s] = "idle"
    BY <1>2 DEF WriteConfig, Write
  <2>3. /\ receipt[s].phase = "prepared"
        /\ s # Bootstrap => arg[s].cluster \in 1..created /\ arg[s].cluster = receipt[s].cluster
        /\ data[s] = Old => s \in torn
    BY <2>2 DEF ServerInv, Staging, StageLabel, Older, HasReceipt
  <2>4. Staging(s)'
    BY <2>2, <2>3 DEF ServerInv, Staging, StageLabel, HasReceipt, File
  <2>5. Recorded(s)' /\ OneCluster(s)' /\ Older(s)' /\ Runs(s)' /\ Resetting(s)' /\ Member(s)'
    BY <2>2, <2>3 DEF ServerInv, Recorded, OneCluster, Older, Runs, Resetting, Member, HasReceipt, ResetLabel, File
  <2> QED BY <2>1, <2>4, <2>5 DEF ServerInv
<1>3. CASE WriteUnit(s) \/ InstallBinary(s)
  <2>1. \A x \in Server \ {s} : Spares(x)
    BY <1>3 DEF WriteUnit, InstallBinary, Write, Spares
  <2>2. PICK f \in {"unit", "binary"} :
        /\ UNCHANGED <<receipt, created, token, data, k3s, registered, torn>>
        /\ pc[s] = f
        /\ \/ /\ file'[s] = [file[s] EXCEPT ![f] = "staged"]
              /\ pc'[s] = IF f = "unit" THEN "binary" ELSE "start"
              /\ arg'[s] = arg[s]
           \/ file'[s] = file[s] /\ pc'[s] = "idle"
    BY <1>3 DEF WriteUnit, InstallBinary, Write
  <2>3. receipt[s].phase = "prepared" /\ HasReceipt(s) /\ (data[s] = Old => s \in torn)
    BY <2>2 DEF ServerInv, Staging, StageLabel, Older, HasReceipt
  <2>4. Staging(s)'
    BY <2>2, <2>3 DEF ServerInv, Staging, StageLabel, HasReceipt, File
  <2>5. Recorded(s)'
    BY <2>2, <2>3 DEF ServerInv, Recorded, HasReceipt, File
  <2>6. OneCluster(s)' /\ Older(s)'
    BY <2>2, <2>3 DEF ServerInv, OneCluster, Older, HasReceipt, File
  <2>7. Runs(s)' /\ Resetting(s)' /\ Member(s)'
    BY <2>2, <2>3 DEF ServerInv, Runs, Resetting, Member, ResetLabel
  <2> QED BY <2>1, <2>4, <2>5, <2>6, <2>7 DEF ServerInv
<1>4. CASE EnableAndStart(s)
  <2>1. \A x \in Server \ {s} : Spares(x)
    BY <1>4 DEF EnableAndStart, StartK3s, Spares
  <2>2. /\ UNCHANGED <<receipt, created, token, file, registered, torn>>
        /\ pc[s] = "start"
        /\ pc'[s] \in {"preload", "idle"}
        /\ pc'[s] = "preload" => arg'[s] = arg[s]
        /\ \/ k3s'[s] = k3s[s] /\ data'[s] = data[s]
           \/ k3s'[s] = TRUE /\ data'[s] = DataOf(s)
    BY <1>4 DEF EnableAndStart, StartK3s
  <2>3. /\ receipt[s].phase = "prepared" /\ HasReceipt(s) /\ (data[s] = Old => s \in torn)
        /\ \A f \in File : file[s][f] = "staged"
        /\ receipt[s].cluster \in Cluster
        /\ s # Bootstrap => token[s] = receipt[s].cluster
    BY <2>2 DEF ServerInv, Staging, StageLabel, Older, HasReceipt, Recorded, EtcdInv, TypeOK, File
  <2>4. \/ data'[s] = data[s]
        \/ data[s] = None /\ data'[s] = receipt[s].cluster
    BY <2>2, <2>3 DEF DataOf, File
  <2>5. Staging(s)'
    BY <2>2, <2>3, <2>4 DEF ServerInv, Staging, StageLabel, HasReceipt
  <2>6. Runs(s)'
    <3>1. DataOf(s) # None
      BY <2>3 DEF DataOf, File
    <3> QED BY <2>2, <3>1 DEF ServerInv, Runs
  <2>7. Recorded(s)' /\ OneCluster(s)' /\ Older(s)' /\ Resetting(s)' /\ Member(s)'
    BY <2>2, <2>3, <2>4 DEF ServerInv, Recorded, OneCluster, Older, Resetting, Member, HasReceipt, ResetLabel
  <2> QED BY <2>1, <2>5, <2>6, <2>7 DEF ServerInv
<1>5. CASE Preload(s)
  <2>1. \A x \in Server \ {s} : Spares(x)
    BY <1>5 DEF Preload, Spares
  <2>2. /\ UNCHANGED <<receipt, created, token, file, registered, torn, data, k3s>>
        /\ pc[s] = "preload"
        /\ \/ /\ pc'[s] = "record" /\ arg'[s] = arg[s] /\ k3s[s]
              /\ s # Bootstrap => data[s] = arg[s].cluster
           \/ pc'[s] = "idle"
    BY <1>5 DEF Preload
  <2>3. /\ receipt[s].phase = "prepared" /\ HasReceipt(s) /\ (data[s] = Old => s \in torn)
        /\ k3s[s] => data[s] # None
        /\ data[s] \in Cluster => data[s] = receipt[s].cluster
    BY <2>2 DEF ServerInv, Staging, StageLabel, Older, HasReceipt, Runs, OneCluster
  <2>4. Staging(s)'
    BY <2>2, <2>3 DEF ServerInv, Staging, StageLabel, HasReceipt
  <2>5. Recorded(s)' /\ OneCluster(s)' /\ Older(s)' /\ Runs(s)' /\ Resetting(s)' /\ Member(s)'
    BY <2>2, <2>3 DEF ServerInv, Recorded, OneCluster, Older, Runs, Resetting, Member, HasReceipt, ResetLabel
  <2> QED BY <2>1, <2>4, <2>5 DEF ServerInv
<1>6. CASE Record(s)
  <2>1. \A x \in Server \ {s} : Spares(x)
    BY <1>6 DEF Record, Spares
  <2>2. /\ UNCHANGED <<created, token, file, registered, torn, data, k3s>>
        /\ pc[s] = "record" /\ pc'[s] = "idle"
        /\ \/ s = Bootstrap /\ receipt'[s] = [receipt[s] EXCEPT !.phase = "server-ready"]
           \/ s # Bootstrap /\ registered[s] = data[s] /\ receipt'[s] = [receipt[s] EXCEPT !.phase = "joined"]
           \/ receipt'[s] = receipt[s]
    BY <1>6 DEF Record
  <2>3. /\ receipt[s].phase = "prepared" /\ HasReceipt(s) /\ (data[s] = Old => s \in torn)
        /\ \A f \in File : file[s][f] = "staged"
        /\ s \in torn \/ data[s] = receipt[s].cluster
    BY <2>2 DEF ServerInv, Staging, StageLabel, Older, HasReceipt, File
  <2>4. receipt'[s].cluster = receipt[s].cluster /\ receipt'[s].release = receipt[s].release /\ receipt'[s].phase # "none"
    BY <2>2, <2>3
  <2>5. Staging(s)'
    BY <2>2 DEF Staging, StageLabel
  <2>6. Recorded(s)' /\ OneCluster(s)' /\ Older(s)' /\ Runs(s)' /\ Resetting(s)' /\ Member(s)'
    BY <2>2, <2>3, <2>4 DEF ServerInv, Recorded, OneCluster, Older, Runs, Resetting, Member, HasReceipt, ResetLabel
  <2> QED BY <2>1, <2>5, <2>6 DEF ServerInv
<1> QED BY <1>1, <1>2, <1>3, <1>4, <1>5, <1>6, StageStep(s) DEF StageStep

\* What the finalize, the resets and the world do to the servers.
LEMMA FinalizeServers ==
    ASSUME EtcdInv,
           (\E r \in Release : BeginFinalize(r)) \/ (\E p \in Peers : CreateEnrollment(p))
             \/ FinalizeStep \/ RemoveDatabase
    PROVE  \A s \in Server : ServerInv(s)'
<1>0. Types /\ ServerInv(Bootstrap) /\ Finalizing
  BY Parts, Identities
<1> USE <1>0, Identities DEF Types, Typing, HostTyping, RestTyping, host, cluster, records, history, Goto, Return, Save
<1>1. UNCHANGED <<file, token, data, k3s, registered, torn, created>>
  BY DEF BeginFinalize, CreateEnrollment, FinalizeStep, BeginInstall, Deploy, Commit, Seal, Rollback, RemoveDatabase
<1>2. \A x \in Server \ {Bootstrap} : Spares(x)
  <2>1. ASSUME NEW x \in Server \ {Bootstrap} PROVE pc'[x] = pc[x] /\ arg'[x] = arg[x]
    <3>1. CASE FinalizeStep \/ RemoveDatabase
      BY <3>1 DEF FinalizeStep, BeginInstall, Deploy, Commit, Seal, Rollback, RemoveDatabase
    <3>2. CASE \E r \in Release : BeginFinalize(r)
      BY <3>2 DEF BeginFinalize, Begin
    <3>3. CASE \E p \in Peers : CreateEnrollment(p)
      BY <3>3 DEF CreateEnrollment, operation
    <3> QED BY <3>1, <3>2, <3>3
  <2>2. ASSUME NEW x \in Server \ {Bootstrap} PROVE receipt'[x] = receipt[x]
    BY DEF BeginFinalize, CreateEnrollment, FinalizeStep, BeginInstall, Deploy, Commit, Seal, Rollback, RemoveDatabase
  <2> QED BY <1>1, <2>1, <2>2 DEF Spares
<1>3. \/ pc'[Bootstrap] = pc[Bootstrap] /\ arg'[Bootstrap] = arg[Bootstrap]
      \/ pc'[Bootstrap] \in {"idle"} \cup FinalizeLabel
      \/ RemoveDatabase /\ pc'[Bootstrap] = "reset state"
  <2>1. CASE FinalizeStep
    BY <2>1 DEF FinalizeStep, BeginInstall, Deploy, Commit, Seal, Rollback, FinalizeLabel
  <2>2. CASE RemoveDatabase
    BY <2>2 DEF RemoveDatabase
  <2>3. CASE \E r \in Release : BeginFinalize(r)
    BY <2>3 DEF BeginFinalize, Begin, FinalizeLabel
  <2>4. CASE \E p \in Peers : CreateEnrollment(p)
    BY <2>4 DEF CreateEnrollment, operation
  <2> QED BY <2>1, <2>2, <2>3, <2>4
<1>4. \/ receipt'[Bootstrap] = receipt[Bootstrap]
      \/ /\ receipt[Bootstrap].phase = "server-ready"
         /\ receipt'[Bootstrap] = [receipt[Bootstrap] EXCEPT !.phase = "finalized"]
         /\ pc'[Bootstrap] = "idle"
  <2>1. CASE Seal
    <3>1. receipt[Bootstrap].phase = "server-ready"
      BY <2>1 DEF Seal, Finalizing, FinalizeLabel
    <3> QED BY <2>1, <3>1 DEF Seal
  <2> QED BY <2>1 DEF BeginFinalize, CreateEnrollment, FinalizeStep, BeginInstall, Deploy, Commit, Rollback, RemoveDatabase
<1>5. RemoveDatabase => pc[Bootstrap] = "reset database"
  BY DEF RemoveDatabase
<1>6. receipt'[Bootstrap].cluster = receipt[Bootstrap].cluster /\ receipt'[Bootstrap].release = receipt[Bootstrap].release
      /\ (HasReceipt(Bootstrap)' <=> HasReceipt(Bootstrap))
  BY <1>4 DEF HasReceipt
<1>7. Staging(Bootstrap)'
  BY <1>1, <1>3, <1>4, <1>6 DEF ServerInv, Staging, HasReceipt, StageLabel, FinalizeLabel
<1>8. Recorded(Bootstrap)' /\ OneCluster(Bootstrap)' /\ Runs(Bootstrap)' /\ Member(Bootstrap)'
  BY <1>1, <1>4, <1>6 DEF ServerInv, Recorded, OneCluster, Runs, Member
<1>9. Older(Bootstrap)'
  <2>1. pc[Bootstrap] = "idle" /\ pc'[Bootstrap] # "idle" => k3s[Bootstrap] /\ receipt[Bootstrap].phase = "server-ready"
    BY DEF BeginFinalize, CreateEnrollment, operation, FinalizeStep, BeginInstall, Deploy, Commit, Seal, Rollback,
           RemoveDatabase
  <2> QED BY <1>1, <1>3, <1>5, <1>6, <2>1 DEF ServerInv, Older, Member, File
<1>10. Resetting(Bootstrap)'
  BY <1>1, <1>3, <1>5 DEF ServerInv, Resetting, ResetLabel, FinalizeLabel
<1>11. ServerInv(Bootstrap)'
  BY <1>7, <1>8, <1>9, <1>10 DEF ServerInv
<1> QED
  <2>1. \A s \in Server : ServerInv(s)
    BY Parts
  <2>2. created \in Nat /\ created' = created
    BY <1>1
  <2>3. ASSUME NEW s \in Server \ {Bootstrap} PROVE ServerInv(s)'
    BY <1>2, <2>1, <2>2, Elsewhere
  <2> QED BY <1>11, <2>3

LEMMA HostServers ==
    ASSUME NEW s \in Server, EtcdInv,
           FactoryReset(s) \/ ResetStep(s) \/ NodeRegisters(s) \/ Crash(s) \/ Reboot(s) \/ RefusedRepair(s)
    PROVE  ServerInv(s)' /\ \A x \in Server \ {s} : Spares(x)
<1>0. /\ Types /\ ServerInv(s)
      /\ HasReceipt(s) => receipt[s].cluster \in Cluster
  BY Parts, Identities DEF EtcdInv, TypeOK, HasReceipt
<1> USE <1>0, Identities DEF Types, Typing, HostTyping, RestTyping, host, cluster, records, history, Goto, Return, Save
<1>1. CASE FactoryReset(s)
  <2>1. \A x \in Server \ {s} : Spares(x)
    <3>1. /\ file' \in {file, [file EXCEPT ![s] = NoFiles], [file EXCEPT ![s]["unit"] = "none"]}
          /\ token' \in {token, [token EXCEPT ![s] = None]}
      BY <1>1 DEF FactoryReset
    <3>2. ASSUME NEW x \in Server \ {s} PROVE file'[x] = file[x] /\ token'[x] = token[x]
      BY <3>1
    <3>3. ASSUME NEW x \in Server \ {s} PROVE pc'[x] = pc[x] /\ arg'[x] = arg[x] /\ k3s'[x] = k3s[x]
      <4>1. k3s' = [k3s EXCEPT ![s] = FALSE] /\ \E l \in {"reset data", "idle"} : Begin(s, l, NoArg)
        BY <1>1 DEF FactoryReset
      <4> QED BY <4>1 DEF Begin
    <3> QED BY <1>1, <3>2, <3>3 DEF FactoryReset, Spares
  <2>2. /\ pc[s] = "idle" /\ s \in torn' /\ ~k3s'[s]
        /\ UNCHANGED <<data, registered, receipt, created>>
        /\ pc'[s] \in {"reset data", "idle"}
        /\ pc'[s] = "reset data" => file'[s] = NoFiles
        /\ \/ file'[s] = NoFiles
           \/ /\ file'[s] = file[s] \/ file'[s] = [file[s] EXCEPT !["unit"] = "none"]
              /\ token'[s] = token[s]
    <3>1. pc[s] = "idle" /\ s \in torn' /\ ~k3s'[s] /\ UNCHANGED <<data, registered, receipt, created>>
      BY <1>1 DEF FactoryReset
    <3>2. \/ file' = [file EXCEPT ![s] = NoFiles] /\ Begin(s, "reset data", NoArg)
          \/ file' \in {file, [file EXCEPT ![s]["unit"] = "none"]} /\ token' = token /\ Begin(s, "idle", NoArg)
      BY <1>1 DEF FactoryReset
    <3>3. CASE file' = [file EXCEPT ![s] = NoFiles] /\ Begin(s, "reset data", NoArg)
      BY <3>1, <3>3 DEF Begin
    <3>4. CASE file' \in {file, [file EXCEPT ![s]["unit"] = "none"]} /\ token' = token /\ Begin(s, "idle", NoArg)
      BY <3>1, <3>4 DEF Begin
    <3> QED BY <3>2, <3>3, <3>4
  <2>3. /\ \A f \in File : file'[s][f] = "staged" => file[s][f] = "staged"
        /\ file'[s]["config"] = "staged" => file[s]["config"] = "staged" /\ token'[s] = token[s]
    <3>1. CASE file'[s] = NoFiles
      BY <3>1 DEF NoFiles, File
    <3>2. CASE file'[s] = file[s] \/ file'[s] = [file[s] EXCEPT !["unit"] = "none"]
      <4>1. \A f \in File : file'[s][f] \in {file[s][f], "none"}
        BY <3>2
      <4>2. CASE token'[s] = token[s]
        BY <4>1, <4>2 DEF File
      <4> QED BY <2>2, <3>1, <4>2
    <3> QED BY <2>2, <3>1, <3>2
  <2>4. Staging(s)' /\ Runs(s)' /\ Resetting(s)'
    BY <2>2 DEF Staging, StageLabel, Runs, Resetting, ResetLabel
  <2>5. Recorded(s)' /\ OneCluster(s)' /\ Older(s)' /\ Member(s)'
    BY <2>2, <2>3 DEF ServerInv, Recorded, OneCluster, Older, Member, HasReceipt
  <2> QED BY <2>1, <2>4, <2>5 DEF ServerInv
<1>2. CASE RemoveData(s)
  <2>1. \A x \in Server \ {s} : Spares(x)
    BY <1>2 DEF RemoveData, Spares
  <2>2. /\ UNCHANGED <<file, token, k3s, registered, receipt, created, torn>>
        /\ pc[s] = "reset data"
        /\ pc'[s] \in {"reset database", "reset state", "idle"}
        /\ data'[s] = None \/ (data'[s] = data[s] /\ pc'[s] = "idle")
    BY <1>2 DEF RemoveData
  <2>3. s \in torn /\ ~k3s[s] /\ file[s] = NoFiles
    BY <2>2 DEF ServerInv, Resetting, ResetLabel
  <2>4. Staging(s)' /\ Runs(s)' /\ Resetting(s)'
    BY <2>2, <2>3 DEF Staging, StageLabel, Runs, Resetting, ResetLabel
  <2>5. Recorded(s)' /\ OneCluster(s)' /\ Older(s)' /\ Member(s)'
    BY <2>2, <2>3 DEF ServerInv, Recorded, OneCluster, Older, Member, HasReceipt
  <2> QED BY <2>1, <2>4, <2>5 DEF ServerInv
<1>3. CASE RemoveState(s)
  <2>1. \A x \in Server \ {s} : Spares(x)
    BY <1>3 DEF RemoveState, Spares
  <2>2. /\ UNCHANGED <<file, token, data, k3s, registered, created>>
        /\ pc[s] = "reset state" /\ pc'[s] = "idle"
        /\ \/ receipt'[s] = NoReceipt
           \/ receipt'[s] = receipt[s] /\ torn' = torn
    BY <1>3 DEF RemoveState
  <2>3. s \in torn /\ ~k3s[s] /\ file[s] = NoFiles /\ data[s] = None
    BY <2>2 DEF ServerInv, Resetting, ResetLabel
  <2>4. \A f \in File : file[s][f] = "none"
    BY <2>3 DEF NoFiles
  <2>5. Staging(s)' /\ Runs(s)' /\ Resetting(s)'
    BY <2>2, <2>3 DEF Staging, StageLabel, Runs, Resetting, ResetLabel
  <2>6. receipt'[s].phase = "none" \/ (receipt'[s] = receipt[s] /\ s \in torn')
    <3>1. NoReceipt.phase = "none"
      BY DEF NoReceipt
    <3>2. CASE receipt'[s] = NoReceipt
      BY <3>1, <3>2
    <3> QED BY <2>2, <2>3, <3>2
  <2>7. Recorded(s)'
    BY <2>2, <2>3, <2>4, <2>6 DEF ServerInv, Recorded, HasReceipt, File
  <2>8. OneCluster(s)' /\ Older(s)'
    BY <2>2, <2>3 DEF OneCluster, Older
  <2>9. Member(s)'
    BY <2>6 DEF Member
  <2> QED BY <2>1, <2>5, <2>7, <2>8, <2>9 DEF ServerInv
<1>4. CASE NodeRegisters(s)
  <2>1. \A x \in Server \ {s} : Spares(x)
    BY <1>4 DEF NodeRegisters, operation, Spares
  <2>2. /\ UNCHANGED <<host, receipt, created, pc, arg, torn>>
        /\ registered'[s] = data[s]
    BY <1>4 DEF NodeRegisters, operation
  <2>3. Staging(s)' /\ Recorded(s)' /\ OneCluster(s)' /\ Older(s)' /\ Runs(s)' /\ Resetting(s)'
    <3>1. ServerInv(s) /\ UNCHANGED <<file, token, data, k3s, receipt, created, pc, arg, torn>>
      BY <2>2
    <3>2. Staging(s)' /\ Recorded(s)'
      BY <3>1 DEF ServerInv, Staging, Recorded, HasReceipt
    <3>3. OneCluster(s)' /\ Older(s)' /\ Runs(s)' /\ Resetting(s)'
      BY <3>1 DEF ServerInv, OneCluster, Older, Runs, Resetting, HasReceipt
    <3> QED BY <3>2, <3>3
  <2>4. Member(s)'
    BY <2>2 DEF ServerInv, Member
  <2> QED BY <2>1, <2>3, <2>4 DEF ServerInv
<1>5. CASE Crash(s)
  <2>1. \A x \in Server \ {s} : Spares(x)
    BY <1>5 DEF Crash, Spares
  <2>2. UNCHANGED <<host, registered, receipt, created, torn>> /\ pc'[s] = "idle"
    BY <1>5 DEF Crash
  <2>3. Staging(s)' /\ Resetting(s)'
    BY <2>2 DEF Staging, StageLabel, Resetting, ResetLabel
  <2>4. Recorded(s)' /\ OneCluster(s)' /\ Older(s)' /\ Runs(s)' /\ Member(s)'
    BY <2>2 DEF ServerInv, Recorded, OneCluster, Older, Runs, Member, HasReceipt
  <2> QED BY <2>1, <2>3, <2>4 DEF ServerInv
<1>6. CASE Reboot(s)
  <2>1. \A x \in Server \ {s} : Spares(x)
    BY <1>6 DEF Reboot, StartK3s, Spares
  <2>2. /\ UNCHANGED <<file, token, registered, receipt, created, torn>> /\ pc'[s] = "idle"
        /\ \/ k3s'[s] = TRUE /\ data'[s] = DataOf(s) /\ CanStart(s)
           \/ k3s'[s] = FALSE /\ data'[s] = data[s]
    BY <1>6 DEF Reboot, StartK3s
  <2>3. Staging(s)' /\ Resetting(s)'
    BY <2>2 DEF Staging, StageLabel, Resetting, ResetLabel
  <2>4. CASE k3s'[s] = FALSE /\ data'[s] = data[s]
    <3>1. Recorded(s)' /\ OneCluster(s)' /\ Older(s)' /\ Runs(s)' /\ Member(s)'
      BY <2>2, <2>4 DEF ServerInv, Recorded, OneCluster, Older, Runs, Member, HasReceipt
    <3> QED BY <2>1, <2>3, <3>1 DEF ServerInv
  <2>5. CASE data'[s] = DataOf(s) /\ CanStart(s)
    <3>1. \/ data[s] # None /\ data'[s] = data[s]
          \/ data[s] = None /\ file[s]["config"] = "old" /\ data'[s] = Old
          \/ data[s] = None /\ HasReceipt(s) /\ data'[s] = receipt[s].cluster
      <4>1. file[s]["config"] \in {"old", "staged"}
        BY <2>5 DEF CanStart, File
      <4>2. file[s]["config"] = "staged" =>
              /\ HasReceipt(s)
              /\ s # Bootstrap => token[s] = receipt[s].cluster
        BY DEF ServerInv, Recorded, File
      <4> QED BY <2>5, <4>1, <4>2 DEF DataOf
    <3>2. Recorded(s)' /\ OneCluster(s)' /\ Older(s)'
      BY <2>2, <3>1 DEF ServerInv, Recorded, OneCluster, Older, HasReceipt
    <3>3. Runs(s)'
      BY <3>1 DEF Runs
    <3>4. Member(s)'
      BY <2>2, <3>1 DEF ServerInv, Member, HasReceipt
    <3> QED BY <2>1, <2>3, <3>2, <3>3, <3>4 DEF ServerInv
  <2> QED BY <2>2, <2>4, <2>5
<1>7. CASE RefusedRepair(s)
  <2>1. \A x \in Server : Spares(x)
    BY <1>7 DEF RefusedRepair, operation, Spares
  <2>2. created' = created /\ created \in Nat
    BY <1>7 DEF RefusedRepair
  <2> QED BY <2>1, <2>2, Elsewhere
<1> QED BY <1>1, <1>2, <1>3, <1>4, <1>5, <1>6, <1>7 DEF ResetStep

\* All servers, whatever the step.
LEMMA NextServers == EtcdInv /\ Next => \A s \in Server : ServerInv(s)'
<1> SUFFICES ASSUME EtcdInv, Next PROVE \A s \in Server : ServerInv(s)'
  OBVIOUS
<1>0. Types /\ Enrolled /\ \A s \in Server : ServerInv(s)
  BY Parts
<1>1. created \in Nat /\ created' \in Nat /\ created =< created'
  BY <1>0, NextTypesRecords DEF Types
<1>2. ASSUME NEW s \in Server, ServerInv(s)' /\ \A x \in Server \ {s} : Spares(x)
      PROVE  \A x \in Server : ServerInv(x)'
  BY <1>0, <1>1, <1>2, Elsewhere
<1>3. ASSUME NEW r \in Release, StageBootstrap(r)
      PROVE  \A x \in Server : ServerInv(x)'
  BY <1>2, <1>3, StageServers, Identities DEF StageBootstrap
<1>4. ASSUME NEW p \in Peers, NEW r \in Release, StagePeer(p, r)
      PROVE  \A x \in Server : ServerInv(x)'
  <2>1. issued[p] \in Enrollment /\ issued[p].cluster \in 0..created
    <3>1. issued[p] # NoArg
      BY <1>4, Identities DEF StagePeer, NoArg
    <3> QED BY <1>0, <3>1 DEF Types, RestTyping, Enrolled
  <2>2. issued[p].cluster \in Cluster /\ issued[p].cluster \in 1..created
    BY <1>1, <2>1 DEF Enrollment, Cluster
  <2>3. p \in Server /\ p # Bootstrap
    BY Identities
  <2>4. HasReceipt(p) => issued[p].cluster = receipt[p].cluster
    BY <1>4 DEF StagePeer, HasReceipt
  <2>5. Stage(p, r, issued[p].cluster)
    BY <1>4 DEF StagePeer
  <2> QED BY <1>2, <2>2, <2>3, <2>4, <2>5, StageServers
<1>5. ASSUME NEW s \in Server, StageStep(s)
      PROVE  \A x \in Server : ServerInv(x)'
  BY <1>2, <1>5, StageStepServers
<1>6. ASSUME NEW s \in Server,
             FactoryReset(s) \/ ResetStep(s) \/ NodeRegisters(s) \/ Crash(s) \/ Reboot(s) \/ RefusedRepair(s)
      PROVE  \A x \in Server : ServerInv(x)'
  BY <1>2, <1>6, HostServers
<1> QED BY <1>3, <1>4, <1>5, <1>6, FinalizeServers DEF Next

\* What a receipt of each kind of server may say.
Phases(s) ==
    /\ receipt[s].phase = "none" <=> receipt[s] = NoReceipt
    /\ receipt[s].phase # "none" => receipt[s].cluster \in 1..created
    /\ s # Bootstrap => Operation(pc[s]) # "finalize" /\ receipt[s].phase \notin {"server-ready", "finalized"}


\* How a step may change a receipt.
Renewed(s) == HasReceipt(s) /\ \E r \in Release : receipt'[s] = [receipt[s] EXCEPT !.release = r]
Prepared(s) ==
    receipt'[s].phase = "prepared" /\ receipt'[s].cluster \in 1..created'
Advanced(s) ==
    /\ HasReceipt(s)
    /\ \/ s = Bootstrap /\ receipt'[s] = [receipt[s] EXCEPT !.phase = "server-ready"]
       \/ s = Bootstrap /\ receipt'[s] = [receipt[s] EXCEPT !.phase = "finalized"]
       \/ s # Bootstrap /\ receipt'[s] = [receipt[s] EXCEPT !.phase = "joined"]
ReceiptStep(s) ==
    \/ receipt'[s] = receipt[s]
    \/ Renewed(s) \/ Prepared(s) \/ Advanced(s)
    \/ receipt'[s] = NoReceipt

LEMMA NextReceipts == EtcdInv /\ Next => \A s \in Server : ReceiptStep(s)
<1> SUFFICES ASSUME EtcdInv, Next PROVE \A s \in Server : ReceiptStep(s)
  OBVIOUS
<1>0. Types /\ Finalizing /\ (\A s \in Server : ServerInv(s)) /\ created \in Nat
  BY Parts DEF Types
<1> USE <1>0, Identities DEF Types, Typing, HostTyping, RestTyping, records, Save
<1>1. receipt' = receipt => \A s \in Server : ReceiptStep(s)
  BY DEF ReceiptStep
<1>2. ASSUME NEW s \in Server, NEW r \in Release, NEW c, Stage(s, r, c)
      PROVE  \A x \in Server : ReceiptStep(x)
  <2>1. \/ receipt' = receipt
        \/ HasReceipt(s) /\ receipt' = [receipt EXCEPT ![s] = [receipt[s] EXCEPT !.release = r]]
    BY <1>2 DEF Stage, StageFirst, StageAgain, HasReceipt
  <2> QED BY <1>1, <2>1 DEF ReceiptStep, Renewed
<1>3. CASE \E r \in Release : StageBootstrap(r) \/ BeginFinalize(r)
  BY <1>1, <1>2, <1>3 DEF StageBootstrap, BeginFinalize
<1>4. CASE \E p \in Peers : CreateEnrollment(p) \/ \E r \in Release : StagePeer(p, r)
  BY <1>1, <1>2, <1>4 DEF StagePeer, CreateEnrollment
<1>5. CASE FinalizeStep \/ RemoveDatabase
  <2>1. CASE Seal
    <3>1. HasReceipt(Bootstrap)
      BY <2>1 DEF Seal, Finalizing, FinalizeLabel, HasReceipt
    <3>2. receipt' = receipt \/ receipt' = [receipt EXCEPT ![Bootstrap] = [receipt[Bootstrap] EXCEPT !.phase = "finalized"]]
      BY <2>1 DEF Seal
    <3>3. receipt' # receipt => Advanced(Bootstrap) /\ \A x \in Server \ {Bootstrap} : receipt'[x] = receipt[x]
      BY <3>1, <3>2 DEF Advanced
    <3> QED BY <1>1, <3>3 DEF ReceiptStep
  <2> QED BY <1>1, <1>5, <2>1 DEF FinalizeStep, BeginInstall, Deploy, Commit, Rollback, RemoveDatabase
<1>6. ASSUME NEW s \in Server, StageStep(s)
      PROVE  \A x \in Server : ReceiptStep(x)
  <2>1. CASE SavePrepared(s)
    <3> DEFINE id == IF s = Bootstrap THEN created + 1 ELSE arg[s].cluster
               r == [phase |-> "prepared", cluster |-> id, release |-> arg[s].release]
    <3>1. CASE receipt' = [receipt EXCEPT ![s] = r] /\ created' = IF s = Bootstrap THEN id ELSE created
      <4>1. s # Bootstrap => arg[s].cluster \in 1..created
        BY <2>1 DEF SavePrepared, ServerInv, Staging, StageLabel
      <4>2. id \in 1..created'
        BY <3>1, <4>1
      <4>3. receipt'[s].phase = "prepared" /\ receipt'[s].cluster = id
        BY <3>1
      <4> QED BY <3>1, <4>2, <4>3 DEF ReceiptStep, Prepared
    <3> QED BY <1>1, <2>1, <3>1 DEF SavePrepared
  <2>2. CASE Record(s)
    <3>1. HasReceipt(s)
      BY <2>2 DEF Record, ServerInv, Staging, StageLabel, HasReceipt
    <3>2. \/ receipt' = receipt
          \/ s = Bootstrap /\ receipt' = [receipt EXCEPT ![s] = [receipt[s] EXCEPT !.phase = "server-ready"]]
          \/ s # Bootstrap /\ receipt' = [receipt EXCEPT ![s] = [receipt[s] EXCEPT !.phase = "joined"]]
      BY <2>2 DEF Record
    <3>3. (receipt' = receipt \/ Advanced(s)) /\ \A x \in Server \ {s} : receipt'[x] = receipt[x]
      <4>1. ASSUME NEW p, receipt' = [receipt EXCEPT ![s] = [receipt[s] EXCEPT !.phase = p]]
            PROVE  /\ receipt'[s] = [receipt[s] EXCEPT !.phase = p]
                   /\ \A x \in Server \ {s} : receipt'[x] = receipt[x]
        BY <4>1
      <4> QED BY <3>1, <3>2, <4>1 DEF Advanced
    <3> QED BY <1>1, <3>3 DEF ReceiptStep
  <2> QED BY <1>1, <1>6, <2>1, <2>2 DEF StageStep, WriteConfig, WriteUnit, InstallBinary, EnableAndStart, Preload
<1>7. ASSUME NEW s \in Server, ResetStep(s)
      PROVE  \A x \in Server : ReceiptStep(x)
  BY <1>1, <1>7 DEF ResetStep, RemoveData, RemoveState, ReceiptStep
<1>8. ASSUME NEW s \in Server,
             FactoryReset(s) \/ NodeRegisters(s) \/ Crash(s) \/ Reboot(s) \/ RefusedRepair(s)
      PROVE  \A x \in Server : ReceiptStep(x)
  BY <1>1, <1>8 DEF FactoryReset, NodeRegisters, Crash, Reboot, RefusedRepair
<1> QED BY <1>3, <1>4, <1>5, <1>6, <1>7, <1>8 DEF Next

\* Only the bootstrap server runs a finalize.
LEMMA NextFinalizes == EtcdInv /\ Next =>
    \A s \in Server \ {Bootstrap} : pc'[s] \in FinalizeLabel => pc[s] \in FinalizeLabel
<1> SUFFICES ASSUME EtcdInv, Next, NEW x \in Server \ {Bootstrap}
             PROVE  pc'[x] = pc[x] \/ pc'[x] \notin FinalizeLabel
  OBVIOUS
<1>0. Types
  BY Parts
<1> USE <1>0, Identities DEF Types, RestTyping, operation, Goto, Return, Begin, FinalizeLabel
<1>1. ASSUME NEW s \in Server, NEW r \in Release, NEW c, Stage(s, r, c)
      PROVE  pc'[x] = pc[x] \/ pc'[x] \notin FinalizeLabel
  BY <1>1 DEF Stage, StageFirst, StageAgain
<1>2. CASE \E r \in Release : StageBootstrap(r) \/ BeginFinalize(r)
  BY <1>1, <1>2 DEF StageBootstrap, BeginFinalize
<1>3. CASE \E p \in Peers : CreateEnrollment(p) \/ \E r \in Release : StagePeer(p, r)
  BY <1>1, <1>3 DEF StagePeer, CreateEnrollment
<1>4. CASE FinalizeStep \/ RemoveDatabase
  BY <1>4 DEF FinalizeStep, BeginInstall, Deploy, Commit, Seal, Rollback, RemoveDatabase
<1>5. ASSUME NEW s \in Server, StageStep(s)
      PROVE  pc'[x] = pc[x] \/ pc'[x] \notin FinalizeLabel
  BY <1>5 DEF StageStep, SavePrepared, WriteConfig, WriteUnit, InstallBinary, EnableAndStart, Preload, Record, Write
<1>6. ASSUME NEW s \in Server,
             FactoryReset(s) \/ ResetStep(s) \/ NodeRegisters(s) \/ Crash(s) \/ Reboot(s) \/ RefusedRepair(s)
      PROVE  pc'[x] = pc[x] \/ pc'[x] \notin FinalizeLabel
  BY <1>6 DEF FactoryReset, ResetStep, RemoveData, RemoveState, NodeRegisters, Crash, Reboot, RefusedRepair
<1> QED BY <1>2, <1>3, <1>4, <1>5, <1>6 DEF Next

LEMMA NextPhases == EtcdInv /\ Next => \A s \in Server : Phases(s)'
<1> SUFFICES ASSUME EtcdInv, Next, NEW s \in Server PROVE Phases(s)'
  OBVIOUS
<1>0. Types /\ Phases(s)
  BY Parts DEF EtcdInv, TypeOK, Phases
<1> USE <1>0, Identities DEF Types, Typing
<1>1. created' \in Nat /\ created =< created' /\ created \in Nat
  BY NextTypesRecords
<1>2. s # Bootstrap => Operation(pc'[s]) # "finalize"
  BY NextFinalizes DEF Phases, Operation, StageLabel, FinalizeLabel
<1>3. NoReceipt.phase = "none"
  BY DEF NoReceipt
<1>4. CASE receipt'[s] = receipt[s] \/ receipt'[s] = NoReceipt
  BY <1>1, <1>2, <1>3, <1>4 DEF Phases
<1>5. CASE Renewed(s)
  <2>1. receipt'[s].phase = receipt[s].phase /\ receipt'[s].cluster = receipt[s].cluster
    BY <1>5 DEF Renewed
  <2> QED BY <1>1, <1>2, <1>3, <1>5, <2>1 DEF Phases, Renewed, HasReceipt
<1>6. CASE Prepared(s)
  BY <1>2, <1>3, <1>6 DEF Phases, Prepared
<1>7. CASE Advanced(s)
  <2>1. /\ receipt'[s].cluster = receipt[s].cluster
        /\ receipt'[s].phase \in IF s = Bootstrap THEN {"server-ready", "finalized"} ELSE {"joined"}
    BY <1>7 DEF Advanced
  <2> QED BY <1>1, <1>2, <1>3, <1>7, <2>1 DEF Phases, Advanced, HasReceipt
<1> QED BY <1>4, <1>5, <1>6, <1>7, NextReceipts DEF ReceiptStep

LEMMA NextEnrolled == EtcdInv /\ Next => Enrolled'
<1> SUFFICES ASSUME EtcdInv, Next PROVE Enrolled'
  OBVIOUS
<1>0. Types /\ Enrolled /\ (\A s \in Server : Phases(s))
  BY Parts DEF EtcdInv, TypeOK, Phases
<1>1. created' \in Nat /\ created =< created' /\ created \in Nat
  BY <1>0, NextTypesRecords DEF Types
<1>2. issued' = issued => Enrolled'
  BY <1>0, <1>1 DEF Enrolled
<1>3. ASSUME NEW p \in Peers, CreateEnrollment(p) PROVE Enrolled'
  <2>1. receipt[Bootstrap].cluster \in 1..created /\ created' = created
    BY <1>0, <1>3, Identities DEF CreateEnrollment, Phases
  <2> QED BY <1>0, <1>1, <1>3, <2>1 DEF CreateEnrollment, Enrolled, Types, RestTyping
<1> QED BY <1>2, <1>3
      DEF Next, StageBootstrap, StagePeer, Stage, StageFirst, StageAgain, BeginFinalize, FinalizeStep,
          BeginInstall, Deploy, Commit, Seal, Rollback, RemoveDatabase, StageStep, SavePrepared, WriteConfig,
          WriteUnit, InstallBinary, EnableAndStart, Preload, Record, FactoryReset, ResetStep, RemoveData,
          RemoveState, NodeRegisters, Crash, Reboot, RefusedRepair, records

\* The steps that leave the appliance's own records, its first server and the
\* members alone.
LEMMA Untouched ==
    ASSUME EtcdInv, UNCHANGED <<installed, database, left>>,
           receipt'[Bootstrap] = receipt[Bootstrap],
           \/ pc'[Bootstrap] = pc[Bootstrap] /\ arg'[Bootstrap] = arg[Bootstrap]
           \/ pc'[Bootstrap] \in {"idle", "reset data", "reset database"},
           \A s \in Server \ left :
               Final => data'[s] = data[s] /\ pc'[s] # "reset data"
    PROVE  Finalizing'
<1>0. Finalizing
  BY Parts
<1>1. Final' => Final
  BY DEF Final, FinalizeLabel
<1> QED BY <1>0, <1>1 DEF Finalizing, FinalizeLabel, StageLabel

\* Nothing is installed and no finalize runs.
LEMMA Uninstalled ==
    ASSUME installed' = NotInstalled, pc'[Bootstrap] \notin FinalizeLabel, database' # "committed",
           pc'[Bootstrap] = "reset state" => database' = "none"
    PROVE  Finalizing'
BY DEF Finalizing, Final

\* While an appliance is installed or a finalize runs, its members have data.
LEMMA MembersHaveData ==
    ASSUME EtcdInv, Final
    PROVE  /\ HasReceipt(Bootstrap) /\ receipt[Bootstrap].phase \in {"server-ready", "finalized"}
           /\ pc[Bootstrap] \notin StageLabel
           /\ \A s \in Server \ left : data[s] \in Cluster /\ HasReceipt(s)
<1>0. Types /\ Finalizing /\ (\A s \in Server : ServerInv(s)) /\ Phases(Bootstrap)
  BY Parts, Identities DEF EtcdInv, TypeOK, Phases
<1>1. HasReceipt(Bootstrap) /\ receipt[Bootstrap].phase \in {"server-ready", "finalized"}
  BY <1>0 DEF Final, Finalizing, HasReceipt
<1>2. receipt[Bootstrap].cluster \in Cluster
  BY <1>0, <1>1, Identities DEF Phases, Types, HasReceipt
<1>3. pc[Bootstrap] \notin StageLabel
  BY <1>0, Identities DEF Final, Finalizing, StageLabel, FinalizeLabel
<1> QED BY <1>0, <1>1, <1>2, <1>3 DEF Finalizing, ServerInv, OneCluster

LEMMA NextFinalizing == EtcdInv /\ Next => Finalizing'
<1> SUFFICES ASSUME EtcdInv, Next PROVE Finalizing'
  OBVIOUS
<1>0. Types /\ Finalizing /\ (\A s \in Server : ServerInv(s)) /\ \A s \in Server : Phases(s)
  BY Parts DEF EtcdInv, TypeOK, Phases
<1>p. pc[Bootstrap] \notin FinalizeLabel /\ installed = NotInstalled =>
        ~Final /\ database # "committed"
  BY <1>0 DEF Final, Finalizing
<1>m. Final => \A x \in Server \ left : pc[x] # "reset data"
  BY <1>0 DEF Finalizing
<1> USE <1>0, Identities DEF Types, Typing, HostTyping, RestTyping, host, cluster, records, history, Goto, Return, Save
<1>1. ASSUME NEW s \in Server, NEW r \in Release, NEW c, Stage(s, r, c)
      PROVE  Finalizing'
  <2>0. UNCHANGED <<installed, database, left>> /\ pc'[s] \in {"prepare", "config", "idle"} /\ pc[s] = "idle"
        /\ \A x \in Server \ {s} : pc'[x] = pc[x] /\ arg'[x] = arg[x] /\ receipt'[x] = receipt[x] /\ data'[x] = data[x]
    <3>1. CASE StageFirst(s, r, c)
      BY <3>1 DEF StageFirst, Begin, ClearLeftover, Admits
    <3>2. CASE StageAgain(s, r, c)
      BY <3>2 DEF StageAgain, Begin, Admits
    <3> QED BY <1>1, <3>1, <3>2 DEF Stage
  <2>1. CASE s = Bootstrap
    <3>1. ~Final
      <4>1. CASE StageFirst(s, r, c)
        BY <2>1, <4>1, MembersHaveData DEF StageFirst, HasReceipt
      <4>2. CASE StageAgain(s, r, c)
        <5>1. installed = NotInstalled
          BY <2>1, <4>2 DEF StageAgain, MayStage, ResumesFinalized
        <5> QED BY <2>0, <2>1, <5>1 DEF Final, FinalizeLabel
      <4> QED BY <1>1, <4>1, <4>2 DEF Stage
    <3>2. installed' = NotInstalled /\ database' # "committed"
      BY <2>0, <3>1, <1>p DEF Final
    <3> QED BY <2>0, <2>1, <3>2, Uninstalled DEF FinalizeLabel
  <2>2. CASE s # Bootstrap
    <3>1. ASSUME Final, s \notin left PROVE data'[s] = data[s]
      <4>1. HasReceipt(s)
        BY <3>1, MembersHaveData
      <4> QED BY <1>1, <4>1 DEF Stage, StageFirst, StageAgain, HasReceipt
    <3>2. \A x \in Server \ left : Final => data'[x] = data[x] /\ pc'[x] # "reset data"
      BY <2>0, <3>1 DEF Finalizing
    <3> QED BY <2>0, <2>2, <3>2, Untouched
  <2> QED BY <2>1, <2>2
<1>2. ASSUME NEW s \in Server, StageStep(s)
      PROVE  Finalizing'
  <2>0. /\ UNCHANGED <<installed, database, left>>
        /\ pc[s] \in StageLabel /\ pc'[s] \in StageLabel \cup {"idle"}
        /\ \A x \in Server \ {s} : pc'[x] = pc[x] /\ arg'[x] = arg[x] /\ receipt'[x] = receipt[x] /\ data'[x] = data[x]
        /\ data'[s] = data[s] \/ data'[s] = DataOf(s)
    <3>1. CASE SavePrepared(s)
      BY <3>1 DEF SavePrepared, StageLabel
    <3>2. CASE WriteConfig(s) \/ WriteUnit(s) \/ InstallBinary(s)
      BY <3>2 DEF WriteConfig, WriteUnit, InstallBinary, Write, StageLabel
    <3>3. CASE EnableAndStart(s)
      BY <3>3 DEF EnableAndStart, StartK3s, StageLabel
    <3>4. CASE Preload(s) \/ Record(s)
      BY <3>4 DEF Preload, Record, StageLabel
    <3> QED BY <1>2, <3>1, <3>2, <3>3, <3>4 DEF StageStep
  <2>1. CASE s = Bootstrap
    <3>1. installed' = NotInstalled /\ database' # "committed" /\ pc'[Bootstrap] \notin FinalizeLabel
          /\ pc'[Bootstrap] # "reset state"
      BY <2>0, <2>1, <1>p DEF Finalizing, StageLabel, FinalizeLabel
    <3> QED BY <3>1, Uninstalled
  <2>2. CASE s # Bootstrap
    <3>1. ASSUME Final, s \notin left PROVE data'[s] = data[s]
      BY <2>0, <3>1, MembersHaveData DEF DataOf
    <3>2. ASSUME NEW x \in Server \ left, Final PROVE data'[x] = data[x] /\ pc'[x] # "reset data"
      <4>1. CASE x = s
        BY <2>0, <3>1, <3>2, <4>1 DEF StageLabel
      <4>2. CASE x # s
        BY <2>0, <3>2, <4>2, <1>m
      <4> QED BY <4>1, <4>2
    <3> QED BY <2>0, <2>2, <3>2, Untouched
  <2> QED BY <2>1, <2>2
<1>3. ASSUME NEW r \in Release, BeginFinalize(r)
      PROVE  Finalizing'
  <2>1. /\ UNCHANGED <<installed, database, receipt, data, k3s>> /\ left' = {}
        /\ pc'[Bootstrap] = "install" /\ arg'[Bootstrap].release = r
        /\ receipt[Bootstrap].phase = "server-ready" /\ receipt[Bootstrap].release = r
        /\ \A s \in Server : k3s[s] /\ data[s] = data[Bootstrap]
        /\ registered[Bootstrap] = data[Bootstrap]
        /\ \A s \in Server \ {Bootstrap} : pc'[s] = pc[s]
    BY <1>3 DEF BeginFinalize, Begin, EndpointsAnswer, NodesReady
  <2>2. data[Bootstrap] = receipt[Bootstrap].cluster
    <3>1. data[Bootstrap] \in Cluster
      BY <2>1 DEF ServerInv, Runs
    <3> QED BY <3>1 DEF ServerInv, OneCluster
  <2>3. ASSUME NEW s \in Server PROVE pc'[s] # "reset data"
    <3>1. pc[s] # "reset data"
      BY <2>1 DEF ServerInv, Resetting, ResetLabel
    <3> QED BY <2>1, <3>1
  <2> QED BY <2>1, <2>2, <2>3 DEF Finalizing, StageLabel, FinalizeLabel
<1>4. ASSUME NEW p \in Peers, CreateEnrollment(p)
      PROVE  Finalizing'
  BY <1>4, Untouched DEF CreateEnrollment, operation, Finalizing
<1>5. CASE FinalizeStep
  <2>0. /\ pc[Bootstrap] \in FinalizeLabel /\ Final
        /\ pc'[Bootstrap] \in FinalizeLabel \cup {"idle"}
        /\ pc'[Bootstrap] \in FinalizeLabel => arg'[Bootstrap] = arg[Bootstrap]
        /\ UNCHANGED <<data, left>>
        /\ receipt'[Bootstrap].cluster = receipt[Bootstrap].cluster
        /\ receipt'[Bootstrap].release = receipt[Bootstrap].release
        /\ \A x \in Server \ {Bootstrap} : pc'[x] = pc[x]
    <3>1. CASE BeginInstall \/ Deploy \/ Rollback
      <4>1. CASE BeginInstall
        BY <4>1 DEF BeginInstall, FinalizeLabel, Final
      <4>2. CASE Deploy
        BY <4>2 DEF Deploy, FinalizeLabel, Final
      <4>3. CASE Rollback
        BY <4>3 DEF Rollback, FinalizeLabel, Final
      <4> QED BY <3>1, <4>1, <4>2, <4>3
    <3>2. CASE Commit
      BY <3>2 DEF Commit, FinalizeLabel, Final
    <3>3. CASE Seal
      BY <3>3 DEF Seal, FinalizeLabel, Final
    <3> QED BY <1>5, <3>1, <3>2, <3>3 DEF FinalizeStep
  <2>1. \A x \in Server \ left : data'[x] = receipt'[Bootstrap].cluster /\ pc'[x] # "reset data"
    BY <2>0 DEF Finalizing, FinalizeLabel
  <2>2. /\ pc'[Bootstrap] \notin StageLabel \cup {"reset state"}
        /\ receipt[Bootstrap].phase = "server-ready" /\ arg[Bootstrap].release = receipt[Bootstrap].release
    BY <2>0 DEF Finalizing, FinalizeLabel, StageLabel
  <2>3. CASE BeginInstall
    <3>1. /\ UNCHANGED <<receipt, installed>>
          /\ pc'[Bootstrap] \in {"deploy", "idle"} /\ (pc'[Bootstrap] = "deploy" => installed = NotInstalled)
          /\ installed # NotInstalled => database' = database
          /\ database' \in {database, "none"}
      BY <2>3 DEF BeginInstall, Discarded, Refused
    <3> QED BY <2>0, <2>1, <2>2, <3>1 DEF Finalizing
  <2>4. CASE Deploy
    <3>1. /\ UNCHANGED <<receipt, installed>> /\ pc[Bootstrap] = "deploy"
          /\ pc'[Bootstrap] \in {"commit", "rollback"}
          /\ database' \in {"uncommitted", database}
      BY <2>4 DEF Deploy
    <3> QED BY <2>0, <2>1, <2>2, <3>1 DEF Finalizing
  <2>5. CASE Commit
    <3>1. CASE /\ installed' = [cluster |-> receipt[Bootstrap].cluster, release |-> arg[Bootstrap].release]
               /\ pc'[Bootstrap] = "seal"
      <4>1. receipt' = receipt /\ installed' # NotInstalled
        <5>1. receipt[Bootstrap].cluster # None
          BY <2>0, MembersHaveData DEF Phases, HasReceipt
        <5> QED BY <2>5, <3>1, <5>1 DEF Commit, NotInstalled
      <4> QED BY <2>0, <2>1, <2>2, <3>1, <4>1 DEF Finalizing
    <3>2. CASE UNCHANGED <<installed, database>> /\ pc'[Bootstrap] = "rollback"
      <4>1. receipt' = receipt /\ pc[Bootstrap] = "commit"
        BY <2>5 DEF Commit
      <4> QED BY <2>0, <2>1, <2>2, <3>2, <4>1 DEF Finalizing
    <3> QED BY <2>5, <3>1, <3>2 DEF Commit
  <2>6. CASE Seal
    <3>1. /\ UNCHANGED <<installed, database>> /\ pc'[Bootstrap] = "idle"
          /\ receipt'[Bootstrap].phase \in {"server-ready", "finalized"}
      BY <2>2, <2>6 DEF Seal
    <3> QED BY <2>0, <2>1, <2>2, <3>1 DEF Finalizing, FinalizeLabel
  <2>7. CASE Rollback
    <3>1. /\ UNCHANGED <<receipt, installed>> /\ pc[Bootstrap] = "rollback" /\ pc'[Bootstrap] = "idle"
          /\ database' \in {"none", database}
      BY <2>7 DEF Rollback
    <3> QED BY <2>0, <2>1, <2>2, <3>1 DEF Finalizing, FinalizeLabel
  <2> QED BY <1>5, <2>3, <2>4, <2>5, <2>6, <2>7 DEF FinalizeStep
<1>6. CASE RemoveDatabase
  <2>1. /\ UNCHANGED <<installed, receipt, data, left>> /\ pc[Bootstrap] = "reset database"
        /\ pc'[Bootstrap] \in {"reset state", "idle"}
        /\ pc'[Bootstrap] = "reset state" => database' = "none"
        /\ database' \in {"none", database}
        /\ \A x \in Server \ {Bootstrap} : pc'[x] = pc[x]
    BY <1>6 DEF RemoveDatabase
  <2>2. Final' <=> Final
    BY <2>1 DEF Final, FinalizeLabel
  <2>3. ASSUME NEW x \in Server \ left, Final
        PROVE  data'[x] = receipt'[Bootstrap].cluster /\ pc'[x] # "reset data"
    <3>1. data[x] = receipt[Bootstrap].cluster /\ pc[x] # "reset data"
      BY <2>3 DEF Finalizing
    <3>2. data' = data /\ receipt' = receipt
      BY <2>1
    <3>3. pc'[x] # "reset data"
      BY <2>1, <3>1
    <3> QED BY <3>1, <3>2, <3>3
  <2>4. database' = "committed" => installed # NotInstalled
    BY <2>1 DEF Finalizing
  <2> QED BY <2>1, <2>2, <2>3, <2>4 DEF Finalizing, FinalizeLabel, StageLabel
<1>7. ASSUME NEW s \in Server, FactoryReset(s)
      PROVE  Finalizing'
  <2>1. /\ UNCHANGED <<installed, database, receipt, data>> /\ pc[s] = "idle"
        /\ pc'[s] \in {"reset data", "idle"}
        /\ \A x \in Server \ {s} : pc'[x] = pc[x] /\ arg'[x] = arg[x]
        /\ Final => left' = left \cup {s}
    <3>1. UNCHANGED <<installed, database, receipt, data>> /\ pc[s] = "idle"
          /\ \E l \in {"reset data", "idle"} : Begin(s, l, NoArg)
      BY <1>7 DEF FactoryReset
    <3>2. Final => Operation(pc[Bootstrap]) = "finalize" \/ installed # NotInstalled
      BY DEF Final, Operation, FinalizeLabel, StageLabel
    <3>3. Final => left' = left \cup {s}
      BY <1>7, <3>2 DEF FactoryReset
    <3> QED BY <3>1, <3>3 DEF Begin
  <2>2. CASE ~Final
    <3>1. installed = NotInstalled /\ database # "committed" /\ pc'[Bootstrap] \notin FinalizeLabel
      BY <2>1, <2>2, <1>p DEF Final, FinalizeLabel
    <3> QED BY <2>1, <3>1, Uninstalled DEF Finalizing
  <2>3. CASE Final
    <3>1. \A x \in Server \ left' : data'[x] = receipt'[Bootstrap].cluster /\ pc'[x] # "reset data"
      BY <2>1, <2>3 DEF Finalizing
    <3>2. (pc'[Bootstrap] = pc[Bootstrap] /\ arg'[Bootstrap] = arg[Bootstrap]) \/ pc'[Bootstrap] \in {"reset data", "idle"}
      BY <2>1
    <3> QED BY <2>1, <2>3, <3>1, <3>2 DEF Finalizing, FinalizeLabel, StageLabel
  <2> QED BY <2>2, <2>3
<1>8. ASSUME NEW s \in Server, RemoveData(s)
      PROVE  Finalizing'
  <2>1. /\ UNCHANGED <<installed, database, receipt, left>> /\ pc[s] = "reset data"
        /\ pc'[s] \in {"reset database", "reset state", "idle"}
        /\ s = Bootstrap => pc'[s] # "reset state"
        /\ \A x \in Server \ {s} : pc'[x] = pc[x] /\ arg'[x] = arg[x] /\ data'[x] = data[x]
    BY <1>8 DEF RemoveData
  <2>2. ASSUME NEW x \in Server \ left, Final PROVE data'[x] = data[x] /\ pc'[x] # "reset data"
    <3>1. x # s /\ pc[x] # "reset data"
      BY <2>1, <2>2, <1>m
    <3> QED BY <2>1, <3>1
  <2> QED BY <2>1, <2>2, Untouched
<1>9. ASSUME NEW s \in Server, RemoveState(s)
      PROVE  Finalizing'
  <2>1. /\ UNCHANGED <<database, left, data>> /\ pc[s] = "reset state" /\ pc'[s] = "idle"
        /\ \A x \in Server \ {s} : pc'[x] = pc[x] /\ arg'[x] = arg[x] /\ receipt'[x] = receipt[x]
        /\ \/ receipt' = receipt /\ installed' = installed
           \/ installed' = IF s = Bootstrap THEN NotInstalled ELSE installed
    BY <1>9 DEF RemoveState
  <2>2. CASE s = Bootstrap /\ installed' = NotInstalled
    BY <2>1, <2>2, Uninstalled DEF Finalizing, FinalizeLabel
  <2>3. CASE receipt'[Bootstrap] = receipt[Bootstrap] /\ installed' = installed
    <3>1. ASSUME NEW x \in Server \ left, Final PROVE data'[x] = data[x] /\ pc'[x] # "reset data"
      <4>1. data' = data /\ pc[x] # "reset data"
        BY <2>1, <3>1, <1>m
      <4>2. pc'[x] \in {pc[x], "idle"}
        BY <2>1
      <4> QED BY <4>1, <4>2
    <3> QED BY <2>1, <2>3, <3>1, Untouched
  <2> QED BY <2>1, <2>2, <2>3
<1>10. ASSUME NEW s \in Server, NodeRegisters(s) \/ Crash(s) \/ Reboot(s) \/ RefusedRepair(s)
       PROVE  Finalizing'
  <2>1. /\ UNCHANGED <<installed, database, left, receipt>>
        /\ pc'[s] = "idle" \/ (pc'[s] = pc[s] /\ arg'[s] = arg[s])
        /\ \A x \in Server \ {s} : pc'[x] = pc[x] /\ arg'[x] = arg[x] /\ data'[x] = data[x]
        /\ data'[s] \in {data[s], DataOf(s)}
    <3>1. CASE Reboot(s)
      BY <3>1 DEF Reboot, StartK3s
    <3>2. CASE NodeRegisters(s) \/ Crash(s) \/ RefusedRepair(s)
      BY <3>2 DEF NodeRegisters, Crash, RefusedRepair, operation
    <3> QED BY <1>10, <3>1, <3>2
  <2>2. ASSUME Final, s \notin left PROVE data'[s] = data[s]
    BY <2>1, <2>2, MembersHaveData DEF DataOf
  <2>3. \A x \in Server \ left : Final => data'[x] = data[x] /\ pc'[x] # "reset data"
    BY <2>1, <2>2 DEF Finalizing
  <2> QED BY <2>1, <2>3, Untouched
<1>11. CASE \E p \in Peers : CreateEnrollment(p) \/ \E r \in Release : StagePeer(p, r)
  BY <1>1, <1>4, <1>11 DEF StagePeer
<1>12. CASE \E r \in Release : StageBootstrap(r) \/ BeginFinalize(r)
  BY <1>1, <1>3, <1>12 DEF StageBootstrap
<1> QED BY <1>2, <1>5, <1>6, <1>7, <1>8, <1>9, <1>10, <1>11, <1>12 DEF Next, ResetStep

-----------------------------------------------------------------------------

LEMMA InitInv == Init => EtcdInv
<1> SUFFICES ASSUME Init PROVE EtcdInv
  OBVIOUS
<1> USE Identities DEF Init
<1>1. TypeOK
  <2>1. NoReceipt \in [phase : Phase, cluster : Cluster \cup {None}, release : Release \cup {None}]
        /\ NotInstalled \in [cluster : Cluster \cup {None}, release : Release \cup {None}]
        /\ NoArg \in [cluster : Cluster \cup {None}, release : Release \cup {None}]
        /\ NoReceipt.phase = "none"
    BY DEF NoReceipt, NotInstalled, NoArg, Phase
  <2>2. Operation("idle") # "finalize" /\ 0 \in 0..MaxCluster
    BY BoundAssumption DEF Operation, StageLabel, FinalizeLabel, ResetLabel
  <2>3. file \in [Server -> [File -> {"none", "old", "staged"}]]
    BY DEF NoFiles
  <2> QED BY <2>1, <2>2, <2>3 DEF TypeOK
<1>2. ASSUME NEW s \in Server PROVE ServerInv(s)
  <2>1. receipt[s].phase = "none" /\ pc[s] = "idle" /\ data[s] \in {None, Old} /\ ~k3s[s]
        /\ \A f \in File : file[s][f] # "staged"
    BY DEF NoReceipt, NoFiles
  <2> QED BY <2>1 DEF ServerInv, Staging, Recorded, OneCluster, Older, Runs, Resetting, Member, HasReceipt,
                      StageLabel, ResetLabel, File
<1>3. Enrolled
  BY DEF Enrolled, NoArg, None
<1>4. Finalizing
  BY DEF Finalizing, Final, FinalizeLabel, StageLabel
<1> QED BY <1>1, <1>2, <1>3, <1>4 DEF EtcdInv

LEMMA NextInv == EtcdInv /\ Next => EtcdInv'
<1> SUFFICES ASSUME EtcdInv, Next PROVE EtcdInv'
  OBVIOUS
<1>1. TypeOK'
  BY NextTypesRecords, NextTypesHosts, NextTypesRest, NextPhases DEF TypeOK, HostTyping, RestTyping, Phases
<1> QED BY <1>1, NextServers, NextEnrolled, NextFinalizing DEF EtcdInv

LEMMA StutterInv == EtcdInv /\ UNCHANGED vars => EtcdInv'
<1> SUFFICES ASSUME EtcdInv, UNCHANGED vars PROVE EtcdInv'
  OBVIOUS
<1> USE DEF vars, host, cluster, records, operation, history
<1>1. TypeOK'
  BY DEF EtcdInv, TypeOK
<1>2. ASSUME NEW s \in Server PROVE ServerInv(s)'
  <2>1. ServerInv(s)
    BY DEF EtcdInv
  <2>2. Staging(s)' /\ Recorded(s)' /\ OneCluster(s)' /\ Older(s)'
    BY <2>1 DEF ServerInv, Staging, Recorded, OneCluster, Older, HasReceipt
  <2>3. Runs(s)' /\ Resetting(s)' /\ Member(s)'
    BY <2>1 DEF ServerInv, Runs, Resetting, Member
  <2> QED BY <2>2, <2>3 DEF ServerInv
<1>3. Enrolled'
  BY DEF EtcdInv, Enrolled
<1>4. Finalizing'
  BY DEF EtcdInv, Finalizing, Final
<1> QED BY <1>1, <1>2, <1>3, <1>4 DEF EtcdInv

LEMMA Inductive == Spec => []EtcdInv
<1>1. EtcdInv /\ [Next]_vars => EtcdInv'
  BY NextInv, StutterInv
<1> QED BY InitInv, <1>1, PTL DEF Spec

-----------------------------------------------------------------------------

\* The state keeps its types.
THEOREM TypeCorrect == Spec => []TypeOK
<1>1. EtcdInv => TypeOK
  BY DEF EtcdInv
<1> QED BY Inductive, <1>1, PTL

\* A receipt past "prepared" tells the truth about its server.
THEOREM StagedTheorem == Spec => []StagedIsMember
<1>1. EtcdInv => StagedIsMember
  BY DEF EtcdInv, ServerInv, Member, StagedIsMember
<1> QED BY Inductive, <1>1, PTL

\* What is installed is what is staged, on every server that was not reset.
THEOREM InstalledTheorem == Spec => []InstalledIsStaged
<1>1. EtcdInv => InstalledIsStaged
  <2> SUFFICES ASSUME EtcdInv, installed # NotInstalled
               PROVE  /\ installed = [cluster |-> receipt[Bootstrap].cluster, release |-> receipt[Bootstrap].release]
                      /\ receipt[Bootstrap].phase \in {"server-ready", "finalized"}
                      /\ \A s \in Server \ left : data[s] = installed.cluster
    BY DEF InstalledIsStaged
  <2>1. /\ installed = [cluster |-> receipt[Bootstrap].cluster, release |-> receipt[Bootstrap].release]
        /\ receipt[Bootstrap].phase \in {"server-ready", "finalized"}
        /\ \A s \in Server \ left : data[s] = receipt[Bootstrap].cluster
    BY DEF EtcdInv, Finalizing, Final
  <2>2. installed.cluster = receipt[Bootstrap].cluster
    BY <2>1
  <2> QED BY <2>1, <2>2
<1> QED BY Inductive, <1>1, PTL

\* Only factory-reset takes the data of a member away.
THEOREM MembersKeepTheirDataTheorem == Spec => MembersKeepTheirData
<1>1. EtcdInv /\ [Next]_vars =>
        [\A s \in Server : data[s] \in Cluster /\ data'[s] # data[s] => pc[s] = "reset data"]_vars
  <2> SUFFICES ASSUME EtcdInv, Next, NEW x \in Server, data[x] \in Cluster, pc[x] # "reset data"
               PROVE  data'[x] = data[x]
    OBVIOUS
  <2>0. Types /\ ServerInv(x)
    BY Parts
  <2>1. HasReceipt(x) /\ DataOf(x) = data[x]
    BY <2>0, Identities DEF ServerInv, OneCluster, DataOf
  <2> USE <2>0, <2>1, Identities DEF Types, HostTyping, host, cluster, records
  <2>2. ASSUME NEW s \in Server, NEW r \in Release, NEW c, Stage(s, r, c)
        PROVE  data'[x] = data[x]
    BY <2>2 DEF Stage, StageFirst, StageAgain, ClearLeftover, HasReceipt
  <2>3. CASE \E r \in Release : StageBootstrap(r) \/ BeginFinalize(r)
    BY <2>2, <2>3 DEF StageBootstrap, BeginFinalize
  <2>4. CASE \E p \in Peers : CreateEnrollment(p) \/ \E r \in Release : StagePeer(p, r)
    BY <2>2, <2>4 DEF StagePeer, CreateEnrollment
  <2>5. CASE FinalizeStep \/ RemoveDatabase
    BY <2>5 DEF FinalizeStep, BeginInstall, Deploy, Commit, Seal, Rollback, RemoveDatabase
  <2>6. ASSUME NEW s \in Server, StageStep(s) PROVE data'[x] = data[x]
    BY <2>6 DEF StageStep, SavePrepared, WriteConfig, WriteUnit, InstallBinary, EnableAndStart, StartK3s, Preload, Record
  <2>7. ASSUME NEW s \in Server,
               FactoryReset(s) \/ ResetStep(s) \/ NodeRegisters(s) \/ Crash(s) \/ Reboot(s) \/ RefusedRepair(s)
        PROVE  data'[x] = data[x]
    <3>1. CASE FactoryReset(s) \/ NodeRegisters(s) \/ Crash(s) \/ RefusedRepair(s)
      BY <3>1 DEF FactoryReset, NodeRegisters, Crash, RefusedRepair
    <3>2. CASE ResetStep(s)
      BY <3>2 DEF ResetStep, RemoveData, RemoveState
    <3>3. CASE Reboot(s)
      BY <3>3 DEF Reboot, StartK3s
    <3> QED BY <2>7, <3>1, <3>2, <3>3
  <2> QED BY <2>3, <2>4, <2>5, <2>6, <2>7 DEF Next
<1> QED BY Inductive, <1>1, PTL DEF Spec, MembersKeepTheirData

\* A committed database is removed by factory-reset only.
THEOREM CommittedDatabaseTheorem == Spec => CommittedDatabaseIsKept
<1>1. EtcdInv /\ [Next]_vars =>
        [database = "committed" /\ database' # database => pc[Bootstrap] = "reset database"]_vars
  <2> SUFFICES ASSUME EtcdInv, Next, database = "committed", pc[Bootstrap] # "reset database"
               PROVE  database' = database
    OBVIOUS
  <2>1. /\ installed # NotInstalled
        /\ pc[Bootstrap] \notin {"deploy", "commit", "rollback"}
    BY Parts DEF Finalizing
  <2> QED BY <2>1 DEF Next, StageBootstrap, StagePeer, Stage, StageFirst, StageAgain, BeginFinalize, CreateEnrollment,
          FinalizeStep, BeginInstall, Discarded, Deploy, Commit, Seal, Rollback, RemoveDatabase, StageStep, SavePrepared,
          WriteConfig, WriteUnit, InstallBinary, EnableAndStart, Preload, Record, FactoryReset, ResetStep, RemoveData,
          RemoveState, NodeRegisters, Crash, Reboot, RefusedRepair, records
<1> QED BY Inductive, <1>1, PTL DEF Spec, CommittedDatabaseIsKept
===========================================================================
