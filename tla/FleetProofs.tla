---------------------------- MODULE FleetProofs ----------------------------
(***************************************************************************)
(* Theorems about the control plane's view of its members, for any set of  *)
(* names, any number of Node objects and any releases.                     *)
(*                                                                         *)
(* The argument: a uid is used once (Uids), so what the receipt, the Node  *)
(* objects, the inference releases and the routing registry say of a uid   *)
(* is about one node.  A release is deployed to a registered node that is  *)
(* the Node object's, and stays with it (Given); a removal forgets the     *)
(* node after its routing and its release are gone (Removing), and a node  *)
(* whose object was deleted under its registration is not routed to        *)
(* (Replaced).  The gate knows all workers, since a member of another kind *)
(* makes the topology one without the gate (Grows), and those it has read  *)
(* run the K3s of the target until they change (Gated).                    *)
(***************************************************************************)
EXTENDS Fleet, TLAPS

RemoveLabel == {"cordon", "read", "patch", "drain", "uninstall", "delete", "forget"}
Withdrawn == {"drain", "uninstall", "delete", "forget"}

\* Which command a label belongs to, and what it works on.
Jobs ==
    /\ pc \in {"key", "save", "write"} => op = "enroll" /\ job.name \in Name /\ job.role \in Role /\ job.release \in Release
    /\ pc = "register" => op = "register" /\ job.name \in Name /\ job.role \in Role /\ job.uid \in Uid
    /\ pc = "apply" => op = "deploy" /\ job.name \in Name /\ job.uid \in Uid
    /\ pc \in RemoveLabel => op = "remove" /\ job.name \in Name /\ job.uid \in Uid
    /\ pc \in {"gate", "versions", "advance"} => op = "upgrade" /\ job.release \in Release

\* The enrollment that is being issued, and those that were.
Issuing ==
    /\ pc = "key" => signer = "part" /\ ~pinned
    /\ pc = "save" => signer = "key"
    /\ pc = "write" => pinned /\ topology # "single-server"

\* A uid is that of one node.
Uids ==
    /\ \A n \in Name : nodes[n].uid \in 0..fresh /\ node[n].uid \in 0..fresh
    /\ \A m, n \in Name : m # n =>
          /\ nodes[m].uid # None => nodes[m].uid # nodes[n].uid /\ nodes[m].uid # node[n].uid
          /\ node[m].uid # None => node[m].uid # node[n].uid

\* A release of inference is that of a registered node, which is there.
Given ==
    /\ \A n \in Name : deployed[n] # None => deployed[n] = nodes[n].uid /\ deployed[n] = node[n].uid
    /\ pc \in {"register", "apply"} => job.uid = node[job.name].uid
    /\ pc = "apply" => job.uid = nodes[job.name].uid

Removing ==
    /\ pc \in RemoveLabel => job.uid = nodes[job.name].uid
    /\ pc \in Withdrawn => job.uid \notin routing \ late
    /\ pc \in {"delete", "forget"} => deployed[job.name] = None

\* A registration without its Node object is not routed to.
Replaced ==
    \A n \in Name : Enrolled(n) /\ node[n].uid # nodes[n].uid => nodes[n].uid \notin routing \ late

Routed == \A u \in routing \ late : \E n \in Name : nodes[n].uid = u

Grows == \A n \in Name : nodes[n].role = "prime" => topology = "multi-server"

Gated ==
    /\ pc = "versions" =>
          /\ topology = "server-workers" /\ job.left \subseteq Name
          /\ \A n \in Name \ (job.since \cup job.left) : Live(n) => node[n].k3s = K3sOf[job.release]
    /\ pc = "advance" /\ topology = "server-workers" =>
          \A n \in Name \ job.since : Live(n) => node[n].k3s = K3sOf[job.release]

FleetInv ==
    /\ TypeOK /\ Jobs /\ IssuedIsRecorded /\ Issuing
    /\ Uids /\ Given /\ Removing /\ Replaced /\ Routed
    /\ Grows /\ Gated

-----------------------------------------------------------------------------
(* Types, and which command runs.                                          *)

ReceiptTypes ==
    /\ nodes \in [Name -> [uid : Uid, role : Role] \cup {NoMember}]
    /\ topology \in Topology /\ pinned \in BOOLEAN /\ version \in Release
    /\ signer \in {"none", "part", "key"} /\ issued \subseteq Enrollment
    /\ pinned => signer = "key"

MemberTypes ==
    /\ host \in [Name -> K3sVersion \cup {None}]
    /\ node \in [Name -> [uid : Uid, k3s : K3sVersion, pods : Pods] \cup {NoNode}]
    /\ fresh \in 0..MaxUid
    /\ deployed \in [Name -> Uid \cup {None}] /\ routing \subseteq Uid /\ late \subseteq Uid

CommandTypes ==
    /\ pc \in Label /\ op \in {"none", "enroll", "register", "deploy", "remove", "upgrade"}
    /\ job \in Job
    /\ pc = "idle" <=> op = "none"
    /\ pc = "idle" <=> job = NoJob

LEMMA TypeParts == TypeOK <=> ReceiptTypes /\ MemberTypes /\ CommandTypes
BY DEF TypeOK, ReceiptTypes, MemberTypes, CommandTypes

\* The numbers.
LEMMA Numbers ==
    /\ MaxUid \in Nat /\ MaxRelease \in Nat /\ 1 \in Release /\ None \notin Release /\ None \notin Uid
    /\ None = 0 /\ Uid \subseteq Nat /\ Release \subseteq Nat
BY BoundsAssumption DEF Release, Uid, None

\* What is read of the receipt and of a Node object.
LEMMA Fields ==
    ASSUME ReceiptTypes, MemberTypes, NEW n \in Name
    PROVE  /\ nodes[n].uid \in Uid \cup {None} /\ nodes[n].role \in Role \cup {"none"}
           /\ Enrolled(n) <=> nodes[n].uid # None
           /\ nodes[n].role \in Role => Enrolled(n)
           /\ node[n].uid \in Uid \cup {None} /\ node[n].k3s \in K3sVersion \cup {None}
           /\ node[n].pods \in Pods
           /\ Live(n) <=> node[n].uid # None
           /\ Live(n) => node[n].k3s \in K3sVersion
<1>1. nodes[n] \in [uid : Uid, role : Role] \/ nodes[n] = NoMember
  BY DEF ReceiptTypes
<1>2. node[n] \in [uid : Uid, k3s : K3sVersion, pods : Pods] \/ node[n] = NoNode
  BY DEF MemberTypes
<1> QED BY <1>1, <1>2, Numbers DEF NoMember, NoNode, Enrolled, Live, Pods, Role

LEMMA Returned == ASSUME Return PROVE CommandTypes' /\ Jobs'
BY DEF Return, CommandTypes, Jobs, NoJob, Job, Label, RemoveLabel

LEMMA Went ==
    ASSUME CommandTypes, Jobs, NEW label, Goto(label),
           \/ pc \in {"key", "save", "write"} /\ label \in {"key", "save", "write"}
           \/ pc \in RemoveLabel /\ label \in RemoveLabel
           \/ pc \in {"gate", "versions", "advance"} /\ label \in {"gate", "versions", "advance"}
    PROVE  CommandTypes' /\ Jobs'
BY DEF CommandTypes, Jobs, Goto, Label, RemoveLabel

\* What a command begins with.
LEMMA Began ==
    ASSUME NEW o \in {"enroll", "register", "deploy", "remove", "upgrade"}, NEW label \in Label \ {"idle"},
           NEW n \in Name \cup {"none"}, NEW r \in Role \cup {"none"}, NEW u \in Uid \cup {None},
           NEW v \in Release \cup {None}, r # "none" \/ u # None \/ v # None,
           Begin(o, label, n, r, u, v)
    PROVE  /\ CommandTypes'
           /\ pc = "idle" /\ pc' = label /\ op' = o
           /\ job'.name = n /\ job'.role = r /\ job'.uid = u /\ job'.release = v
           /\ job'.left = {} /\ job'.since = {}
<1>1. /\ pc = "idle" /\ pc' = label /\ op' = o
      /\ job' = [name |-> n, role |-> r, uid |-> u, release |-> v, left |-> {}, since |-> {},
                 revised |-> FALSE]
  BY DEF Begin, NoJob
<1>2. job' \in Job
  BY <1>1 DEF Job
<1>3. job' # NoJob
  BY <1>1 DEF NoJob
<1> QED BY <1>1, <1>2, <1>3 DEF CommandTypes

LEMMA NextCommands == FleetInv /\ Next => CommandTypes' /\ Jobs'
<1> SUFFICES ASSUME FleetInv, Next PROVE CommandTypes' /\ Jobs'
  OBVIOUS
<1>0. ReceiptTypes /\ MemberTypes /\ CommandTypes /\ Jobs
  BY TypeParts DEF FleetInv
<1> USE <1>0, Numbers
<1>1. ASSUME NEW n \in Name, NEW r \in Role, BeginEnroll(n, r)
      PROVE  CommandTypes' /\ Jobs'
  <2>1. \E l \in {"save", "key"} : Begin("enroll", l, n, r, None, version)
    BY <1>1 DEF BeginEnroll
  <2>2. version \in Release
    BY DEF ReceiptTypes
  <2> QED BY <2>1, <2>2, Began DEF Jobs, Label, RemoveLabel, Role
<1>2. ASSUME NEW n \in Name, NEW r \in Role, BeginRegister(n, r)
      PROVE  CommandTypes' /\ Jobs'
  <2>1. PICK u \in Uid : Begin("register", "register", n, r, u, None)
    BY <1>2, Fields DEF BeginRegister
  <2>2. CommandTypes' /\ pc' = "register" /\ op' = "register" /\ job'.name = n /\ job'.role = r /\ job'.uid \in Uid
    BY <2>1, Began DEF Label, Role
  <2> QED BY <2>2 DEF Jobs, RemoveLabel
<1>3. ASSUME NEW n \in Name, BeginDeploy(n)
      PROVE  CommandTypes' /\ Jobs'
  <2>1. PICK u \in Uid : Begin("deploy", "apply", n, "none", u, None)
    BY <1>3, Fields DEF BeginDeploy, Role
  <2>2. CommandTypes' /\ pc' = "apply" /\ op' = "deploy" /\ job'.name = n /\ job'.uid \in Uid
    BY <2>1, Began DEF Label, Role
  <2> QED BY <2>2 DEF Jobs, RemoveLabel
<1>4. ASSUME NEW n \in Name, BeginRemove(n)
      PROVE  CommandTypes' /\ Jobs'
  <2>1. PICK u \in Uid : Begin("remove", "cordon", n, "none", u, None)
    BY <1>4, Fields DEF BeginRemove
  <2>2. CommandTypes' /\ pc' = "cordon" /\ op' = "remove" /\ job'.name = n /\ job'.uid \in Uid
    BY <2>1, Began DEF Label, Role
  <2> QED BY <2>2 DEF Jobs, RemoveLabel
<1>5. ASSUME NEW v \in Release, BeginUpgrade(v)
      PROVE  CommandTypes' /\ Jobs'
  <2>1. Begin("upgrade", "gate", "none", "none", None, v)
    BY <1>5 DEF BeginUpgrade
  <2> QED BY <2>1, Began DEF Jobs, Label, RemoveLabel, Role
<1>6. CASE CreateSigner \/ SaveCluster \/ WriteEnrollment
  BY <1>6, Returned, Went DEF CreateSigner, SaveCluster, WriteEnrollment
<1>7. CASE RegisterNode \/ InstallOrUpgrade \/ ForgetNode \/ Advance \/ Crash
  BY <1>7, Returned DEF RegisterNode, InstallOrUpgrade, ForgetNode, Advance, Crash
<1>8. CASE Cordon \/ Drain \/ UninstallRelease \/ DeleteNode
  BY <1>8, Returned, Went DEF Cordon, Drain, UninstallRelease, DeleteNode, RemoveLabel
<1>9. CASE ReadRouting \/ PatchRouting
  <2>1. ReadRouting => pc = "read" /\ (Return \/ \E l \in {"patch", "drain"} : Goto(l))
    BY DEF ReadRouting, Goto
  <2>2. PatchRouting => pc = "patch" /\ (Return \/ Goto("drain"))
    BY DEF PatchRouting, Withdraw
  <2> QED BY <1>9, <2>1, <2>2, Returned, Went DEF RemoveLabel
<1>10. CASE Gate
  <2>1. CASE UNCHANGED <<op, job>> /\ pc' = "advance"
    BY <1>10, <2>1, Went DEF Gate, Goto
  <2>2. CASE /\ pc' = "versions" /\ UNCHANGED op
             /\ job' = [job EXCEPT !.left = {n \in Name : nodes[n].role = "inference"}]
    <3>1. pc = "gate" /\ job.release \in Release /\ op = "upgrade"
      BY <1>10 DEF Gate, Jobs
    <3>2. job' \in Job /\ job'.release = job.release
      BY <2>2 DEF CommandTypes, Job
    <3> QED BY <2>2, <3>1, <3>2 DEF CommandTypes, Jobs, NoJob, Label, RemoveLabel
  <2> QED BY <1>10, <2>1, <2>2, Returned DEF Gate
<1>11. CASE ReadVersion
  <2>1. ASSUME NEW n \in job.left, job' = [job EXCEPT !.left = job.left \ {n}], UNCHANGED <<pc, op>>
        PROVE  CommandTypes' /\ Jobs'
    <3>1. pc = "versions" /\ job.release \in Release /\ op = "upgrade"
      BY <1>11 DEF ReadVersion, Jobs
    <3>2. job' \in Job /\ job'.release = job.release
      BY <2>1 DEF CommandTypes, Job
    <3> QED BY <2>1, <3>1, <3>2 DEF CommandTypes, Jobs, NoJob, Label, RemoveLabel
  <2> QED BY <1>11, <2>1, Returned, Went DEF ReadVersion
<1>12. ASSUME NEW n \in Name, Changed(n), UNCHANGED <<pc, op>>
       PROVE  CommandTypes' /\ Jobs'
  <2>1. CASE topology = "server-workers" /\ pc \in {"versions", "advance"}
    <3>1. job' = [job EXCEPT !.since = job.since \cup {n}]
      BY <1>12, <2>1 DEF Changed
    <3>2. op = "upgrade" /\ job.release \in Release
      BY <2>1 DEF Jobs
    <3>3. job' \in Job /\ job'.release = job.release
      BY <3>1 DEF CommandTypes, Job
    <3> QED BY <1>12, <2>1, <3>2, <3>3 DEF CommandTypes, Jobs, NoJob, RemoveLabel
  <2>2. CASE ~(topology = "server-workers" /\ pc \in {"versions", "advance"})
    BY <1>12, <2>2 DEF Changed, CommandTypes, Jobs
  <2> QED BY <2>1, <2>2
<1>13. ASSUME NEW n \in Name, Publish(n)
       PROVE  CommandTypes' /\ Jobs'
  <2>1. CASE pc = "patch"
    <3>1. job' = [job EXCEPT !.revised = TRUE] /\ UNCHANGED <<pc, op>>
      BY <1>13, <2>1 DEF Publish
    <3>2. job.name \in Name /\ job.uid \in Uid /\ op = "remove"
      BY <2>1 DEF Jobs, RemoveLabel
    <3>3. job' \in Job /\ job'.name = job.name /\ job'.uid = job.uid
      BY <3>1 DEF CommandTypes, Job
    <3> QED BY <2>1, <3>1, <3>2, <3>3 DEF CommandTypes, Jobs, NoJob, RemoveLabel
  <2>2. CASE pc # "patch"
    BY <1>13, <2>2 DEF Publish, CommandTypes, Jobs
  <2> QED BY <2>1, <2>2
<1>14. CASE UNCHANGED command
  BY <1>14 DEF command, CommandTypes, Jobs
<1>15. CASE Environment
  <2>1. ASSUME NEW n \in Name, AgentRegisters(n) \/ UpgradeWorker(n)
        PROVE  CommandTypes' /\ Jobs'
    BY <1>12, <2>1 DEF AgentRegisters, UpgradeWorker
  <2>2. ASSUME NEW n \in Name, Join(n) \/ Uninstall(n) \/ Uncordon(n)
        PROVE  UNCHANGED command
    BY <2>2 DEF Join, Uninstall, Uncordon
  <2>3. Expire \/ DiscardSigner => UNCHANGED command
    BY DEF Expire, DiscardSigner
  <2> QED BY <1>7, <1>13, <1>14, <1>15, <2>1, <2>2, <2>3 DEF Environment
<1> QED BY <1>1, <1>2, <1>3, <1>4, <1>5, <1>6, <1>7, <1>8, <1>9, <1>10, <1>11, <1>15 DEF Next, Command, Step

-----------------------------------------------------------------------------
(* What changes what.                                                      *)

LEMMA ReceiptSteps == Next =>
    \/ \E n \in Name, r \in Role : BeginEnroll(n, r)
    \/ CreateSigner \/ SaveCluster \/ WriteEnrollment \/ RegisterNode \/ ForgetNode \/ Advance
    \/ Expire \/ DiscardSigner
    \/ UNCHANGED <<receipt, enrollment>>
<1> SUFFICES ASSUME Next
             PROVE  \/ \E n \in Name, r \in Role : BeginEnroll(n, r)
                    \/ CreateSigner \/ SaveCluster \/ WriteEnrollment \/ RegisterNode \/ ForgetNode \/ Advance
                    \/ Expire \/ DiscardSigner
                    \/ UNCHANGED <<receipt, enrollment>>
  OBVIOUS
<1> USE DEF receipt, enrollment
<1>1. ASSUME NEW n \in Name, NEW r \in Role, BeginRegister(n, r) PROVE UNCHANGED <<receipt, enrollment>>
  BY <1>1 DEF BeginRegister
<1>2. ASSUME NEW n \in Name, BeginDeploy(n) \/ BeginRemove(n) PROVE UNCHANGED <<receipt, enrollment>>
  BY <1>2 DEF BeginDeploy, BeginRemove
<1>3. ASSUME NEW v \in Release, BeginUpgrade(v) PROVE UNCHANGED <<receipt, enrollment>>
  BY <1>3 DEF BeginUpgrade
<1>4. InstallOrUpgrade \/ Cordon \/ ReadRouting \/ PatchRouting \/ Drain \/ UninstallRelease \/ DeleteNode
        => UNCHANGED <<receipt, enrollment>>
  BY DEF InstallOrUpgrade, Cordon, ReadRouting, PatchRouting, Drain, UninstallRelease, DeleteNode
<1>5. Gate \/ ReadVersion \/ Crash => UNCHANGED <<receipt, enrollment>>
  BY DEF Gate, ReadVersion, Crash
<1>6. ASSUME NEW n \in Name,
             Join(n) \/ AgentRegisters(n) \/ UpgradeWorker(n) \/ Uninstall(n) \/ Publish(n) \/ Uncordon(n)
      PROVE  UNCHANGED <<receipt, enrollment>>
  BY <1>6 DEF Join, AgentRegisters, UpgradeWorker, Uninstall, Publish, Uncordon
<1> QED BY <1>1, <1>2, <1>3, <1>4, <1>5, <1>6 DEF Next, Command, Step, Environment

LEMMA MemberSteps == Next =>
    \/ Cordon \/ Drain \/ DeleteNode
    \/ \E n \in Name : Join(n) \/ AgentRegisters(n) \/ UpgradeWorker(n) \/ Uninstall(n) \/ Uncordon(n)
    \/ UNCHANGED members
<1> SUFFICES ASSUME Next
             PROVE  \/ Cordon \/ Drain \/ DeleteNode
                    \/ \E n \in Name : Join(n) \/ AgentRegisters(n) \/ UpgradeWorker(n) \/ Uninstall(n) \/ Uncordon(n)
                    \/ UNCHANGED members
  OBVIOUS
<1>1. ASSUME NEW n \in Name, NEW r \in Role, BeginEnroll(n, r) \/ BeginRegister(n, r) PROVE UNCHANGED members
  BY <1>1 DEF BeginEnroll, BeginRegister
<1>2. ASSUME NEW n \in Name, BeginDeploy(n) \/ BeginRemove(n) \/ Publish(n) PROVE UNCHANGED members
  BY <1>2 DEF BeginDeploy, BeginRemove, Publish
<1>3. ASSUME NEW v \in Release, BeginUpgrade(v) PROVE UNCHANGED members
  BY <1>3 DEF BeginUpgrade
<1>4. CreateSigner \/ SaveCluster \/ WriteEnrollment \/ RegisterNode \/ ForgetNode => UNCHANGED members
  BY DEF CreateSigner, SaveCluster, WriteEnrollment, RegisterNode, ForgetNode
<1>5. InstallOrUpgrade \/ ReadRouting \/ PatchRouting \/ UninstallRelease => UNCHANGED members
  BY DEF InstallOrUpgrade, ReadRouting, PatchRouting, UninstallRelease
<1>6. Gate \/ ReadVersion \/ Advance \/ Crash \/ Expire \/ DiscardSigner => UNCHANGED members
  BY DEF Gate, ReadVersion, Advance, Crash, Expire, DiscardSigner
<1> QED BY <1>1, <1>2, <1>3, <1>4, <1>5, <1>6 DEF Next, Command, Step, Environment

LEMMA InferenceSteps == Next =>
    \/ InstallOrUpgrade \/ PatchRouting \/ UninstallRelease
    \/ \E n \in Name : Publish(n)
    \/ UNCHANGED <<inference, late>>
<1> SUFFICES ASSUME Next
             PROVE  \/ InstallOrUpgrade \/ PatchRouting \/ UninstallRelease
                    \/ \E n \in Name : Publish(n)
                    \/ UNCHANGED <<inference, late>>
  OBVIOUS
<1> USE DEF inference
<1>1. ASSUME NEW n \in Name, NEW r \in Role, BeginEnroll(n, r) \/ BeginRegister(n, r)
      PROVE  UNCHANGED <<inference, late>>
  BY <1>1 DEF BeginEnroll, BeginRegister
<1>2. ASSUME NEW n \in Name, BeginDeploy(n) \/ BeginRemove(n) PROVE UNCHANGED <<inference, late>>
  BY <1>2 DEF BeginDeploy, BeginRemove
<1>3. ASSUME NEW v \in Release, BeginUpgrade(v) PROVE UNCHANGED <<inference, late>>
  BY <1>3 DEF BeginUpgrade
<1>4. CreateSigner \/ SaveCluster \/ WriteEnrollment \/ RegisterNode \/ ForgetNode => UNCHANGED <<inference, late>>
  BY DEF CreateSigner, SaveCluster, WriteEnrollment, RegisterNode, ForgetNode
<1>5. Cordon \/ ReadRouting \/ Drain \/ DeleteNode => UNCHANGED <<inference, late>>
  BY DEF Cordon, ReadRouting, Drain, DeleteNode
<1>6. Gate \/ ReadVersion \/ Advance \/ Crash \/ Expire \/ DiscardSigner => UNCHANGED <<inference, late>>
  BY DEF Gate, ReadVersion, Advance, Crash, Expire, DiscardSigner
<1>7. ASSUME NEW n \in Name, Join(n) \/ AgentRegisters(n) \/ UpgradeWorker(n) \/ Uninstall(n) \/ Uncordon(n)
      PROVE  UNCHANGED <<inference, late>>
  BY <1>7 DEF Join, AgentRegisters, UpgradeWorker, Uninstall, Uncordon
<1> QED BY <1>1, <1>2, <1>3, <1>4, <1>5, <1>6, <1>7 DEF Next, Command, Step, Environment

LEMMA NextReceipts == FleetInv /\ Next => ReceiptTypes'
<1> SUFFICES ASSUME FleetInv, Next PROVE ReceiptTypes'
  OBVIOUS
<1>0. ReceiptTypes /\ MemberTypes /\ CommandTypes /\ Jobs /\ Issuing
  BY TypeParts DEF FleetInv
<1> USE <1>0 DEF ReceiptTypes
<1>1. CASE \E n \in Name, r \in Role : BeginEnroll(n, r)
  BY <1>1 DEF BeginEnroll, receipt
<1>2. CASE CreateSigner \/ DiscardSigner
  BY <1>2 DEF CreateSigner, DiscardSigner, receipt, Issuing
<1>3. Grown(job.role) \in Topology
  BY DEF Grown, Topology
<1>4. CASE SaveCluster
  BY <1>3, <1>4 DEF SaveCluster, enrollment, Issuing
<1>5. CASE WriteEnrollment
  <2>1. [name |-> job.name, k3s |-> K3sOf[job.release]] \in Enrollment
    BY <1>5, K3sAssumption DEF WriteEnrollment, Jobs, Enrollment
  <2> QED BY <1>5, <2>1 DEF WriteEnrollment, receipt
<1>6. CASE RegisterNode
  <2>1. [uid |-> job.uid, role |-> job.role] \in [uid : Uid, role : Role] /\ job.name \in Name
    BY <1>6 DEF RegisterNode, Jobs
  <2> QED BY <1>3, <1>6, <2>1 DEF RegisterNode, enrollment
<1>7. CASE ForgetNode
  BY <1>7 DEF ForgetNode, enrollment
<1>8. CASE Advance
  BY <1>8 DEF Advance, enrollment, Jobs
<1>9. CASE Expire
  BY <1>9 DEF Expire, receipt
<1>10. CASE UNCHANGED <<receipt, enrollment>>
  BY <1>10 DEF receipt, enrollment
<1> QED BY <1>1, <1>2, <1>4, <1>5, <1>6, <1>7, <1>8, <1>9, <1>10, ReceiptSteps

LEMMA NextMembers == FleetInv /\ Next => MemberTypes'
<1> SUFFICES ASSUME FleetInv, Next PROVE MemberTypes'
  OBVIOUS
<1>0. ReceiptTypes /\ MemberTypes /\ CommandTypes /\ Jobs
  BY TypeParts DEF FleetInv
<1> USE <1>0, Numbers
<1> DEFINE Members ==
       /\ host \in [Name -> K3sVersion \cup {None}]
       /\ node \in [Name -> [uid : Uid, k3s : K3sVersion, pods : Pods] \cup {NoNode}]
       /\ fresh \in 0..MaxUid
<1>m. Members
  BY DEF MemberTypes
<1>p. ASSUME NEW n \in Name, Live(n), NEW p \in Pods
      PROVE  [node EXCEPT ![n].pods = p] \in [Name -> [uid : Uid, k3s : K3sVersion, pods : Pods] \cup {NoNode}]
  <2>1. node[n] \in [uid : Uid, k3s : K3sVersion, pods : Pods]
    BY <1>m, <1>p DEF Live
  <2> QED BY <1>m, <1>p, <2>1
<1>1. Members'
  <2>1. CASE Cordon
    <3>1. \/ node' = node
          \/ job.name \in Name /\ Live(job.name)
             /\ \E p \in Pods : node' = [node EXCEPT ![job.name].pods = p]
      BY <2>1, Fields DEF Cordon, Jobs, RemoveLabel, Pods
    <3>2. UNCHANGED <<host, fresh>>
      BY <2>1 DEF Cordon
    <3>3. node' \in [Name -> [uid : Uid, k3s : K3sVersion, pods : Pods] \cup {NoNode}]
      <4>1. CASE node' = node
        BY <1>m, <4>1
      <4>2. ASSUME NEW p \in Pods, job.name \in Name, Live(job.name),
                   node' = [node EXCEPT ![job.name].pods = p]
            PROVE  node' \in [Name -> [uid : Uid, k3s : K3sVersion, pods : Pods] \cup {NoNode}]
        BY <1>p, <4>2
      <4> QED BY <3>1, <4>1, <4>2
    <3> QED BY <1>m, <3>2, <3>3
  <2>2. CASE Drain
    <3>1. \/ node' = node
          \/ job.name \in Name /\ Live(job.name)
             /\ \E p \in Pods : node' = [node EXCEPT ![job.name].pods = p]
      BY <2>2 DEF Drain, Jobs, RemoveLabel, Pods
    <3>2. UNCHANGED <<host, fresh>>
      BY <2>2 DEF Drain
    <3>3. node' \in [Name -> [uid : Uid, k3s : K3sVersion, pods : Pods] \cup {NoNode}]
      <4>1. CASE node' = node
        BY <1>m, <4>1
      <4>2. ASSUME NEW p \in Pods, job.name \in Name, Live(job.name),
                   node' = [node EXCEPT ![job.name].pods = p]
            PROVE  node' \in [Name -> [uid : Uid, k3s : K3sVersion, pods : Pods] \cup {NoNode}]
        BY <1>p, <4>2
      <4> QED BY <3>1, <4>1, <4>2
    <3> QED BY <1>m, <3>2, <3>3
  <2>3. CASE DeleteNode
    BY <1>m, <2>3 DEF DeleteNode
  <2>4. ASSUME NEW n \in Name, Join(n) PROVE Members'
    <3>1. \A e \in issued : e.k3s \in K3sVersion
      BY DEF ReceiptTypes, Enrollment
    <3> QED BY <1>m, <2>4, <3>1 DEF Join
  <2>5. ASSUME NEW n \in Name, AgentRegisters(n) PROVE Members'
    <3>1. fresh' \in 0..MaxUid /\ fresh' \in Uid
      BY <1>m, <2>5 DEF AgentRegisters, Uid
    <3>2. [uid |-> fresh', k3s |-> host[n], pods |-> "any"] \in [uid : Uid, k3s : K3sVersion, pods : Pods]
      BY <1>m, <2>5, <3>1 DEF AgentRegisters, Pods
    <3> QED BY <1>m, <2>5, <3>1, <3>2 DEF AgentRegisters
  <2>6. ASSUME NEW n \in Name, UpgradeWorker(n) PROVE Members'
    <3>1. PICK k \in K3sVersion : /\ host' = [host EXCEPT ![n] = k]
                                  /\ node' = IF Live(n) THEN [node EXCEPT ![n].k3s = k] ELSE node
      BY <2>6, K3sAssumption DEF UpgradeWorker
    <3>2. Live(n) => node[n] \in [uid : Uid, k3s : K3sVersion, pods : Pods]
      BY <1>m DEF Live
    <3>3. node' \in [Name -> [uid : Uid, k3s : K3sVersion, pods : Pods] \cup {NoNode}]
      BY <1>m, <3>1, <3>2
    <3> QED BY <1>m, <2>6, <3>1, <3>3 DEF UpgradeWorker
  <2>7. ASSUME NEW n \in Name, Uninstall(n) PROVE Members'
    BY <1>m, <2>7 DEF Uninstall
  <2>8. ASSUME NEW n \in Name, Uncordon(n) PROVE Members'
    BY <1>m, <1>p, <2>8 DEF Uncordon, Pods
  <2>9. CASE UNCHANGED members
    BY <1>m, <2>9 DEF members
  <2> HIDE DEF Members
  <2> QED BY <2>1, <2>2, <2>3, <2>4, <2>5, <2>6, <2>7, <2>8, <2>9, MemberSteps
<1>2. deployed' \in [Name -> Uid \cup {None}] /\ routing' \subseteq Uid /\ late' \subseteq Uid
  <2> USE DEF MemberTypes
  <2>1. CASE InstallOrUpgrade
    BY <2>1 DEF InstallOrUpgrade, Jobs
  <2>2. CASE PatchRouting
    BY <2>2 DEF PatchRouting, Withdraw
  <2>3. CASE UninstallRelease
    BY <2>3 DEF UninstallRelease
  <2>4. ASSUME NEW n \in Name, Publish(n)
        PROVE  deployed' \in [Name -> Uid \cup {None}] /\ routing' \subseteq Uid /\ late' \subseteq Uid
    BY <2>4 DEF Publish
  <2>5. CASE UNCHANGED <<inference, late>>
    BY <2>5 DEF inference
  <2> QED BY <2>1, <2>2, <2>3, <2>4, <2>5, InferenceSteps
<1> QED BY <1>1, <1>2 DEF MemberTypes

-----------------------------------------------------------------------------
(* Enrollments.                                                            *)

\* The labels of an enrollment are reached by its own steps.
LEMMA EnrollSteps == Next =>
    \/ pc' \notin {"key", "save", "write"}
    \/ pc' = pc
    \/ \E n \in Name, r \in Role : BeginEnroll(n, r)
    \/ CreateSigner \/ SaveCluster
<1> SUFFICES ASSUME Next, ~CreateSigner, ~SaveCluster, ~\E n \in Name, r \in Role : BeginEnroll(n, r)
             PROVE  pc' \notin {"key", "save", "write"} \/ pc' = pc
  OBVIOUS
<1> USE DEF Begin, Return, Goto, command
<1>1. ASSUME NEW n \in Name, NEW r \in Role, BeginRegister(n, r) PROVE pc' \notin {"key", "save", "write"}
  BY <1>1 DEF BeginRegister
<1>2. ASSUME NEW n \in Name, BeginDeploy(n) \/ BeginRemove(n) PROVE pc' \notin {"key", "save", "write"}
  BY <1>2 DEF BeginDeploy, BeginRemove
<1>3. ASSUME NEW v \in Release, BeginUpgrade(v) PROVE pc' \notin {"key", "save", "write"}
  BY <1>3 DEF BeginUpgrade
<1>4. WriteEnrollment \/ RegisterNode \/ InstallOrUpgrade \/ ForgetNode \/ Advance \/ Crash => pc' = "idle"
  BY DEF WriteEnrollment, RegisterNode, InstallOrUpgrade, ForgetNode, Advance, Crash
<1>5. Cordon \/ ReadRouting \/ Drain \/ UninstallRelease \/ DeleteNode => pc' \notin {"key", "save", "write"}
  BY DEF Cordon, ReadRouting, Drain, UninstallRelease, DeleteNode
<1>6. PatchRouting \/ Gate => pc' \notin {"key", "save", "write"}
  BY DEF PatchRouting, Withdraw, Gate
<1>7. ReadVersion => pc' \notin {"key", "save", "write"} \/ pc' = pc
  BY DEF ReadVersion
<1>8. Expire \/ DiscardSigner => pc' = pc
  BY DEF Expire, DiscardSigner
<1>9. ASSUME NEW n \in Name,
             Join(n) \/ AgentRegisters(n) \/ UpgradeWorker(n) \/ Uninstall(n) \/ Publish(n) \/ Uncordon(n)
      PROVE  pc' = pc
  BY <1>9 DEF Join, AgentRegisters, UpgradeWorker, Uninstall, Publish, Uncordon
<1> QED BY <1>1, <1>2, <1>3, <1>4, <1>5, <1>6, <1>7, <1>8, <1>9 DEF Next, Command, Step, Environment

LEMMA NextIssuing == FleetInv /\ Next => Issuing' /\ IssuedIsRecorded'
<1> SUFFICES ASSUME FleetInv, Next PROVE Issuing' /\ IssuedIsRecorded'
  OBVIOUS
<1>0. /\ ReceiptTypes /\ MemberTypes /\ CommandTypes /\ Jobs /\ Issuing
      /\ issued # {} => signer = "key" /\ pinned
      /\ issued # {} \/ (\E n \in Name : host[n] # None \/ Live(n)) => topology # "single-server"
      /\ pinned => signer = "key"
  BY TypeParts DEF FleetInv, IssuedIsRecorded, ReceiptTypes
<1>g. \A r : Grown(r) # "single-server"
  BY DEF Grown
<1>1. /\ pinned => pinned'
      /\ signer = "key" /\ pinned => signer' = "key"
      /\ topology # "single-server" => topology' # "single-server"
  <2>1. ASSUME NEW n \in Name, NEW r \in Role, BeginEnroll(n, r) PROVE UNCHANGED <<pinned, topology>> /\ (signer = "key" => signer' = "key")
    BY <2>1 DEF BeginEnroll, receipt
  <2>2. CASE CreateSigner
    BY <1>0, <2>2 DEF CreateSigner, receipt, Issuing
  <2>3. CASE SaveCluster
    BY <1>0, <1>g, <2>3 DEF SaveCluster, enrollment, ReceiptTypes
  <2>4. CASE WriteEnrollment \/ ForgetNode \/ Advance \/ Expire
    BY <2>4 DEF WriteEnrollment, ForgetNode, Advance, Expire, receipt, enrollment
  <2>5. CASE RegisterNode
    BY <1>g, <2>5 DEF RegisterNode, enrollment
  <2>6. CASE DiscardSigner
    BY <2>6 DEF DiscardSigner, receipt
  <2>7. CASE UNCHANGED <<receipt, enrollment>>
    BY <2>7 DEF receipt, enrollment
  <2> QED BY <2>1, <2>2, <2>3, <2>4, <2>5, <2>6, <2>7, ReceiptSteps
<1>2. issued' # {} => issued # {} \/ (pinned /\ topology # "single-server")
  <2>1. CASE WriteEnrollment
    BY <1>0, <2>1 DEF WriteEnrollment, Issuing
  <2>2. CASE Expire
    BY <2>2 DEF Expire
  <2>3. ASSUME NEW n \in Name, NEW r \in Role, BeginEnroll(n, r) PROVE issued' = issued
    BY <2>3 DEF BeginEnroll
  <2>4. CASE CreateSigner \/ SaveCluster \/ RegisterNode \/ ForgetNode \/ Advance \/ DiscardSigner
    BY <2>4 DEF CreateSigner, SaveCluster, RegisterNode, ForgetNode, Advance, DiscardSigner, enrollment
  <2> QED BY <2>1, <2>2, <2>3, <2>4, ReceiptSteps DEF enrollment
<1>3. (\E n \in Name : host'[n] # None \/ Live(n)') => issued # {} \/ (\E n \in Name : host[n] # None \/ Live(n))
  <2> SUFFICES ASSUME NEW x \in Name, host'[x] # None \/ Live(x)', \A n \in Name : host[n] = None /\ ~Live(n),
                      issued = {}
               PROVE  FALSE
    OBVIOUS
  <2>1. ~(Cordon \/ Drain \/ DeleteNode)
    <3>1. ASSUME Cordon \/ Drain \/ DeleteNode PROVE host' = host /\ node' = node
      BY <3>1, <1>0 DEF Cordon, Drain, DeleteNode, Jobs, RemoveLabel
    <3> QED BY <3>1 DEF Live
  <2>2. ASSUME NEW n \in Name, Join(n) \/ AgentRegisters(n) \/ UpgradeWorker(n) \/ Uninstall(n) \/ Uncordon(n)
        PROVE  FALSE
    BY <2>2 DEF Join, AgentRegisters, UpgradeWorker, Uninstall, Uncordon
  <2> QED BY <2>1, <2>2, MemberSteps DEF members, Live
<1>4. IssuedIsRecorded'
  BY <1>0, <1>1, <1>2, <1>3 DEF IssuedIsRecorded
<1>5. Issuing'
  <2>1. CASE pc' \notin {"key", "save", "write"}
    BY <2>1 DEF Issuing
  <2>2. ASSUME NEW n \in Name, NEW r \in Role, BeginEnroll(n, r) PROVE Issuing'
    BY <1>0, <2>2 DEF BeginEnroll, Begin, Issuing, receipt
  <2>3. CASE CreateSigner
    BY <2>3 DEF CreateSigner, Goto, Return, Issuing
  <2>4. CASE SaveCluster
    BY <1>g, <2>4 DEF SaveCluster, Goto, Return, Issuing
  <2>5. CASE pc' = pc /\ ~(CreateSigner \/ SaveCluster) /\ pc \in {"key", "save", "write"}
    <3>1. ~\E n \in Name, r \in Role : BeginEnroll(n, r)
      BY <2>5 DEF BeginEnroll, Begin
    <3>2. CASE WriteEnrollment \/ RegisterNode \/ ForgetNode \/ Advance \/ DiscardSigner
      BY <2>5, <3>2 DEF WriteEnrollment, RegisterNode, ForgetNode, Advance, DiscardSigner, Return
    <3>3. UNCHANGED <<signer, pinned, topology>>
      BY <2>5, <3>1, <3>2, ReceiptSteps DEF receipt, enrollment, Expire, RegisterNode, ForgetNode, Advance,
         WriteEnrollment, DiscardSigner, Return
    <3> QED BY <1>0, <2>5, <3>3 DEF Issuing
  <2> QED BY <2>1, <2>2, <2>3, <2>4, <2>5, EnrollSteps
<1> QED BY <1>4, <1>5

-----------------------------------------------------------------------------
(* Nodes, their releases and their routes.                                 *)

\* What the invariant says of nodes, for the lemmas below.
Nodes ==
    /\ ReceiptTypes /\ MemberTypes /\ CommandTypes /\ Jobs
    /\ Uids /\ Given /\ Removing /\ Replaced /\ Routed

NodesKept == Uids' /\ Given' /\ Removing' /\ Replaced' /\ Routed'

\* A step that leaves the nodes, the releases and the routes alone, ...
Still ==
    /\ UNCHANGED <<nodes, fresh, inference, late>>
    /\ \A n \in Name : node'[n].uid = node[n].uid

LEMMA StillRoutes == ASSUME Still, ReceiptTypes, MemberTypes, Uids, Replaced, Routed
                     PROVE  Uids' /\ Replaced' /\ Routed'
BY DEF Still, inference, Uids, Replaced, Routed, Enrolled

\* ... and the command alone, or ends it, or begins another.
LEMMA StillNodes ==
    ASSUME Nodes, Still,
           \/ pc' = pc /\ job'.name = job.name /\ job'.uid = job.uid
           \/ pc' \notin RemoveLabel \cup {"register", "apply"}
           \/ pc \in RemoveLabel /\ pc' \in {"read", "patch"} /\ job' = job
           \/ /\ pc \in RemoveLabel /\ pc' \in {"drain", "uninstall"} /\ job' = job
              /\ job.uid \notin routing \ late
    PROVE  NodesKept
<1> USE DEF Nodes, Still, inference
<1>1. Uids' /\ Replaced' /\ Routed'
  BY StillRoutes
<1>n. pc \in RemoveLabel \cup {"register", "apply"} => job.name \in Name
  BY DEF Jobs
<1>2. Given'
  BY <1>n DEF Given, RemoveLabel
<1>3. Removing'
  BY <1>n DEF Removing, RemoveLabel, Withdrawn
<1> QED BY <1>1, <1>2, <1>3 DEF NodesKept

LEMMA BeginNodes ==
    ASSUME Nodes, Next, pc = "idle", pc' # "idle"
    PROVE  NodesKept
<1>0. ~Step /\ ~Crash
  BY DEF Nodes, Step, CreateSigner, SaveCluster, WriteEnrollment, RegisterNode, InstallOrUpgrade, Cordon, ReadRouting,
         PatchRouting, Drain, UninstallRelease, DeleteNode, ForgetNode, Gate, ReadVersion, Advance, Crash
<1>e. ~Environment
  BY <1>0 DEF Environment, Join, AgentRegisters, UpgradeWorker, Uninstall, Publish, Uncordon, Expire, DiscardSigner, command
<1> USE DEF Nodes, Still, inference, receipt, members, Begin, NoJob
<1>1. ASSUME NEW n \in Name, NEW r \in Role, BeginEnroll(n, r) PROVE NodesKept
  BY <1>1, StillNodes DEF BeginEnroll, RemoveLabel
<1>2. ASSUME NEW v \in Release, BeginUpgrade(v) PROVE NodesKept
  BY <1>2, StillNodes DEF BeginUpgrade, RemoveLabel
<1>3. ASSUME NEW n \in Name, NEW r \in Role, BeginRegister(n, r) PROVE NodesKept
  <2>1. Still /\ pc' = "register" /\ job'.name = n /\ job'.uid = node[n].uid
    BY <1>3 DEF BeginRegister
  <2>2. Uids' /\ Replaced' /\ Routed'
    BY <2>1, StillRoutes
  <2>3. Given' /\ Removing'
    BY <2>1 DEF Given, Removing, RemoveLabel, Withdrawn
  <2> QED BY <2>2, <2>3 DEF NodesKept
<1>4. ASSUME NEW n \in Name, BeginDeploy(n) PROVE NodesKept
  <2>1. Still /\ pc' = "apply" /\ job'.name = n /\ job'.uid = node[n].uid /\ nodes[n].uid = node[n].uid
    BY <1>4 DEF BeginDeploy
  <2>2. Uids' /\ Replaced' /\ Routed'
    BY <2>1, StillRoutes
  <2>3. Given' /\ Removing'
    BY <2>1 DEF Given, Removing, RemoveLabel, Withdrawn
  <2> QED BY <2>2, <2>3 DEF NodesKept
<1>5. ASSUME NEW n \in Name, BeginRemove(n) PROVE NodesKept
  <2>1. Still /\ pc' = "cordon" /\ job'.name = n /\ job'.uid = nodes[n].uid
    BY <1>5 DEF BeginRemove
  <2>2. Uids' /\ Replaced' /\ Routed'
    BY <2>1, StillRoutes
  <2>3. Given' /\ Removing'
    BY <2>1 DEF Given, Removing, RemoveLabel, Withdrawn
  <2> QED BY <2>2, <2>3 DEF NodesKept
<1> QED BY <1>0, <1>e, <1>1, <1>2, <1>3, <1>4, <1>5 DEF Next, Command

\* The steps that change what is known of a node.
LEMMA RegisterNodes == ASSUME Nodes, RegisterNode PROVE NodesKept
<1> DEFINE x == job.name
<1>0. /\ x \in Name /\ job.uid \in Uid /\ job.uid = node[x].uid /\ pc' = "idle"
      /\ UNCHANGED <<node, fresh, deployed, routing, late>>
  BY DEF Nodes, RegisterNode, Return, Jobs, Given, members, inference
<1>1. CASE nodes' = nodes
  BY <1>0, <1>1, StillNodes DEF Still, inference, RemoveLabel
<1>2. CASE nodes' = [nodes EXCEPT ![x] = [uid |-> job.uid, role |-> job.role]]
  <2>1. nodes'[x].uid = node[x].uid /\ \A n \in Name \ {x} : nodes'[n] = nodes[n]
    BY <1>0, <1>2 DEF Nodes, ReceiptTypes
  <2>2. Uids'
    BY <1>0, <2>1, Numbers DEF Nodes, Uids
  <2>3. Given' /\ Removing'
    BY <1>0, <2>1 DEF Nodes, Given, Removing, RemoveLabel, Withdrawn
  <2>4. Replaced'
    BY <1>0, <2>1 DEF Nodes, Replaced, Enrolled
  <2>5. ASSUME NEW u \in routing \ late PROVE \E n \in Name : nodes'[n].uid = u
    <3>1. PICK n \in Name : nodes[n].uid = u
      BY <2>5 DEF Nodes, Routed
    <3>2. u \in Uid /\ Enrolled(n)
      BY <3>1, Fields, Numbers DEF Nodes, MemberTypes
    <3>3. n = x => nodes[n].uid = node[n].uid
      BY <3>1, <3>2 DEF Nodes, Replaced
    <3> QED BY <2>1, <3>1, <3>3
  <2> QED BY <1>0, <2>2, <2>3, <2>4, <2>5 DEF NodesKept, Routed
<1> QED BY <1>1, <1>2 DEF RegisterNode

LEMMA ForgetNodes == ASSUME Nodes, ForgetNode PROVE NodesKept
<1> DEFINE x == job.name
<1>0. /\ x \in Name /\ job.uid \in Uid /\ job.uid = nodes[x].uid /\ pc' = "idle" /\ deployed[x] = None
      /\ job.uid \notin routing \ late
      /\ UNCHANGED <<node, fresh, deployed, routing, late>>
  BY DEF Nodes, ForgetNode, Return, Jobs, Removing, members, inference, RemoveLabel, Withdrawn
<1>1. CASE nodes' = nodes
  BY <1>0, <1>1, StillNodes DEF Still, inference, RemoveLabel
<1>2. CASE nodes' = [nodes EXCEPT ![x] = NoMember]
  <2>1. nodes'[x] = NoMember /\ nodes'[x].uid = None /\ \A n \in Name \ {x} : nodes'[n] = nodes[n]
    BY <1>0, <1>2 DEF Nodes, ReceiptTypes, NoMember
  <2>2. Uids'
    BY <1>0, <2>1, Numbers DEF Nodes, Uids, MemberTypes
  <2>3. Given' /\ Removing'
    BY <1>0, <2>1 DEF Nodes, Given, Removing, RemoveLabel, Withdrawn
  <2>4. Replaced'
    BY <1>0, <2>1 DEF Nodes, Replaced, Enrolled
  <2>5. Routed'
    BY <1>0, <2>1 DEF Nodes, Routed
  <2> QED BY <2>2, <2>3, <2>4, <2>5 DEF NodesKept
<1> QED BY <1>1, <1>2 DEF ForgetNode

LEMMA DeployNodes == ASSUME Nodes, InstallOrUpgrade PROVE NodesKept
<1> DEFINE x == job.name
<1>0. /\ x \in Name /\ job.uid \in Uid /\ job.uid = node[x].uid /\ job.uid = nodes[x].uid /\ pc' = "idle"
      /\ UNCHANGED <<nodes, node, fresh, routing, late>>
      /\ deployed' \in {deployed, [deployed EXCEPT ![x] = job.uid]}
  BY DEF Nodes, InstallOrUpgrade, Return, Jobs, Given, members, receipt
<1>1. Uids' /\ Replaced' /\ Routed' /\ Removing'
  BY <1>0 DEF Nodes, Uids, Replaced, Routed, Removing, Enrolled, RemoveLabel, Withdrawn
<1>2. \A n \in Name : deployed'[n] = deployed[n] \/ (n = x /\ deployed'[n] = job.uid)
  BY <1>0 DEF Nodes, MemberTypes
<1>3. Given'
  BY <1>0, <1>2 DEF Nodes, Given
<1> QED BY <1>1, <1>3 DEF NodesKept

LEMMA WithdrawNodes == ASSUME Nodes, PatchRouting PROVE NodesKept
<1>0. /\ job.name \in Name /\ job.uid \in Uid /\ job.uid = nodes[job.name].uid /\ pc = "patch"
      /\ UNCHANGED <<nodes, node, fresh, deployed>>
  BY DEF Nodes, PatchRouting, Jobs, Removing, members, receipt, RemoveLabel
<1>1. CASE UNCHANGED <<routing, late>> /\ Return
  BY <1>0, <1>1, StillNodes DEF Still, inference, Return, RemoveLabel
<1>2. CASE Withdraw
  <2>1. /\ routing' \ late' \subseteq routing \ late /\ job.uid \notin routing'
        /\ pc' = "drain" /\ job' = job
    BY <1>2 DEF Withdraw, Goto
  <2>2. Uids' /\ Given'
    BY <1>0, <2>1 DEF Nodes, Uids, Given
  <2>3. Replaced' /\ Routed'
    BY <1>0, <2>1 DEF Nodes, Replaced, Routed, Enrolled
  <2>4. Removing'
    BY <1>0, <2>1 DEF Nodes, Removing, RemoveLabel, Withdrawn
  <2> QED BY <2>2, <2>3, <2>4 DEF NodesKept
<1> QED BY <1>1, <1>2 DEF PatchRouting

LEMMA UninstallNodes == ASSUME Nodes, UninstallRelease PROVE NodesKept
<1> DEFINE x == job.name
<1>0. /\ x \in Name /\ job.uid \in Uid /\ job.uid = nodes[x].uid /\ pc = "uninstall"
      /\ job.uid \notin routing \ late
      /\ UNCHANGED <<nodes, node, fresh, routing, late>>
  BY DEF Nodes, UninstallRelease, Jobs, Removing, members, receipt, RemoveLabel, Withdrawn
<1>1. CASE UNCHANGED deployed /\ Return
  BY <1>0, <1>1, StillNodes DEF Still, inference, Return, RemoveLabel
<1>2. CASE deployed' = [deployed EXCEPT ![x] = None] /\ Goto("delete")
  <2>1. deployed'[x] = None /\ (\A n \in Name \ {x} : deployed'[n] = deployed[n]) /\ pc' = "delete" /\ job' = job
    BY <1>0, <1>2 DEF Nodes, MemberTypes, Goto
  <2>2. Uids' /\ Replaced' /\ Routed'
    BY <1>0 DEF Nodes, Uids, Replaced, Routed, Enrolled
  <2>3. Given'
    BY <1>0, <2>1 DEF Nodes, Given
  <2>4. Removing'
    BY <1>0, <2>1 DEF Nodes, Removing, RemoveLabel, Withdrawn
  <2> QED BY <2>2, <2>3, <2>4 DEF NodesKept
<1> QED BY <1>1, <1>2 DEF UninstallRelease

LEMMA DeleteNodes == ASSUME Nodes, DeleteNode PROVE NodesKept
<1> DEFINE x == job.name
<1>0. /\ x \in Name /\ job.uid \in Uid /\ job.uid = nodes[x].uid /\ pc = "delete" /\ deployed[x] = None
      /\ job.uid \notin routing \ late
      /\ UNCHANGED <<nodes, fresh, deployed, routing, late>>
  BY DEF Nodes, DeleteNode, Jobs, Removing, receipt, inference, RemoveLabel, Withdrawn
<1>1. CASE UNCHANGED node /\ Return
  BY <1>0, <1>1, StillNodes DEF Still, inference, Return, RemoveLabel
<1>2. CASE node' = [node EXCEPT ![x] = NoNode] /\ Goto("forget")
  <2>1. node'[x].uid = None /\ (\A n \in Name \ {x} : node'[n] = node[n]) /\ pc' = "forget" /\ job' = job
    BY <1>0, <1>2 DEF Nodes, MemberTypes, Goto, NoNode
  <2>2. Uids'
    BY <1>0, <2>1, Numbers DEF Nodes, Uids, MemberTypes
  <2>3. Given'
    BY <1>0, <2>1 DEF Nodes, Given
  <2>4. Removing'
    BY <1>0, <2>1 DEF Nodes, Removing, RemoveLabel, Withdrawn
  <2>5. Replaced' /\ Routed'
    BY <1>0, <2>1 DEF Nodes, Replaced, Routed, Enrolled
  <2> QED BY <2>2, <2>3, <2>4, <2>5 DEF NodesKept
<1> QED BY <1>1, <1>2 DEF DeleteNode

LEMMA AgentNodes == ASSUME Nodes, NEW x \in Name, AgentRegisters(x) PROVE NodesKept
<1>0. /\ UNCHANGED <<nodes, deployed, routing, late, pc>> /\ fresh \in 0..MaxUid /\ fresh' = fresh + 1
      /\ job'.name = job.name /\ job'.uid = job.uid
      /\ node[x].uid = None /\ node'[x].uid = fresh' /\ \A n \in Name \ {x} : node'[n] = node[n]
  <2>1. UNCHANGED <<nodes, deployed, routing, late, pc>> /\ fresh \in 0..MaxUid /\ fresh' = fresh + 1
    BY DEF Nodes, AgentRegisters, MemberTypes, receipt, inference
  <2>2. job'.name = job.name /\ job'.uid = job.uid
    BY DEF Nodes, AgentRegisters, Changed, CommandTypes, Job
  <2>3. node[x].uid = None
    BY Fields DEF Nodes, AgentRegisters
  <2>4. node'[x].uid = fresh' /\ \A n \in Name \ {x} : node'[n] = node[n]
    BY DEF Nodes, AgentRegisters, MemberTypes
  <2> QED BY <2>1, <2>2, <2>3, <2>4
<1>1. deployed[x] = None
  BY <1>0 DEF Nodes, Given
<1>2. Uids'
  BY <1>0, Numbers DEF Nodes, Uids
<1>n. /\ pc \in {"register", "apply"} => job.name \in Name /\ job.uid \in Uid
      /\ pc \in RemoveLabel => job.name \in Name
  BY DEF Nodes, Jobs
<1>3. Given'
  <2>1. pc \in {"register", "apply"} => job.name # x
    BY <1>0, <1>n, Numbers DEF Nodes, Given
  <2> QED BY <1>0, <1>1, <1>n, <2>1 DEF Nodes, Given
<1>4. Removing'
  BY <1>0, <1>n DEF Nodes, Removing, RemoveLabel, Withdrawn
<1>5. Replaced' /\ Routed'
  <2>1. Enrolled(x) => nodes[x].uid # node[x].uid
    BY <1>0, Fields DEF Nodes
  <2> QED BY <1>0, <2>1 DEF Nodes, Replaced, Routed, Enrolled
<1> QED BY <1>2, <1>3, <1>4, <1>5 DEF NodesKept

LEMMA PublishNodes == ASSUME Nodes, NEW x \in Name, Publish(x) PROVE NodesKept
<1>0. /\ UNCHANGED <<nodes, node, fresh, deployed, pc>>
      /\ job'.name = job.name /\ job'.uid = job.uid
      /\ deployed[x] # None /\ deployed[x] = nodes[x].uid /\ deployed[x] = node[x].uid
      /\ routing' = routing \cup {deployed[x]} /\ late' \in {late, late \cup {deployed[x]}}
  <2>1. /\ UNCHANGED <<nodes, node, fresh, deployed, pc>> /\ deployed[x] # None
        /\ routing' = routing \cup {deployed[x]} /\ late' \in {late, late \cup {deployed[x]}}
    BY DEF Publish, receipt, members
  <2>2. job'.name = job.name /\ job'.uid = job.uid
    BY DEF Nodes, Publish, CommandTypes, Job
  <2> QED BY <2>1, <2>2 DEF Nodes, Given
<1>n. pc \in RemoveLabel \cup {"register", "apply"} => job.name \in Name
  BY DEF Nodes, Jobs
<1>1. Uids' /\ Given'
  BY <1>0, <1>n DEF Nodes, Uids, Given
<1>2. Removing'
  <2>1. pc \in Withdrawn /\ job.uid = deployed[x] => deployed[x] \in late'
    BY DEF Nodes, Publish, Withdrawn, Jobs, RemoveLabel
  <2>2. pc \in Withdrawn => job.uid \notin routing' \ late'
    BY <1>0, <2>1 DEF Nodes, Removing
  <2> QED BY <1>0, <1>n, <2>2 DEF Nodes, Removing
<1>3. Replaced'
  <2> SUFFICES ASSUME NEW n \in Name, Enrolled(n), node[n].uid # nodes[n].uid
               PROVE  nodes[n].uid \notin routing' \ late'
    BY <1>0 DEF Replaced, Enrolled
  <2>1. nodes[n].uid # deployed[x]
    BY <1>0, Fields DEF Nodes, Uids
  <2> QED BY <1>0, <2>1 DEF Nodes, Replaced
<1>4. Routed'
  BY <1>0 DEF Nodes, Routed
<1> QED BY <1>1, <1>2, <1>3, <1>4 DEF NodesKept

\* A step of another kind changes no uid.
LEMMA OtherNodes ==
    ASSUME Nodes, Next, pc = "idle" => pc' = "idle",
           ~(RegisterNode \/ ForgetNode \/ InstallOrUpgrade \/ PatchRouting \/ UninstallRelease \/ DeleteNode),
           ~\E n \in Name : AgentRegisters(n) \/ Publish(n)
    PROVE  NodesKept
<1> USE DEF Nodes, Still, receipt, inference, members
<1>1. ~\E n \in Name, r \in Role : BeginEnroll(n, r) \/ BeginRegister(n, r)
  BY DEF BeginEnroll, BeginRegister, Begin
<1>2. ~\E n \in Name : BeginDeploy(n) \/ BeginRemove(n)
  BY DEF BeginDeploy, BeginRemove, Begin
<1>3. ~\E v \in Release : BeginUpgrade(v)
  BY DEF BeginUpgrade, Begin
<1>4. CASE CreateSigner \/ SaveCluster \/ WriteEnrollment
  <2>1. Still /\ pc' \in {"save", "write", "idle"}
    BY <1>4 DEF CreateSigner, SaveCluster, WriteEnrollment, Goto, Return
  <2> QED BY <2>1, StillNodes DEF RemoveLabel
<1>5. CASE Gate \/ ReadVersion \/ Advance \/ Crash
  <2>1. Still
    BY <1>5 DEF Gate, ReadVersion, Advance, Crash
  <2>2. pc' \in {"advance", "versions", "idle"}
    BY <1>5 DEF Gate, ReadVersion, Advance, Crash, Goto, Return
  <2> QED BY <2>1, <2>2, StillNodes DEF RemoveLabel
<1>6. CASE Cordon \/ Drain
  <2>1. UNCHANGED <<nodes, fresh, inference, late>>
    BY <1>6 DEF Cordon, Drain
  <2>2. job.name \in Name /\ \A n \in Name : node'[n].uid = node[n].uid
    <3>1. job.name \in Name
      BY <1>6 DEF Cordon, Drain, Jobs, RemoveLabel
    <3>2. \/ node' = node
          \/ Live(job.name) /\ \E p \in Pods : node' = [node EXCEPT ![job.name].pods = p]
      BY <1>6, <3>1, Fields DEF Cordon, Drain, Pods
    <3>3. ASSUME NEW p \in Pods, Live(job.name), node' = [node EXCEPT ![job.name].pods = p], NEW n \in Name
          PROVE  node'[n].uid = node[n].uid
      <4>1. node[job.name] \in [uid : Uid, k3s : K3sVersion, pods : Pods]
        BY <3>1, <3>3 DEF MemberTypes, Live
      <4> QED BY <3>1, <3>3, <4>1 DEF MemberTypes
    <3> QED BY <3>1, <3>2, <3>3
  <2>3. Cordon => pc = "cordon" /\ (pc' = "idle" \/ (pc' = "read" /\ job' = job))
    BY DEF Cordon, Goto, Return
  <2>4. Drain => pc = "drain" /\ (pc' = "idle" \/ (pc' = "uninstall" /\ job' = job))
    BY DEF Drain, Goto, Return
  <2>5. pc = "drain" => job.uid \notin routing \ late
    BY DEF Removing, Withdrawn
  <2> QED BY <1>6, <2>1, <2>2, <2>3, <2>4, <2>5, StillNodes DEF RemoveLabel
<1>7. CASE ReadRouting
  <2>1. Still
    BY <1>7 DEF ReadRouting
  <2>2. /\ pc = "read"
        /\ \/ pc' = "idle"
           \/ pc' = "patch" /\ job' = job
           \/ pc' = "drain" /\ job' = job /\ job.uid \notin routing
    BY <1>7 DEF ReadRouting, Goto, Return
  <2> QED BY <2>1, <2>2, StillNodes DEF RemoveLabel
<1>8. ASSUME NEW n \in Name, Join(n) \/ Uninstall(n) PROVE NodesKept
  BY <1>8, StillNodes DEF Join, Uninstall, command
<1>9. ASSUME NEW n \in Name, UpgradeWorker(n) PROVE NodesKept
  <2>1. UNCHANGED <<nodes, fresh, inference, late, pc>>
    BY <1>9 DEF UpgradeWorker
  <2>2. \A x \in Name : node'[x].uid = node[x].uid
    BY <1>9 DEF UpgradeWorker, MemberTypes, Live
  <2>3. job'.name = job.name /\ job'.uid = job.uid
    BY <1>9 DEF UpgradeWorker, Changed, CommandTypes, Job
  <2> QED BY <2>1, <2>2, <2>3, StillNodes
<1>10. ASSUME NEW n \in Name, Uncordon(n) PROVE NodesKept
  <2>1. UNCHANGED <<nodes, fresh, inference, late, pc, job>>
    BY <1>10 DEF Uncordon, command
  <2>2. \A x \in Name : node'[x].uid = node[x].uid
    BY <1>10 DEF Uncordon, MemberTypes, Live
  <2> QED BY <2>1, <2>2, StillNodes
<1>11. CASE Expire \/ DiscardSigner
  BY <1>11, StillNodes DEF Expire, DiscardSigner, command
<1> QED BY <1>1, <1>2, <1>3, <1>4, <1>5, <1>6, <1>7, <1>8, <1>9, <1>10, <1>11 DEF Next, Command, Step, Environment

LEMMA NextNodes == FleetInv /\ Next => NodesKept
<1> SUFFICES ASSUME FleetInv, Next PROVE NodesKept
  OBVIOUS
<1>1. Nodes
  BY TypeParts DEF FleetInv, Nodes
<1> QED BY <1>1, BeginNodes, RegisterNodes, ForgetNodes, DeployNodes, WithdrawNodes, UninstallNodes, DeleteNodes,
           AgentNodes, PublishNodes, OtherNodes

-----------------------------------------------------------------------------
(* The gate of the upgrade.                                                *)

LEMMA NextGrows == FleetInv /\ Next => Grows'
<1> SUFFICES ASSUME FleetInv, Next PROVE Grows'
  OBVIOUS
<1>0. ReceiptTypes /\ Jobs /\ Grows
  BY TypeParts DEF FleetInv
<1>1. ASSUME NEW n \in Name, NEW r \in Role, BeginEnroll(n, r) PROVE Grows'
  BY <1>0, <1>1 DEF BeginEnroll, receipt, Grows
<1>2. CASE CreateSigner \/ WriteEnrollment \/ Advance \/ Expire \/ DiscardSigner
  BY <1>0, <1>2 DEF CreateSigner, WriteEnrollment, Advance, Expire, DiscardSigner, receipt, Grows
<1>3. CASE SaveCluster
  BY <1>0, <1>3 DEF SaveCluster, Grows, Grown
<1>4. CASE RegisterNode
  <2>1. CASE UNCHANGED <<nodes, topology>>
    BY <1>0, <2>1 DEF Grows
  <2>2. CASE /\ nodes' = [nodes EXCEPT ![job.name] = [uid |-> job.uid, role |-> job.role]]
             /\ topology' = Grown(job.role)
    <3>1. \A n \in Name : nodes'[n].role = nodes[n].role \/ nodes'[n].role = job.role
      BY <1>0, <2>2 DEF ReceiptTypes
    <3> QED BY <1>0, <2>2, <3>1 DEF Grows, Grown
  <2> QED BY <1>4, <2>1, <2>2 DEF RegisterNode
<1>5. CASE ForgetNode
  <2>1. \A n \in Name : nodes'[n].role \in {nodes[n].role, "none"}
    BY <1>0, <1>5 DEF ForgetNode, ReceiptTypes, NoMember
  <2> QED BY <1>0, <1>5, <2>1 DEF ForgetNode, Grows
<1>6. CASE UNCHANGED <<receipt, enrollment>>
  BY <1>0, <1>6 DEF receipt, Grows
<1> QED BY <1>1, <1>2, <1>3, <1>4, <1>5, <1>6, ReceiptSteps

\* Behind the gate a Node object that changes is noted.
Noted == \A n \in Name \ job'.since : Live(n)' => Live(n) /\ node'[n].k3s = node[n].k3s

LEMMA NextGated == FleetInv /\ Next => Gated'
<1> SUFFICES ASSUME FleetInv, Next PROVE Gated'
  OBVIOUS
<1>0. ReceiptTypes /\ MemberTypes /\ CommandTypes /\ Jobs /\ Grows /\ Gated
  BY TypeParts DEF FleetInv
<1> USE <1>0
<1>1. ASSUME pc' \notin {"versions", "advance"} PROVE Gated'
  BY <1>1 DEF Gated
<1>2. ASSUME UNCHANGED <<topology, pc>>, job'.release = job.release, job'.left = job.left, job.since \subseteq job'.since,
             Noted
      PROVE  Gated'
  <2>1. CASE pc = "versions"
    <3>1. ASSUME NEW n \in Name \ (job'.since \cup job'.left), Live(n)' PROVE node'[n].k3s = K3sOf[job'.release]
      BY <1>2, <2>1, <3>1 DEF Gated, Noted
    <3> QED BY <1>2, <2>1, <3>1 DEF Gated
  <2>2. CASE pc = "advance" /\ topology = "server-workers"
    <3>1. ASSUME NEW n \in Name \ job'.since, Live(n)' PROVE node'[n].k3s = K3sOf[job'.release]
      BY <1>2, <2>2, <3>1 DEF Gated, Noted
    <3> QED BY <1>2, <2>2, <3>1 DEF Gated
  <2>3. CASE pc # "versions" /\ ~(pc = "advance" /\ topology = "server-workers")
    BY <1>2, <2>3 DEF Gated
  <2> QED BY <2>1, <2>2, <2>3
<1>3. CASE Command
  <2>1. pc' \notin {"versions", "advance"}
    BY <1>3 DEF Command, BeginEnroll, BeginRegister, BeginDeploy, BeginRemove, BeginUpgrade, Begin
  <2> QED BY <1>1, <2>1
<1>4. CASE CreateSigner \/ SaveCluster \/ WriteEnrollment \/ RegisterNode \/ InstallOrUpgrade \/ Advance \/ Crash
  <2>1. pc' \notin {"versions", "advance"}
    BY <1>4 DEF CreateSigner, SaveCluster, WriteEnrollment, RegisterNode, InstallOrUpgrade, Advance, Crash, Goto, Return
  <2> QED BY <1>1, <2>1
<1>5. CASE Cordon \/ ReadRouting \/ PatchRouting \/ Drain \/ UninstallRelease \/ DeleteNode \/ ForgetNode
  <2>1. Cordon \/ Drain \/ UninstallRelease \/ DeleteNode \/ ForgetNode => pc' \notin {"versions", "advance"}
    BY DEF Cordon, Drain, UninstallRelease, DeleteNode, ForgetNode, Goto, Return
  <2>2. ReadRouting \/ PatchRouting => pc' \notin {"versions", "advance"}
    BY DEF ReadRouting, PatchRouting, Withdraw, Goto, Return
  <2> QED BY <1>1, <1>5, <2>1, <2>2
<1>6. CASE Gate
  <2>1. CASE topology # "server-workers" /\ pc' = "advance"
    BY <1>6, <2>1 DEF Gate, receipt, Gated
  <2>2. CASE /\ topology = "server-workers" /\ InventoryIsHealthy /\ pc' = "versions"
             /\ job' = [job EXCEPT !.left = {n \in Name : nodes[n].role = "inference"}]
    <3>1. job'.left = {n \in Name : nodes[n].role = "inference"} /\ UNCHANGED <<topology, node>>
      BY <1>6, <2>2 DEF Gate, CommandTypes, Job, receipt, members
    <3>2. ASSUME NEW n \in Name \ job'.left PROVE ~Live(n)
      <4>1. nodes[n].role # "inference" /\ nodes[n].role # "prime"
        BY <2>2, <3>1 DEF Grows
      <4>2. nodes[n] = NoMember
        BY <4>1 DEF ReceiptTypes, Role
      <4>3. nodes[n].uid = None
        BY <4>2 DEF NoMember
      <4> QED BY <2>2, <4>3, Fields DEF InventoryIsHealthy
    <3> QED BY <2>2, <3>1, <3>2 DEF Gated, Live
  <2>3. CASE Return
    BY <1>1, <2>3 DEF Return
  <2> QED BY <1>6, <2>1, <2>2, <2>3 DEF Gate
<1>7. CASE ReadVersion
  <2>1. pc = "versions" /\ UNCHANGED <<topology, node>>
    BY <1>7 DEF ReadVersion, receipt, members
  <2>2. ASSUME NEW n \in job.left, node[n].k3s = K3sOf[job.release], job' = [job EXCEPT !.left = job.left \ {n}], UNCHANGED pc
        PROVE  Gated'
    <3>1. job'.left = job.left \ {n} /\ job'.since = job.since /\ job'.release = job.release
      BY <2>2 DEF CommandTypes, Job
    <3> QED BY <2>1, <2>2, <3>1 DEF Gated, Live
  <2>3. CASE job.left = {} /\ Goto("advance")
    BY <2>1, <2>3 DEF Goto, Gated, Live
  <2>4. CASE Return
    BY <1>1, <2>4 DEF Return
  <2> QED BY <1>7, <2>2, <2>3, <2>4 DEF ReadVersion
<1>8. ASSUME NEW x \in Name, AgentRegisters(x) \/ UpgradeWorker(x) PROVE Gated'
  <2>1. UNCHANGED <<topology, pc, op>>
    BY <1>8 DEF AgentRegisters, UpgradeWorker, receipt
  <2>2. CASE topology = "server-workers" /\ pc \in {"versions", "advance"}
    <3>1. job' = [job EXCEPT !.since = job.since \cup {x}]
      BY <1>8, <2>2 DEF AgentRegisters, UpgradeWorker, Changed
    <3>2. job'.since = job.since \cup {x} /\ job'.left = job.left /\ job'.release = job.release
      BY <3>1 DEF CommandTypes, Job
    <3>3. \A n \in Name \ {x} : node'[n] = node[n]
      BY <1>8 DEF AgentRegisters, UpgradeWorker, MemberTypes
    <3>4. Noted
      BY <3>2, <3>3 DEF Noted, Live
    <3> QED BY <1>2, <2>1, <3>2, <3>4
  <2>3. CASE ~(topology = "server-workers" /\ pc \in {"versions", "advance"})
    BY <2>1, <2>3 DEF Gated
  <2> QED BY <2>2, <2>3
<1>9. ASSUME NEW x \in Name, Join(x) \/ Uninstall(x) \/ Publish(x) PROVE Gated'
  <2>1. UNCHANGED <<topology, pc, node>>
    BY <1>9 DEF Join, Uninstall, Publish, receipt, members, command
  <2>2. job'.release = job.release /\ job'.left = job.left /\ job'.since = job.since
    BY <1>9 DEF Join, Uninstall, Publish, command, CommandTypes, Job
  <2> QED BY <1>2, <2>1, <2>2 DEF Noted, Live
<1>10. ASSUME NEW x \in Name, Uncordon(x) PROVE Gated'
  BY <1>1, <1>10 DEF Uncordon, command
<1>11. CASE Expire \/ DiscardSigner
  <2>1. UNCHANGED <<topology, pc, node, job>>
    BY <1>11 DEF Expire, DiscardSigner, receipt, members, command
  <2> QED BY <1>2, <2>1 DEF Noted, Live
<1> QED BY <1>3, <1>4, <1>5, <1>6, <1>7, <1>8, <1>9, <1>10, <1>11 DEF Next, Step, Environment

-----------------------------------------------------------------------------

LEMMA InitInv == Init => FleetInv
<1> SUFFICES ASSUME Init PROVE FleetInv
  OBVIOUS
<1> USE Numbers DEF Init
<1>1. ReceiptTypes
  BY DEF ReceiptTypes, Topology
<1>2. MemberTypes
  BY DEF MemberTypes
<1>3. CommandTypes /\ Jobs
  BY DEF CommandTypes, Jobs, Label, RemoveLabel, NoJob, Job
<1>4. \A n \in Name : nodes[n].uid = None /\ nodes[n].role = "none" /\ node[n].uid = None /\ ~Live(n) /\ ~Enrolled(n)
  BY DEF NoMember, NoNode, Live, Enrolled
<1>5. IssuedIsRecorded /\ Issuing
  BY <1>4 DEF IssuedIsRecorded, Issuing
<1>6. Uids /\ Given /\ Removing /\ Replaced /\ Routed
  BY <1>4 DEF Uids, Given, Removing, Replaced, Routed, RemoveLabel, Withdrawn
<1>7. Grows /\ Gated
  BY <1>4 DEF Grows, Gated
<1> QED BY <1>1, <1>2, <1>3, <1>5, <1>6, <1>7, TypeParts DEF FleetInv

LEMMA TypesNext == ReceiptTypes' /\ MemberTypes' /\ CommandTypes' => TypeOK'
BY DEF TypeOK, ReceiptTypes, MemberTypes, CommandTypes

LEMMA NextInv == FleetInv /\ Next => FleetInv'
<1> SUFFICES ASSUME FleetInv, Next PROVE FleetInv'
  OBVIOUS
<1>1. TypeOK' /\ Jobs'
  BY TypesNext, NextReceipts, NextMembers, NextCommands
<1>2. Uids' /\ Given' /\ Removing' /\ Replaced' /\ Routed'
  BY NextNodes DEF NodesKept
<1> QED BY <1>1, <1>2, NextIssuing, NextGrows, NextGated DEF FleetInv

LEMMA StutterInv == FleetInv /\ UNCHANGED vars => FleetInv'
<1> SUFFICES ASSUME FleetInv, UNCHANGED vars PROVE FleetInv'
  OBVIOUS
<1> USE DEF vars, receipt, enrollment, members, inference, command
<1>1. TypeOK' /\ Jobs'
  BY DEF FleetInv, TypeOK, Jobs
<1>2. IssuedIsRecorded' /\ Issuing'
  BY DEF FleetInv, IssuedIsRecorded, Issuing, Live
<1>3. Uids' /\ Given' /\ Removing'
  BY DEF FleetInv, Uids, Given, Removing
<1>4. Replaced' /\ Routed'
  BY DEF FleetInv, Replaced, Routed, Enrolled
<1>5. Grows' /\ Gated'
  BY DEF FleetInv, Grows, Gated, Live
<1> QED BY <1>1, <1>2, <1>3, <1>4, <1>5 DEF FleetInv

LEMMA Inductive == Spec => []FleetInv
<1>1. FleetInv /\ [Next]_vars => FleetInv'
  BY NextInv, StutterInv
<1> QED BY InitInv, <1>1, PTL DEF Spec

-----------------------------------------------------------------------------

\* The state keeps its types.
THEOREM TypeCorrect == Spec => []TypeOK
<1>1. FleetInv => TypeOK
  BY DEF FleetInv
<1> QED BY Inductive, <1>1, PTL

\* No enrollment, and no host that joined with one, before the receipt says
\* what the cluster has become.
THEOREM IssuedTheorem == Spec => []IssuedIsRecorded
<1>1. FleetInv => IssuedIsRecorded
  BY DEF FleetInv
<1> QED BY Inductive, <1>1, PTL

\* What a node is given goes with its registration.
THEOREM OutlivesTheorem == Spec => []NothingOutlivesItsNode
<1>1. FleetInv => NothingOutlivesItsNode
  <2> SUFFICES ASSUME FleetInv PROVE ReleasesHaveMembers /\ RoutesHaveMembers
    BY DEF NothingOutlivesItsNode
  <2>1. ReleasesHaveMembers
    BY TypeParts, Fields DEF FleetInv, Given, ReleasesHaveMembers
  <2>2. RoutesHaveMembers
    BY DEF FleetInv, Routed, RoutesHaveMembers
  <2> QED BY <2>1, <2>2
<1> QED BY Inductive, <1>1, PTL

\* A removal withdraws its node, and no publication of another.
THEOREM PublicationsTheorem == Spec => PublicationsAreKept
<1>1. [Next]_vars => [routing \ routing' \subseteq {job.uid}]_vars
  <2> SUFFICES ASSUME Next PROVE routing \ routing' \subseteq {job.uid}
    OBVIOUS
  <2> QED BY InferenceSteps DEF InstallOrUpgrade, PatchRouting, Withdraw, UninstallRelease, Publish, inference
<1> QED BY <1>1, PTL DEF Spec, PublicationsAreKept

\* A control plane with workers advances only when each Node object that did
\* not change meanwhile runs the K3s version the target pins.
THEOREM AdvanceTheorem == Spec => AdvanceIsGated
<1>1. FleetInv /\ [Next]_vars =>
        [version' # version /\ topology = "server-workers" =>
            \A n \in Name \ job.since : Live(n) => node[n].k3s = K3sOf[version']]_vars
  <2> SUFFICES ASSUME FleetInv, Next, version' # version, topology = "server-workers"
               PROVE  \A n \in Name \ job.since : Live(n) => node[n].k3s = K3sOf[version']
    OBVIOUS
  <2>1. Advance
    BY ReceiptSteps DEF BeginEnroll, CreateSigner, SaveCluster, WriteEnrollment, RegisterNode, ForgetNode,
       Expire, DiscardSigner, receipt
  <2> QED BY <2>1 DEF Advance, FleetInv, Gated
<1> QED BY Inductive, <1>1, PTL DEF Spec, AdvanceIsGated
=============================================================================
