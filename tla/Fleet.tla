-------------------------------- MODULE Fleet --------------------------------
(***************************************************************************)
(* The control plane's view of its members (cmd/zonctl/cluster_commands.go,*)
(* internal/cluster): enrollments are issued, hosts join with them, joined *)
(* nodes are registered, get an inference release, are drained and         *)
(* removed, and the control plane upgrades once every worker has.          *)
(*                                                                         *)
(* The commands run on the control plane one at a time (Lifecycle); the    *)
(* members, the Kubernetes API and the inference manager act between any   *)
(* two of their steps.  A host that joins or upgrades does so in one step  *)
(* (Worker has the rest), and so does the upgrade behind its gate          *)
(* (Upgrade).  A node without inference is one that never gets a release;  *)
(* labels, Traefik's addresses and the CA are arguments and errors only.   *)
(***************************************************************************)
EXTENDS Naturals, FiniteSets

CONSTANTS
    Name,          \* the names of members, the control plane's excluded
    MaxUid,        \* a bound: the Node objects ever registered
    MaxIssued,     \* a bound: the enrollments valid at one time
    MaxRelease,    \* the releases are 1..MaxRelease
    K3sVersion,
    K3sOf          \* the K3s version the bundle of each release pins

ASSUME BoundsAssumption ==
    MaxUid \in Nat /\ MaxIssued \in Nat /\ MaxRelease \in Nat \ {0}

Release == 1..MaxRelease
Uid == 1..MaxUid
None == 0

ASSUME K3sAssumption == K3sOf \in [Release -> K3sVersion] /\ None \notin K3sVersion

Role == {"inference", "prime"}
Pods == {"any", "old", "none"}     \* open; cordoned: those there stay; drained
NoMember == [uid |-> None, role |-> "none"]
NoNode == [uid |-> None, k3s |-> None, pods |-> "none"]
Enrollment == [name : Name, k3s : K3sVersion]
Topology == {"single-server", "server-workers", "multi-server"}

VARIABLES
    nodes, topology, pinned, version,   \* the control plane's receipt
    signer,        \* the file of the signing key: none, part or key
    issued,        \* the enrollments that have not expired
    host,          \* [Name -> the K3s version of the agent on the host]
    node,          \* [Name -> the Node object of Kubernetes]
    fresh,         \* the uids used so far
    deployed,      \* [Name -> the uid its inference release was given]
    routing,       \* the uids in the routing registry
    pc, op, job,   \* the running command
    late           \* history: uids published again after their withdrawal

receipt == <<nodes, topology, pinned, version>>
enrollment == <<signer, issued>>
members == <<host, node, fresh>>
inference == <<deployed, routing>>
command == <<pc, op, job>>
vars == <<receipt, enrollment, members, inference, command, late>>

Label ==
    {"idle", "key", "save", "write", "register", "apply", "cordon", "read", "patch", "drain", "uninstall", "delete", "forget",
     "gate", "versions", "advance"}

\* What the command works on; of an upgrade, the workers whose version is still
\* to be read and those whose Node changed meanwhile; of a removal, that the
\* registry was revised since it was read.
Job == [name : Name \cup {"none"}, role : Role \cup {"none"}, uid : Uid \cup {None},
        release : Release \cup {None}, left : SUBSET Name, since : SUBSET Name,
        revised : BOOLEAN]
NoJob == [name |-> "none", role |-> "none", uid |-> None, release |-> None, left |-> {},
          since |-> {}, revised |-> FALSE]

TypeOK ==
    /\ nodes \in [Name -> [uid : Uid, role : Role] \cup {NoMember}]
    /\ topology \in Topology /\ pinned \in BOOLEAN /\ version \in Release
    /\ signer \in {"none", "part", "key"} /\ issued \subseteq Enrollment
    /\ host \in [Name -> K3sVersion \cup {None}]
    /\ node \in [Name -> [uid : Uid, k3s : K3sVersion, pods : Pods] \cup {NoNode}]
    /\ fresh \in 0..MaxUid
    /\ deployed \in [Name -> Uid \cup {None}] /\ routing \subseteq Uid
    /\ pc \in Label /\ op \in {"none", "enroll", "register", "deploy", "remove", "upgrade"}
    /\ job \in Job
    /\ late \subseteq Uid
    /\ pinned => signer = "key"
    /\ pc = "idle" <=> op = "none"
    /\ pc = "idle" <=> job = NoJob

Init ==
    /\ nodes = [n \in Name |-> NoMember] /\ topology = "single-server"
    /\ pinned = FALSE /\ version = 1 /\ signer = "none" /\ issued = {}
    /\ host = [n \in Name |-> None] /\ node = [n \in Name |-> NoNode] /\ fresh = 0
    /\ deployed = [n \in Name |-> None] /\ routing = {} /\ late = {}
    /\ pc = "idle" /\ op = "none" /\ job = NoJob

Enrolled(n) == nodes[n] # NoMember
Live(n) == node[n] # NoNode

-----------------------------------------------------------------------------
Goto(label) == pc' = label /\ UNCHANGED <<op, job>>
Return == pc' = "idle" /\ op' = "none" /\ job' = NoJob

Begin(operation, label, n, r, u, v) ==
    /\ pc = "idle"
    /\ pc' = label /\ op' = operation
    /\ job' = [NoJob EXCEPT !.name = n, !.role = r, !.uid = u, !.release = v]

\* A member of either kind makes the cluster what it is from now on.
Grown(role) ==
    IF role = "prime" \/ topology = "multi-server" THEN "multi-server" ELSE "server-workers"

-----------------------------------------------------------------------------
(* cluster-enrollment-create                                               *)

\* The bootstrap token or the server's, the CA, and LoadOrCreateSigner, which
\* refuses a file that does not hold a key.
BeginEnroll(n, r) ==
    /\ Cardinality(issued) < MaxIssued
    /\ \/ signer = "key" /\ Begin("enroll", "save", n, r, None, version) /\ UNCHANGED signer
       \/ signer = "none" /\ Begin("enroll", "key", n, r, None, version) /\ signer' = "part"
    /\ UNCHANGED <<receipt, issued, members, inference, late>>

CreateSigner ==
    /\ pc = "key"
    /\ \/ signer' = "key" /\ Goto("save")
       \/ signer' = "none" /\ Return
    /\ UNCHANGED <<receipt, issued, members, inference, late>>

\* Fault: the receipt is left for a later command to save.
SaveCluster_skipped ==
    /\ pc = "save"
    /\ Goto("write")
    /\ UNCHANGED <<receipt, enrollment, members, inference, late>>

SaveCluster ==
    /\ pc = "save"
    /\ \/ topology' = Grown(job.role) /\ pinned' = TRUE /\ Goto("write")
       \/ UNCHANGED <<topology, pinned>> /\ Return
    /\ UNCHANGED <<nodes, version, enrollment, members, inference, late>>

\* The artifact carries the release the receipt named when it was loaded, and
\* with it the K3s of the only bundle that may join with it.
WriteEnrollment ==
    /\ pc = "write"
    /\ \/ issued' = issued \cup {[name |-> job.name, k3s |-> K3sOf[job.release]]}
       \/ UNCHANGED issued
    /\ Return
    /\ UNCHANGED <<receipt, signer, members, inference, late>>

-----------------------------------------------------------------------------
(* cluster-node-register                                                   *)

\* The uid Kubernetes knows the name by, and the labels; the role is what the
\* operator says.
BeginRegister(n, r) ==
    /\ Live(n)
    /\ Begin("register", "register", n, r, node[n].uid, None)
    /\ UNCHANGED <<receipt, enrollment, members, inference, late>>

\* Traefik's addresses, then the receipt; either error returns.
RegisterNode ==
    /\ pc = "register"
    /\ \/ /\ nodes' = [nodes EXCEPT ![job.name] = [uid |-> job.uid, role |-> job.role]]
          /\ topology' = Grown(job.role)
       \/ UNCHANGED <<nodes, topology>>
    /\ Return
    /\ UNCHANGED <<pinned, version, enrollment, members, inference, late>>

-----------------------------------------------------------------------------
(* cluster-inference-deploy                                                *)

\* validateRegisteredNodeUID, and a bundle of the installed release.
BeginDeploy(n) ==
    /\ nodes[n].role = "inference" /\ Live(n) /\ node[n].uid = nodes[n].uid
    /\ Begin("deploy", "apply", n, "none", nodes[n].uid, None)
    /\ UNCHANGED <<receipt, enrollment, members, inference, late>>

\* helm, and the receipt's last operation; an error may come after either.
InstallOrUpgrade ==
    /\ pc = "apply"
    /\ deployed' \in {deployed, [deployed EXCEPT ![job.name] = job.uid]}
    /\ Return
    /\ UNCHANGED <<receipt, enrollment, members, routing, late>>

-----------------------------------------------------------------------------
(* cluster-node-remove                                                     *)

BeginRemove(n) ==
    /\ Enrolled(n)
    /\ Begin("remove", "cordon", n, "none", nodes[n].uid, None)
    /\ UNCHANGED <<receipt, enrollment, members, inference, late>>

Cordon ==
    /\ pc = "cordon"
    /\ \/ /\ Live(job.name) /\ Goto("read")
          /\ node' = [node EXCEPT ![job.name].pods = IF @ = "any" THEN "old" ELSE @]
       \/ UNCHANGED node /\ Return
    /\ UNCHANGED <<receipt, enrollment, host, fresh, inference, late>>

\* withdrawNodeRouting: the registry is read with its resourceVersion.
ReadRouting ==
    /\ pc = "read"
    /\ \/ /\ job.uid \in routing
          /\ pc' = "patch" /\ UNCHANGED <<op, job>>
       \/ job.uid \notin routing /\ Goto("drain")
       \/ Return
    /\ UNCHANGED <<receipt, enrollment, members, deployed, routing, late>>

\* The patch: what was read, less the node, if the registry is still that.
Withdraw ==
    /\ routing' = routing \ {job.uid} /\ late' = late \ {job.uid}
    /\ Goto("drain")

\* Fault: the patch does not test the resourceVersion.
PatchRouting_untested ==
    /\ pc = "patch"
    /\ \/ Withdraw
       \/ /\ job.revised /\ Goto("drain")
          /\ routing' \in SUBSET (routing \ {job.uid}) /\ late' = late
    /\ UNCHANGED <<receipt, enrollment, members, deployed>>

PatchRouting ==
    /\ pc = "patch"
    /\ \/ ~job.revised /\ Withdraw
       \/ UNCHANGED <<routing, late>> /\ Return
    /\ UNCHANGED <<receipt, enrollment, members, deployed>>

\* An error may come after the pods are gone.
Drain ==
    /\ pc = "drain"
    /\ \/ /\ Live(job.name) /\ node' = [node EXCEPT ![job.name].pods = "none"]
          /\ Goto("uninstall") \/ Return
       \/ UNCHANGED node /\ Return
    /\ UNCHANGED <<receipt, enrollment, host, fresh, inference, late>>

\* Fault: a failed uninstall of the release does not end the removal.
UninstallRelease_ignored ==
    /\ pc = "uninstall"
    /\ deployed' \in {deployed, [deployed EXCEPT ![job.name] = None]}
    /\ Goto("delete")
    /\ UNCHANGED <<receipt, enrollment, members, routing, late>>

\* UninstallInNamespace: a release that is not there is no error.
UninstallRelease ==
    /\ pc = "uninstall"
    /\ \/ deployed' = [deployed EXCEPT ![job.name] = None] /\ Goto("delete")
       \/ UNCHANGED deployed /\ Return
    /\ UNCHANGED <<receipt, enrollment, members, routing, late>>

DeleteNode ==
    /\ pc = "delete"
    /\ \/ Live(job.name) /\ node' = [node EXCEPT ![job.name] = NoNode] /\ Goto("forget")
       \/ UNCHANGED node /\ Return
    /\ UNCHANGED <<receipt, enrollment, host, fresh, inference, late>>

ForgetNode ==
    /\ pc = "forget"
    /\ \/ nodes' = [nodes EXCEPT ![job.name] = NoMember]
       \/ UNCHANGED nodes
    /\ Return
    /\ UNCHANGED <<topology, pinned, version, enrollment, members, inference, late>>

-----------------------------------------------------------------------------
(* upgrade on the control plane: ValidateWorkerUpgradeReadiness            *)

BeginUpgrade(v) ==
    /\ v > version
    /\ Begin("upgrade", "gate", "none", "none", None, v)
    /\ UNCHANGED <<receipt, enrollment, members, inference, late>>

\* Fault: a Node that is not in the inventory is none of the gate's business.
InventoryIsHealthy_known == \A n \in Name : Enrolled(n) => node[n].uid = nodes[n].uid

\* ValidateInventory: the Node objects and the inventory name each other.
InventoryIsHealthy == \A n \in Name : node[n].uid = nodes[n].uid

\* Only the topology of a server and its workers has the gate.  A node that is
\* not Ready is one of its errors.
Gate ==
    /\ pc = "gate"
    /\ \/ /\ topology # "server-workers" /\ pc' = "advance"
          /\ UNCHANGED <<op, job>>
       \/ /\ topology = "server-workers" /\ InventoryIsHealthy
          /\ pc' = "versions" /\ UNCHANGED op
          /\ job' = [job EXCEPT !.left = {n \in Name : nodes[n].role = "inference"}]
       \/ topology = "server-workers" /\ Return
    /\ UNCHANGED <<receipt, enrollment, members, inference, late>>

\* One query for each worker: the version its kubelet reports, against the one
\* the target's bundle pins.
ReadVersion ==
    /\ pc = "versions"
    /\ \/ \E n \in job.left :
             /\ node[n].k3s = K3sOf[job.release]
             /\ job' = [job EXCEPT !.left = job.left \ {n}] /\ UNCHANGED <<pc, op>>
       \/ job.left # {} /\ Return
       \/ job.left = {} /\ Goto("advance")
    /\ UNCHANGED <<receipt, enrollment, members, inference, late>>

Advance ==
    /\ pc = "advance"
    /\ version' \in {version, job.release}
    /\ Return
    /\ UNCHANGED <<nodes, topology, pinned, enrollment, members, inference, late>>

-----------------------------------------------------------------------------
(* The members, Kubernetes, the inference manager, the operator.           *)

\* cluster-join; K3s refuses a second host under the name of a Node object.
Join(n) ==
    /\ host[n] = None /\ ~Live(n)
    /\ \E e \in issued : e.name = n /\ host' = [host EXCEPT ![n] = e.k3s]
    /\ UNCHANGED <<receipt, enrollment, node, fresh, inference, command, late>>

\* A Node that changes behind the gate, while its list is read.
Changed(n) ==
    job' = IF topology = "server-workers" /\ pc \in {"versions", "advance"}
           THEN [job EXCEPT !.since = job.since \cup {n}] ELSE job

\* An agent without a Node object makes one when it starts.
AgentRegisters(n) ==
    /\ host[n] # None /\ ~Live(n) /\ fresh < MaxUid
    /\ fresh' = fresh + 1
    /\ node' = [node EXCEPT ![n] = [uid |-> fresh', k3s |-> host[n], pods |-> "any"]]
    /\ Changed(n)
    /\ UNCHANGED <<receipt, enrollment, host, inference, pc, op, late>>

\* cluster-worker-upgrade, forwards or backwards, to a release with another
\* K3s; the agent reports at once.
UpgradeWorker(n) ==
    /\ host[n] # None
    /\ \E k \in {K3sOf[v] : v \in Release} \ {host[n]} :
          /\ host' = [host EXCEPT ![n] = k]
          /\ node' = IF Live(n) THEN [node EXCEPT ![n].k3s = k] ELSE node
    /\ Changed(n)
    /\ UNCHANGED <<receipt, enrollment, fresh, inference, pc, op, late>>

\* uninstall or factory-reset of a member.
Uninstall(n) ==
    /\ host[n] # None
    /\ host' = [host EXCEPT ![n] = None]
    /\ UNCHANGED <<receipt, enrollment, node, fresh, inference, command, late>>

\* The manager publishes under the uid its release was given.  (One deployed to
\* a cordoned node would wait; here it publishes as well.)
Publish(n) ==
    /\ deployed[n] # None /\ Live(n) /\ node[n].pods # "none"
    /\ routing' = routing \cup {deployed[n]}
    /\ job' = IF pc = "patch" THEN [job EXCEPT !.revised = TRUE] ELSE job
    /\ late' = IF op = "remove" /\ job.uid = deployed[n] /\ pc \in {"drain", "uninstall", "delete", "forget"}
               THEN late \cup {deployed[n]} ELSE late
    /\ UNCHANGED <<receipt, enrollment, members, deployed, pc, op>>

\* Between two commands the operator takes back a worker whose removal failed.
Uncordon(n) ==
    /\ pc = "idle" /\ node[n].pods # "any" /\ Live(n)
    /\ node' = [node EXCEPT ![n].pods = "any"]
    /\ UNCHANGED <<receipt, enrollment, host, fresh, inference, command, late>>

Expire ==
    /\ \E e \in issued : issued' = issued \ {e}
    /\ UNCHANGED <<receipt, signer, members, inference, command, late>>

\* The operator removes what is left of a key file, or the key of a cluster
\* whose receipt does not name it.
DiscardSigner ==
    /\ pc = "idle" /\ ~pinned /\ signer = "part" /\ signer' = "none"
    /\ UNCHANGED <<receipt, issued, members, inference, command, late>>

\* The command dies; a repair takes the mark from the journal (Lifecycle).
Crash ==
    /\ pc # "idle"
    /\ Return
    /\ UNCHANGED <<receipt, enrollment, members, inference, late>>

-----------------------------------------------------------------------------
Command ==
    \/ \E n \in Name, r \in Role : BeginEnroll(n, r) \/ BeginRegister(n, r)
    \/ \E n \in Name : BeginDeploy(n) \/ BeginRemove(n)
    \/ \E v \in Release : BeginUpgrade(v)

Step ==
    \/ CreateSigner \/ SaveCluster \/ WriteEnrollment \/ RegisterNode \/ InstallOrUpgrade
    \/ Cordon \/ ReadRouting \/ PatchRouting \/ Drain \/ UninstallRelease
    \/ DeleteNode \/ ForgetNode
    \/ Gate \/ ReadVersion \/ Advance

Environment ==
    \/ \E n \in Name :
          \/ Join(n) \/ AgentRegisters(n) \/ UpgradeWorker(n) \/ Uninstall(n)
          \/ Publish(n) \/ Uncordon(n)
    \/ Expire \/ DiscardSigner \/ Crash

Next == Command \/ Step \/ Environment

Spec == Init /\ [][Next]_vars

-----------------------------------------------------------------------------
(* Properties.                                                             *)

\* No enrollment, and no host that joined with one, before the receipt says
\* what the cluster has become: the signer it can be verified with, and the
\* topology the upgrade gate looks at (runClusterEnrollmentCreate saves the
\* state before it writes the artifact).
IssuedIsRecorded ==
    /\ issued # {} => signer = "key" /\ pinned
    /\ issued # {} \/ (\E n \in Name : host[n] # None \/ Live(n)) => topology # "single-server"

\* A release of inference belongs to a member, so that a removal that failed
\* can be run again: cluster-node-remove refuses a name it does not know.
ReleasesHaveMembers == \A n \in Name : deployed[n] # None => Enrolled(n)

\* Between commands the registry names members only, by the uid they are
\* registered under: no request is sent to a node that was removed, or to the
\* name of a replaced one.  A manager that publishes after its withdrawal and
\* before the drain is excused: the code withdraws first.
RoutesHaveMembers ==
    pc = "idle" => \A u \in routing \ late : \E n \in Name : nodes[n].uid = u

\* What a node is given goes with its registration, whatever is removed,
\* registered again under another role or replaced by a host of its name, and
\* wherever a removal fails or dies.
NothingOutlivesItsNode == ReleasesHaveMembers /\ RoutesHaveMembers

\* A removal withdraws its node, and no publication of another.
PublicationsAreKept == [][routing \ routing' \subseteq {job.uid}]_vars

\* The gate: a control plane with workers advances only when each Node object
\* runs the K3s version the target's bundle pins, whatever joined, died, came
\* back or was forgotten before.  What changed after the gate had listed the
\* nodes is excused.  (A worker of an older release with the same K3s passes.)
AdvanceIsGated ==
    [][version' # version /\ topology = "server-workers" =>
          \A n \in Name \ job.since : Live(n) => node[n].k3s = K3sOf[version']]_vars

\* "The control plane must not advance until every enrolled worker both remains
\* healthy and reports the bundle-pinned K3s version"
\* (ValidateWorkerUpgradeReadiness).  Expected to be violated.
ControlPlaneWaitsForWorkers ==
    [][version' # version =>
          \A n \in Name \ job.since : nodes[n].role = "inference" /\ nodes[n].uid = node[n].uid
                                     => node[n].k3s = K3sOf[version']]_vars

=============================================================================
