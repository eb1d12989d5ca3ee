---------------------------- MODULE HostServices ----------------------------
(***************************************************************************)
(* What install, upgrade and uninstall do to the services of the host      *)
(* itself: offline packages and their systemd units (internal/             *)
(* hostpackages), systemd-resolved and port 53 (internal/hostdns), the     *)
(* host agent and mDNS (internal/hostagent).                               *)
(*                                                                         *)
(* The appliance's CoreDNS is a pod on the host network that must bind     *)
(* *:53 without being root.  Others want that port: the stub of resolved,  *)
(* the dnsmasq a package starts, a daemon of the operator, and a CoreDNS   *)
(* that outlived its K3s.  Any step may fail, the process may die, the     *)
(* host may reboot, and a socket may start the service behind it.          *)
(*                                                                         *)
(* Simplifications: hostapd goes with dnsmasq; resolved is always active,  *)
(* and a restart of it that fails leaves it as it was; a transaction of    *)
(* systemd that is cancelled is one that fails; the files and the process  *)
(* of the host agent are one thing; --preserve-failed-state, and what the  *)
(* gate makes of a K3s without a receipt, are left to module Install; the  *)
(* Wi-Fi features, off unless somebody asks the agent, and a host whose    *)
(* operator has switched the stub of resolved off, are left out.           *)
(***************************************************************************)
EXTENDS Naturals, Sequences, FiniteSetsExt

CONSTANTS
    MaxRuns,      \* bound on the operations the operator starts
    MaxBoots      \* bound on the reboots

ASSUME BoundAssumption == MaxRuns \in Nat /\ MaxBoots \in Nat

Package == {"avahi", "dnsmasq"}
mdnsDaemonUnits == {"socket", "avahi"}       \* avahi-daemon.socket and .service
conflictDaemonUnits == {"dnsmasq"}
Unit == mdnsDaemonUnits \cup conflictDaemonUnits
UnitsOf(p) == IF p = "avahi" THEN mdnsDaemonUnits ELSE conflictDaemonUnits

VARIABLES
    packages,                  \* the packages installed
    active, enabled, masked,   \* the units that run, start at boot, cannot start
    files,        \* the drop-ins of resolved and sysctl, the entry in /etc/hosts
    lowered,      \* the kernel lets CoreDNS bind port 53
    stub,         \* the stub of resolved listens
    link,         \* where /etc/resolv.conf points
    stranger,     \* a daemon of the operator listens on port 53
    k3s,          \* K3s runs
    release,      \* the DNS release is in the cluster
    coredns,      \* the CoreDNS that listens: of a pod, or left by a K3s that stopped
    agent,        \* the host agent is installed and answers
    receipt,      \* what the receipt records, {} without one
    op, target, pc,
    before,       \* what the running operation found
    armed,        \* the rollbacks it has registered
    errs,         \* one of them failed
    outcome,      \* how the last operation ended
    intact,       \* history: nothing died or failed half-way since the last success
    undone,       \* history: a Prepare that failed took LAN DNS its ground
    runs, boots

units == <<packages, active, enabled, masked>>
resolver == <<files, lowered, stub, link>>
cluster == <<k3s, release, coredns>>
context == <<op, target, stranger, runs, boots>>
vars == <<units, resolver, cluster, agent, receipt, context, pc, before, armed, errs,
          outcome, intact, undone>>

Feature == {"dns", "lan"}
Piece == {"release", "agent", "k3s", "packages", "dns"}

\* The parts of the operations, in their order.
Prepare == <<"floor", "stock", "dropin", "link", "wait", "hosts">>
Path == [install   |-> Prepare \o <<"preflight", "packages", "quiesce", "mdns", "k3s",
                                    "agent", "day2", "announce", "chart", "ready",
                                    "receipt">>,
         upgrade   |-> <<"packages", "quiesce", "mdns", "agent", "announce">> \o Prepare
                       \o <<"chart", "ready", "receipt">>,
         uninstall |-> <<"stop", "kill", "forget", "restore", "day2", "unagent">>]
UndoOrder == [install |-> <<"release", "agent", "k3s", "packages", "dns">>,
              upgrade |-> <<"release", "dns", "packages", "agent">>]
Steps(sequence) == {sequence[i] : i \in DOMAIN sequence}
Label == {"idle", "rollback"} \cup UNION {Steps(Path[o]) : o \in DOMAIN Path}

TypeOK ==
    /\ packages \subseteq Package
    /\ active \subseteq Unit /\ enabled \subseteq Unit /\ masked \subseteq Unit
    /\ active \cap masked = {}
    /\ files \subseteq {"dropin", "sysctl", "hosts"}
    /\ {lowered, stub, stranger, k3s, release, agent, errs, intact, undone} \subseteq BOOLEAN
    /\ link \in {"stub", "uplink", "own", "none"}
    /\ coredns \in {"none", "pod", "orphan"}
    /\ receipt = {} \/ ("host" \in receipt /\ receipt \subseteq Feature \cup {"host"})
    /\ op \in DOMAIN Path /\ target \subseteq Feature /\ pc \in Label
    /\ before \in [noted : BOOLEAN, packages : SUBSET Package, running : BOOLEAN,
                   enabled : BOOLEAN, agent : BOOLEAN]
    /\ armed \subseteq Piece
    /\ outcome \in {"none", "succeeded", "failed", "blocked", "died"}
    /\ runs \in 0..MaxRuns /\ boots \in 0..MaxBoots

Nothing == [noted |-> FALSE, packages |-> {}, running |-> FALSE, enabled |-> FALSE,
            agent |-> FALSE]

\* An Ubuntu host without an appliance, its Avahi running, stopped or absent; one
\* with a DNS daemon of its own asks that daemon.
Init ==
    /\ packages \in {{}, {"avahi"}}
    /\ enabled \in {{}, mdnsDaemonUnits}
    /\ active \in {{}, mdnsDaemonUnits}
    /\ packages = {} => enabled = {} /\ active = {}
    /\ masked = {} /\ files = {} /\ lowered = FALSE
    /\ stub = TRUE /\ stranger \in BOOLEAN /\ link = IF stranger THEN "own" ELSE "stub"
    /\ k3s = FALSE /\ release = FALSE /\ coredns = "none" /\ agent = FALSE
    /\ receipt = {} /\ op = "uninstall" /\ target = {} /\ pc = "idle"
    /\ before = Nothing /\ armed = {} /\ errs = FALSE /\ outcome = "none"
    /\ intact = TRUE /\ undone = FALSE /\ runs = 0 /\ boots = 0

\* What a wildcard bind of port 53 runs into.
portConflictOnWildcard53 ==
    stub \/ stranger \/ coredns # "none" \/ "dnsmasq" \in active

-----------------------------------------------------------------------------
(* Control.                                                                *)

\* LAN DNS is a part of some profiles only.
Applies(step, t) == step \in Steps(Prepare) \cup {"chart", "ready"} => "dns" \in t
PartAfter(o, t, n) == Path[o][Min({i \in n + 1..Len(Path[o]) : Applies(Path[o][i], t)})]

history == <<outcome, intact, undone>>

Goto(label) == pc' = label /\ UNCHANGED <<before, errs, history>>
Done == Goto(PartAfter(op, target, CHOOSE i \in DOMAIN Path[op] : Path[op][i] = pc))

\* The operation is over, and what it knew is gone.
Return(result) ==
    /\ pc' = "idle" /\ outcome' = result
    /\ before' = Nothing /\ armed' = {} /\ errs' = FALSE

\* An error, for the rollbacks registered so far.
Fail(result) ==
    /\ pc' = "rollback" /\ outcome' = result
    /\ UNCHANGED <<before, errs, intact, undone>>

\* An error that runs no rollback.
LeaveBehind(result) == Return(result) /\ intact' = FALSE /\ UNCHANGED undone

Arm(piece) == armed' = armed \cup {piece}

\* The ownership gate lets an install start over no receipt only; an upgrade
\* does not take LAN DNS away.
Begin(o, t) ==
    /\ pc = "idle" /\ runs < MaxRuns
    /\ o = "install" => receipt = {}
    /\ o = "upgrade" => receipt # {} /\ k3s /\ ("dns" \in receipt => "dns" \in t)
    /\ o = "uninstall" => t = {}
    /\ op' = o /\ target' = t /\ runs' = runs + 1
    /\ pc' = PartAfter(o, t, 0)
    /\ outcome' = "none"
    /\ UNCHANGED <<units, resolver, cluster, agent, receipt, stranger, boots, before, armed,
                   errs, intact, undone>>

-----------------------------------------------------------------------------
(* hostdns.Prepare and hostdns.Restore.                                    *)

StubMayListen == coredns = "none" /\ "dnsmasq" \notin active

\* Restore: the floor of the ports goes up again only with its drop-in.
Restored ==
    /\ files' = files \ {"dropin", "sysctl"}
    /\ lowered' = (lowered /\ "sysctl" \notin files)
    /\ stub' = StubMayListen
    /\ link' = "stub"

\* Every part of it is tried, whichever failed.
RestoreFails ==
    /\ files' \in {files \ {"dropin", "sysctl"}, files \ {"dropin"}, files \ {"sysctl"}}
    /\ lowered' \in {lowered, lowered /\ "sysctl" \notin files \ files'}
    /\ stub' \in {stub, StubMayListen /\ "dropin" \notin files'}
    /\ link' \in {link, "stub"}

\* An error of Prepare.  Its result, which says what changed, is not looked at.
FailPrepare ==
    /\ armed' = armed \ {"dns"}
    /\ pc' = "rollback" /\ outcome' = "failed"
    /\ undone' = (undone \/ ("dns" \in receipt /\ ~files \subseteq files'))
    /\ UNCHANGED <<before, errs, intact>>

\* The same, with what was done undone, whatever comes of that.
FailRestored ==
    /\ Restored \/ RestoreFails
    /\ FailPrepare

\* Fault: Restore is registered although LAN DNS was there before.
NoteChange_always(change) == armed' = IF change THEN armed \cup {"dns"} ELSE armed

\* PrepareResult.Changed: the caller registers Restore, an upgrade only where
\* LAN DNS is new.
NoteChange(change) ==
    armed' = IF change /\ (op = "install" \/ "dns" \notin receipt)
             THEN armed \cup {"dns"} ELSE armed

\* Fault: the floor is lowered in the kernel and not in the drop-in.
LowerPortFloor_volatile ==
    /\ pc = "floor"
    /\ lowered' = TRUE /\ NoteChange(~lowered)
    /\ Goto(IF portConflictOnWildcard53 \/ "dropin" \notin files THEN "stock" ELSE "hosts")
    /\ UNCHANGED <<units, files, stub, link, cluster, agent, receipt, context>>

\* ensureUnprivilegedPortStart, and whether there is work with the stub.
LowerPortFloor ==
    /\ pc = "floor"
    /\ \/ /\ files' = files \cup {"sysctl"} /\ lowered' = TRUE
          /\ NoteChange("sysctl" \notin files \/ ~lowered)
          /\ Goto(IF portConflictOnWildcard53 \/ "dropin" \notin files
                  THEN "stock" ELSE "hosts")
       \/ /\ files' \in {files, files \cup {"sysctl"}} /\ lowered' = lowered
          /\ FailPrepare
    /\ UNCHANGED <<units, stub, link, cluster, agent, receipt, context>>

Masked(set) ==
    /\ active' = active \ set
    /\ enabled' = enabled \ set
    /\ masked' = masked \cup set
    /\ UNCHANGED packages

ReleaseStock ==
    /\ pc = "stock"
    /\ UNCHANGED <<resolver, cluster, agent, receipt, context>>
    /\ \/ Masked(conflictDaemonUnits) /\ Done /\ UNCHANGED armed
       \/ UNCHANGED units /\ FailPrepare

\* A restart of resolved that fails takes the drop-in away again.
DisableStub ==
    /\ pc = "dropin"
    /\ \/ /\ files' = files \cup {"dropin"} /\ stub' = FALSE
          /\ NoteChange(TRUE) /\ Done
       \/ /\ files' \in {files, files \ {"dropin"}} /\ stub' = stub
          /\ FailPrepare
    /\ UNCHANGED <<units, lowered, link, cluster, agent, receipt, context>>

LinkUplink ==
    /\ pc = "link"
    /\ \/ link' = "uplink" /\ Done /\ UNCHANGED <<files, lowered, stub, armed>>
       \/ FailRestored
    /\ UNCHANGED <<units, cluster, agent, receipt, context>>

\* waitUntilWildcard53Free.  A CoreDNS of the appliance may keep the port, and
\* with none there is no orphan to reap.
AwaitPort ==
    /\ pc = "wait"
    /\ \/ /\ ~portConflictOnWildcard53 \/ coredns # "none"
          /\ Done /\ UNCHANGED <<units, resolver, armed>>
       \/ /\ portConflictOnWildcard53 /\ coredns = "none"
          /\ Masked(conflictDaemonUnits)
          /\ \/ ~stub /\ ~stranger /\ Done /\ UNCHANGED <<resolver, armed>>
             \/ FailRestored
    /\ UNCHANGED <<cluster, agent, receipt, context>>

\* EnsureNodeHostsEntry, and the look-up of the name.
WriteHosts ==
    /\ pc = "hosts"
    /\ \/ /\ files' = files \cup {"hosts"}
          /\ NoteChange("hosts" \notin files) /\ Done
          /\ UNCHANGED <<lowered, stub, link>>
       \/ FailRestored
    /\ UNCHANGED <<units, cluster, agent, receipt, context>>

RestoreHostDNS ==
    /\ pc = "restore"
    /\ \/ Restored /\ Done /\ UNCHANGED armed
       \/ RestoreFails /\ LeaveBehind("failed")
    /\ UNCHANGED <<units, cluster, agent, receipt, context>>

-----------------------------------------------------------------------------
(* hostpackages.InstallRequiredPackages.                                   *)

\* The port check of the preflight leaves port 53 in, and any other finding.
Preflight ==
    /\ pc = "preflight"
    /\ \/ ~("dns" \in target /\ portConflictOnWildcard53) /\ Done
       \/ "dns" \in target /\ portConflictOnWildcard53 /\ Fail("blocked")
       \/ Fail("failed")
    /\ UNCHANGED <<units, resolver, cluster, agent, receipt, context, armed>>

\* The post-installation of a package starts what is not masked and can listen.
Unpacked(new) ==
    LET fresh == {u \in Unit \ masked : \E p \in new : u \in UnitsOf(p)} IN
    /\ packages' = packages \cup new
    /\ enabled' = enabled \cup fresh
    /\ active' = active \cup {u \in fresh : u = "dnsmasq" => ~portConflictOnWildcard53}
    /\ UNCHANGED masked

\* Found before dpkg runs; an error of dpkg registers no rollback.
InstallPackages ==
    /\ pc = "packages"
    /\ \/ /\ Unpacked(Package \ packages)
          /\ before' = [noted |-> TRUE, packages |-> packages, agent |-> agent,
                        running |-> "avahi" \in active, enabled |-> "avahi" \in enabled]
          /\ pc' = "quiesce" /\ UNCHANGED <<errs, history>>
       \/ /\ \E part \in SUBSET (Package \ packages) : Unpacked(part)
          /\ Fail("failed")
    /\ UNCHANGED <<resolver, cluster, agent, receipt, context, armed>>

\* ensureUnitsQuiesced: one stop for the group, then disable and mask.
Quiesced(set) == Masked(set)
QuiesceFails(set) ==
    /\ \/ active' \in {active \ part : part \in SUBSET set} /\ UNCHANGED <<enabled, masked>>
       \/ Masked(set)
    /\ UNCHANGED packages

QuiesceConflicting ==
    /\ pc = "quiesce"
    /\ \/ Quiesced(conflictDaemonUnits) /\ Done /\ UNCHANGED armed
       \/ QuiesceFails(conflictDaemonUnits) /\ Arm("packages") /\ Fail("failed")
    /\ UNCHANGED <<resolver, cluster, agent, receipt, context>>

\* EnsureFeatureUnitsRunning: unmasked, and started unless it runs.
FeatureRunning ==
    /\ masked' = masked \ mdnsDaemonUnits
    /\ IF "avahi" \in active THEN UNCHANGED <<active, enabled>>
       ELSE /\ active' = active \cup mdnsDaemonUnits
            /\ enabled' = enabled \cup mdnsDaemonUnits
    /\ UNCHANGED packages
FeatureFails ==
    /\ masked' = masked \ mdnsDaemonUnits
    /\ enabled' \in {enabled, enabled \cup mdnsDaemonUnits}
    /\ UNCHANGED <<packages, active>>

SettleMdns ==
    /\ pc = "mdns"
    /\ \/ /\ IF "lan" \in target THEN FeatureRunning ELSE Quiesced(mdnsDaemonUnits)
          /\ Done
       \/ /\ IF "lan" \in target THEN FeatureFails ELSE QuiesceFails(mdnsDaemonUnits)
          /\ Fail("failed")
    /\ Arm("packages")
    /\ UNCHANGED <<resolver, cluster, agent, receipt, context>>

-----------------------------------------------------------------------------
(* K3s, the host agent, the DNS release.                                   *)

\* A K3s that runs is adopted; over a stopped one the leftovers are killed and
\* its data wiped first.  Most errors return without the rollbacks.
StartK3s ==
    /\ pc = "k3s"
    /\ \/ k3s /\ Done /\ UNCHANGED <<cluster, armed>>
       \/ /\ ~k3s
          /\ coredns' = "none" /\ release' = FALSE /\ k3s' = TRUE
          /\ Arm("k3s") /\ Done
       \/ /\ IF k3s THEN UNCHANGED cluster
             ELSE /\ coredns' \in {coredns, "none"} /\ release' \in {release, FALSE}
                  /\ UNCHANGED k3s
          /\ (~k3s /\ Fail("failed") /\ UNCHANGED armed) \/ LeaveBehind("failed")
    /\ UNCHANGED <<units, resolver, agent, receipt, context>>

\* InstallOrUpdate; its own rollback puts back what it found.
InstallHostAgent ==
    /\ pc = "agent"
    /\ \/ agent' = TRUE /\ Arm("agent") /\ Done
       \/ agent' \in {before.agent, FALSE} /\ Fail("failed") /\ UNCHANGED armed
    /\ UNCHANGED <<units, resolver, cluster, receipt, context>>

\* bestEffortStopMDNS: stopped and disabled, not masked.
Mdns(on) ==
    /\ active' = IF on THEN active \cup mdnsDaemonUnits ELSE active \ mdnsDaemonUnits
    /\ enabled' = IF on THEN enabled \cup mdnsDaemonUnits ELSE enabled \ mdnsDaemonUnits
    /\ masked' = IF on THEN masked \ mdnsDaemonUnits ELSE masked
    /\ UNCHANGED packages

\* EnsureDay2FeaturesDisabled stops what it can; an uninstall only warns when it
\* fails.
DisableDay2 ==
    /\ pc = "day2"
    /\ \/ (Mdns(FALSE) \/ UNCHANGED units) /\ Done
       \/ op = "install" /\ UNCHANGED units /\ Fail("failed")
    /\ UNCHANGED <<resolver, cluster, agent, receipt, context, armed>>

\* Fault: an upgrade announces the appliance whatever its profile.
AnnounceMdns_always ==
    /\ pc = "announce"
    /\ \/ agent /\ Mdns(TRUE) /\ Done
       \/ UNCHANGED units /\ Fail("failed")
    /\ UNCHANGED <<resolver, cluster, agent, receipt, context, armed>>

\* EnsureMDNSEnabled through the agent; an upgrade to a profile without
\* lan-discovery calls EnsureMDNSDisabled, an install does nothing more.
AnnounceMdns ==
    /\ pc = "announce"
    /\ \/ "lan" \notin target /\ op = "install" /\ UNCHANGED units /\ Done
       \/ /\ "lan" \in target \/ op = "upgrade"
          /\ \/ agent /\ Mdns("lan" \in target) /\ (Done \/ Fail("failed"))
             \/ UNCHANGED units /\ Fail("failed")
    /\ UNCHANGED <<resolver, cluster, agent, receipt, context, armed>>

\* The stock daemons once more, then helm.
ApplyDNS ==
    /\ pc = "chart"
    /\ \/ /\ Quiesced(conflictDaemonUnits) /\ release' = TRUE /\ Done
          /\ armed' = IF "dns" \in receipt THEN armed ELSE armed \cup {"release"}
       \/ QuiesceFails(conflictDaemonUnits) /\ Fail("failed") /\ UNCHANGED <<release, armed>>
    /\ UNCHANGED <<resolver, k3s, coredns, agent, receipt, context>>

\* helm waits for CoreDNS, and gives up in the end.  Past that an upgrade leaves
\* the release to the restore of the backup.
AwaitDNS ==
    /\ pc = "ready"
    /\ \/ /\ coredns = "pod" /\ Done
          /\ armed' = IF op = "upgrade" THEN armed \ {"release"} ELSE armed
       \/ Fail("failed") /\ UNCHANGED armed
    /\ UNCHANGED <<units, resolver, cluster, agent, receipt, context>>

SaveReceipt ==
    /\ pc = "receipt"
    /\ \/ /\ receipt' = {"host"} \cup target /\ Return("succeeded")
          /\ intact' = TRUE /\ undone' = FALSE
       \/ Fail("failed") /\ UNCHANGED <<receipt, armed>>
    /\ UNCHANGED <<units, resolver, cluster, agent, context>>

-----------------------------------------------------------------------------
(* Uninstall.                                                              *)

Abandoned == IF coredns = "none" THEN "none" ELSE "orphan"

StopK3s ==
    /\ pc = "stop"
    /\ \/ k3s' = FALSE /\ coredns' = Abandoned /\ Done /\ UNCHANGED armed
       \/ UNCHANGED <<k3s, coredns>> /\ LeaveBehind("failed")
    /\ UNCHANGED <<units, resolver, release, agent, receipt, context>>

\* Fault: the processes of the pods are left alone.
KillPods_skipped ==
    /\ pc = "kill"
    /\ Done
    /\ UNCHANGED <<units, resolver, cluster, agent, receipt, context, armed>>

\* CleanupNodeNetwork: what a K3s that stopped leaves running is killed.
KillPods ==
    /\ pc = "kill"
    /\ \/ coredns' = "none" /\ Done /\ UNCHANGED armed
       \/ UNCHANGED coredns /\ LeaveBehind("failed")
    /\ UNCHANGED <<units, resolver, k3s, release, agent, receipt, context>>

DropReceipt ==
    /\ pc = "forget"
    /\ receipt' = {} /\ Done
    /\ UNCHANGED <<units, resolver, cluster, agent, context, armed>>

RemoveHostAgent ==
    /\ pc = "unagent"
    /\ \/ agent' = FALSE /\ Return("succeeded") /\ intact' = TRUE /\ UNCHANGED undone
       \/ agent' \in {agent, FALSE} /\ LeaveBehind("failed")
    /\ UNCHANGED <<units, resolver, cluster, receipt, context>>

-----------------------------------------------------------------------------
(* Rollback.                                                               *)

\* Fault: what ran before is not looked at.
UndoPackages_starts ==
    LET asked == IF "lan" \in target THEN mdnsDaemonUnits ELSE {} IN
    /\ packages' = before.packages
    /\ masked' = masked \ asked
    /\ active' = active \cup asked
    /\ enabled' = enabled \cup asked

\* The rollback InstallRequiredPackages returns; the units only where mDNS was
\* asked for, then what was newly installed.
UndoPackages ==
    LET asked == IF "lan" \in target THEN mdnsDaemonUnits ELSE {}
        started == IF before.running THEN asked ELSE {}
        quiet == asked \ started
        gone == {u \in Unit : \E p \in packages \ before.packages : u \in UnitsOf(p)} IN
    /\ packages' = before.packages
    /\ active' = (active \cup started) \ (quiet \cup gone)
    /\ masked' = (masked \cup quiet) \ started
    /\ enabled' = IF before.enabled THEN (enabled \cup started) \ (quiet \cup gone)
                  ELSE enabled \ (asked \cup gone)

\* A masked unit cannot be enabled.
CannotEnable == "lan" \in target /\ before.enabled /\ ~before.running

\* What one rollback puts back.  That of K3s stops it and kills its pods.
PutBack(piece) ==
    /\ IF piece = "packages" THEN UndoPackages ELSE UNCHANGED units
    /\ IF piece = "dns" THEN Restored ELSE UNCHANGED resolver
    /\ agent' = IF piece = "agent" THEN before.agent ELSE agent
    /\ k3s' = (k3s /\ piece # "k3s")
    /\ coredns' = IF piece = "k3s" THEN "none" ELSE coredns
    /\ release' = (release /\ piece # "release")

\* What one that failed may leave.
PutBackFails(piece) ==
    /\ IF piece = "dns" THEN RestoreFails ELSE UNCHANGED resolver
    /\ IF piece = "k3s" THEN k3s' = FALSE /\ coredns' = Abandoned
       ELSE UNCHANGED <<k3s, coredns>>
    /\ UNCHANGED <<units, agent, release>>

UndoNext ==
    /\ pc = "rollback" /\ armed # {}
    /\ LET order == UndoOrder[op]
           piece == order[Min({i \in DOMAIN order : order[i] \in armed})] IN
       /\ armed' = armed \ {piece}
       /\ \/ PutBack(piece) /\ errs' = (errs \/ (piece = "packages" /\ CannotEnable))
          \/ PutBackFails(piece) /\ errs' = TRUE
    /\ UNCHANGED <<receipt, context, pc, before, history>>

\* An upgrade ends with the restore of its backup, which starts K3s on the old
\* releases.
RollbackDone ==
    /\ pc = "rollback" /\ armed = {}
    /\ Return(outcome)
    /\ \/ /\ IF op = "upgrade" THEN release' = ("dns" \in receipt) ELSE UNCHANGED release
          /\ intact' = (intact /\ ~errs) /\ UNCHANGED k3s
       \/ /\ op = "upgrade" /\ k3s' \in {k3s, FALSE}
          /\ intact' = FALSE /\ UNCHANGED release
    /\ UNCHANGED <<units, resolver, coredns, agent, receipt, context, undone>>

-----------------------------------------------------------------------------
(* The host around it.                                                     *)

environment == <<op, target, stranger, runs>>
operation == <<agent, receipt, pc, before, armed, errs, history>>

\* The pod of LAN DNS starts, or is taken over, on a port it can have.
StartCoreDNS ==
    /\ k3s /\ release /\ lowered
    /\ \/ coredns = "none" /\ ~portConflictOnWildcard53
       \/ coredns = "orphan"
    /\ coredns' = "pod"
    /\ UNCHANGED <<units, resolver, k3s, release, environment, boots, operation>>

\* K3s removes the pod of a release that is gone.
StopCoreDNS ==
    /\ k3s /\ ~release /\ coredns # "none"
    /\ coredns' = "none"
    /\ UNCHANGED <<units, resolver, k3s, release, environment, boots, operation>>

\* Somebody talks to the socket, and systemd starts the service.
ActivateBySocket ==
    /\ "socket" \in active /\ "avahi" \notin active \cup masked
    /\ active' = active \cup {"avahi"}
    /\ UNCHANGED <<packages, enabled, masked, resolver, cluster, environment, boots, operation>>

\* Everything enabled starts; resolved before what else wants its port.
Reboot ==
    /\ pc = "idle" /\ boots < MaxBoots /\ boots' = boots + 1
    /\ stub' = ("dropin" \notin files)
    /\ lowered' = ("sysctl" \in files)
    /\ active' = {u \in enabled \ masked : u = "dnsmasq" => ~stub' /\ ~stranger}
    /\ coredns' = "none"
    /\ UNCHANGED <<packages, enabled, masked, files, link, k3s, release, environment, operation>>

Crash ==
    /\ pc # "idle"
    /\ LeaveBehind("died")
    /\ UNCHANGED <<units, resolver, cluster, agent, receipt, context>>

Operation ==
    \/ LowerPortFloor \/ ReleaseStock \/ DisableStub \/ LinkUplink \/ AwaitPort \/ WriteHosts
    \/ Preflight \/ InstallPackages \/ QuiesceConflicting \/ SettleMdns
    \/ StartK3s \/ InstallHostAgent \/ DisableDay2 \/ AnnounceMdns
    \/ ApplyDNS \/ AwaitDNS \/ SaveReceipt
    \/ StopK3s \/ KillPods \/ DropReceipt \/ RestoreHostDNS \/ RemoveHostAgent
    \/ UndoNext \/ RollbackDone

Next ==
    \/ \E o \in DOMAIN Path, t \in SUBSET Feature : Begin(o, t)
    \/ Operation
    \/ StartCoreDNS \/ StopCoreDNS \/ ActivateBySocket \/ Reboot \/ Crash

Spec == Init /\ [][Next]_vars

\* A zonctl that lives makes its next step, and K3s retries its pods.
FairSpec == Spec /\ WF_vars(Operation) /\ WF_vars(StartCoreDNS)

-----------------------------------------------------------------------------
(* Properties.                                                             *)

\* Until a Prepare that failed has taken LAN DNS its ground (undone), nobody takes
\* the port of CoreDNS on an appliance with LAN DNS, through failures, deaths and
\* reboots: neither the stub of resolved, which each upgrade prepares anew, nor
\* the stock daemon of a package.
DNSKeepsItsPort ==
    "dns" \in receipt /\ ~undone => ~stub /\ "dnsmasq" \notin active

\* An appliance without lan-discovery stays silent: nothing, neither a reboot
\* nor the socket of Avahi nor an upgrade that was rolled back, starts mDNS.
MdnsOffStaysOff ==
    pc = "idle" /\ receipt # {} /\ "lan" \notin receipt /\ intact =>
        active \cap mdnsDaemonUnits = {}

\* After an uninstall the host asks the stub of resolved, and somebody serves it:
\* what a failed install or a K3s that stopped left on port 53 is gone by then,
\* and no dnsmasq a package brought took the port meanwhile.
UninstallGivesDNSBack ==
    pc = "idle" /\ op = "uninstall" /\ outcome = "succeeded" =>
        /\ files \cap {"dropin", "sysctl"} = {}
        /\ link = "stub" /\ stub

\* A rollback without errors leaves mDNS running if and only if it ran before
\* dpkg, although the day-2 reset stopped it and dpkg may have started it.
RollbackRestoresMdns ==
    [][RollbackDone /\ ~errs /\ "lan" \in target /\ before.noted =>
            ("avahi" \in active) = before.running]_vars

\* LAN DNS comes back by itself, after every reboot.
DNSComesBack ==
    ("dns" \in receipt /\ ~undone /\ intact)
        ~> (coredns = "pod" \/ "dns" \notin receipt \/ undone \/ ~intact)

\* hostdns.go:224-226: a CoreDNS an uninstall left behind is reaped, so that it
\* does not stand in the way of the next install.
OrphanIsReaped == ~(outcome = "blocked" /\ coredns = "orphan")
=============================================================================
