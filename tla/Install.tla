------------------------------ MODULE Install ------------------------------
(***************************************************************************)
(* The fresh install of one host (internal/install) over whatever K3s it   *)
(* finds there, with the stack of rollbacks a failure runs in reverse, the *)
(* three ways its errors leave, and the rollout sets applied in parallel;  *)
(* around it deaths, repair, uninstall, factory-reset and further installs *)
(* of the same release.                                                    *)
(*                                                                         *)
(* What an install adds is a set of pieces.  A piece in the cluster lives  *)
(* in the K3s data directory and disappears with it.                       *)
(*                                                                         *)
(* Simplifications: bootstrap mode fresh and a PostgreSQL profile; an      *)
(* image-pull registry is configured; the checks, waits and preparations   *)
(* before a piece belong to its step when their errors leave the same way; *)
(* metadata, log directories and the signer key, which no rollback removes,*)
(* are left out; the agent and zonctl undo a failed step of their own;     *)
(* systemd's list of unit files is the unit file.                          *)
(***************************************************************************)
EXTENDS Naturals, Sequences, SequencesExt

CONSTANTS
    MaxAttempts,      \* bound on the installs the operator starts
    Stubborn,         \* the rollbacks that may fail
    Preserve,         \* values --preserve-failed-state may take
    ForceAdopt,       \* values --force-adopt may take
    Reset,            \* which teardowns there are: uninstall, factory-reset
    Capability        \* the optional releases of the profile

Optional == {"registry", "coredns", "inference", "workflows"}

ASSUME BoundAssumption == MaxAttempts \in Nat \ {0}
ASSUME OptionAssumption ==
    Preserve \subseteq BOOLEAN /\ ForceAdopt \subseteq BOOLEAN /\ Reset \subseteq BOOLEAN
ASSUME CapabilityAssumption == Capability \subseteq Optional

File == {"unit", "binary", "config"}
Chart == Optional \cup {"infra", "broker", "system", "apps", "support"}
InCluster == Chart \cup {"images", "pullsecrets", "replicas", "tls", "keys"}
OnHost == {"dns", "packages", "agent", "zonctl"}
Piece == InCluster \cup OnHost
Undoable == Piece \cup {"k3s", "database"}

ASSUME StubbornAssumption == Stubborn \subseteq Undoable

VARIABLES
    files,        \* [File -> whose K3s unit, binary ("same": a foreign one of the
                  \* very version this release pins) and configuration]
    process,      \* the binary the running K3s was started from
    cluster,      \* whose cluster is in the K3s data directory
    workloads,    \* the foreign cluster runs somebody's workloads
    present,      \* the pieces on the host
    database,     \* PostgreSQL's directory: whose data, seen from this install
    receipt,      \* installed-state.json, which records K3s as owned
    pc, preserve, attempts,
    forced,       \* this install adopts a K3s that only --force-adopt lets it have
    fresh,        \* the decision was a fresh install, not an adoption
    stack,        \* rollbacks, run from the last to the first
    running,      \* the goroutines of the rollout set being applied
    broken,       \* one of them failed
    before,       \* history: the pieces this install found and kept
    started,      \* history: this install (re)started K3s with files of its own
    errs,         \* a rollback of this install failed
    outcome,      \* what the last operation reported
    resetting,    \* the teardown is a factory-reset
    interrupted   \* the journal holds an operation that died (Lifecycle)

vars == <<files, process, cluster, workloads, present, database, receipt, pc,
          preserve, forced, attempts, fresh, stack, running, broken, before, started,
          errs, outcome, resetting, interrupted>>

k3s == <<files, process, cluster>>
flags == <<workloads, preserve, forced, attempts, before, resetting, interrupted>>
sets == <<running, broken>>

\* Steps that only check or prepare and whose error leaves another way than
\* that of the next piece: their door and their successor.
Barrier ==
    [logs     |-> [door |-> "return", next |-> "agent"],
     features |-> [door |-> "eager",  next |-> "enter infra"]]

\* Steps that add one piece, and what a failure leaves of it: nothing, a
\* part of it, or a part whose rollback the error return passes on.
Duty ==
    [packages    |-> [door |-> "eager",   next |-> "network",     left |-> "part"],
     images      |-> [door |-> "eager",   next |-> "pullsecrets", left |-> "part"],
     pullsecrets |-> [door |-> "eager",   next |-> "logs",        left |-> "part"],
     agent       |-> [door |-> "eager",   next |-> "features",    left |-> "nothing"],
     replicas    |-> [door |-> "cleanup", next |-> "tls",         left |-> "armed"],
     tls         |-> [door |-> "cleanup", next |-> "system",      left |-> "part"],
     keys        |-> [door |-> "cleanup", next |-> "apps",        left |-> "nothing"],
     zonctl      |-> [door |-> "cleanup", next |-> "receipt",     left |-> "nothing"]]

\* The releases outside the parallel sets, and the step after each.
After == [system |-> "keys", apps |-> "enter sets"]

\* The goroutines of the two parallel steps, each a sequence of releases.
Wanted(c) == IF c \in Capability THEN <<c>> ELSE <<>>
Platform == Wanted("registry") \o Wanted("coredns") \o Wanted("inference")
Rollout ==
    [infra |-> {<<"infra">>, <<"broker">>},
     sets  |-> {<<"support">>} \cup ({Platform} \ {<<>>})
               \cup (IF "workflows" \in Capability THEN {<<"workflows">>} ELSE {})]

Install == DOMAIN Barrier \cup DOMAIN Duty \cup DOMAIN After \cup DOMAIN Rollout \cup
           {"gate", "dns", "wipe", "config", "unit", "binary", "start", "restart", "network",
            "enter infra", "enter sets", "receipt", "rollback"}
Teardown == {"stop", "unlink", "wipe data", "wipe database", "wipe state", "drop zonctl",
             "drop receipt", "restore dns", "drop agent"}

Outcome == {"none", "failed", "rolled back", "cleanup failed", "preserved", "panicked",
            "installed", "torn down"}

Owner == {"none", "foreign", "ours"}

TypeOK ==
    /\ files \in [File -> Owner \cup {"same"}]
    /\ process \in Owner \cup {"same"}
    /\ cluster \in Owner
    /\ workloads \in BOOLEAN
    /\ present \subseteq Piece
    /\ database \in {"empty", "older", "this"}
    /\ receipt \in BOOLEAN
    /\ pc \in {"idle"} \cup Install \cup Teardown
    /\ preserve \in BOOLEAN /\ forced \in BOOLEAN
    /\ attempts \in 0..MaxAttempts
    /\ fresh \in BOOLEAN
    /\ stack \in Seq(Undoable)
    /\ running \subseteq [todo : Seq(Chart), undo : Seq(Chart)]
    /\ running # {} => pc \in DOMAIN Rollout
    /\ broken \in BOOLEAN
    /\ before \subseteq Piece
    /\ started \in BOOLEAN
    /\ errs \in BOOLEAN
    /\ outcome \in Outcome
    /\ resetting \in BOOLEAN
    /\ interrupted \in BOOLEAN

Init ==
    /\ \/ files = [f \in File |-> "none"] /\ cluster = "none" /\ process = "none"
          /\ workloads = FALSE
       \/ /\ \E binary \in {"foreign", "same"} :
                files = [unit |-> "foreign", binary |-> binary, config |-> "foreign"]
          /\ cluster = "foreign"
          /\ process \in {"none", files["binary"]}
          /\ workloads \in BOOLEAN
    /\ present = {} /\ before = {}
    /\ database = "empty" /\ receipt = FALSE
    /\ pc = "idle" /\ preserve = FALSE /\ forced = FALSE /\ attempts = 0
    /\ fresh = FALSE /\ stack = <<>> /\ running = {} /\ broken = FALSE
    /\ started = FALSE /\ errs = FALSE
    /\ outcome = "none" /\ resetting = FALSE /\ interrupted = FALSE

-----------------------------------------------------------------------------
(* How a step ends.                                                        *)

Goto(label) == pc' = label /\ UNCHANGED <<outcome, errs>>

\* The operation returns and dispatch records its outcome.
Return(result) == pc' = "idle" /\ outcome' = result /\ UNCHANGED errs

\* failInstall(err, runRollbacks()): Go evaluates the argument, and with it
\* the rollbacks, whatever --preserve-failed-state says.
Eager == Goto("rollback")

\* failInstall(err, cleanupOnFailure(..)), which looks at the flag first.
Cleanup == IF preserve THEN Return("preserved") ELSE Goto("rollback")

Fail(door) ==
    CASE door = "return"  -> Return("failed")
      [] door = "eager"   -> Eager
      [] door = "cleanup" -> Cleanup

Push(p) == stack' = Append(stack, p)

Detected == files["unit"] # "none"
Active == process # "none"

-----------------------------------------------------------------------------
(* The decision.                                                           *)

\* InspectCluster: namespaces beside K3s's own and the platform's.  The
\* table of platform namespaces knows neither ace-infra nor apps.
ForeignSeen == workloads \/ present \cap {"infra", "broker", "support"} # {}

\* Fault: a healthy cluster is safe to adopt whatever it carries.
SafeToAdopt_healthy(healthy) == healthy

SafeToAdopt(healthy) == healthy /\ ~ForeignSeen

\* No install is let through with an interrupted install on record (dispatch
\* refuses it first), so that priorInstallAttempted is always false here.
DecideOwnership(owned, healthy, force) ==
    IF owned THEN IF Detected THEN "reuse" ELSE "repair"
    ELSE IF ~Detected THEN "fresh"
    ELSE IF SafeToAdopt(healthy) \/ force THEN "adopt" ELSE "force required"

Begin ==
    /\ pc = "idle" /\ ~interrupted
    /\ attempts < MaxAttempts
    /\ attempts' = attempts + 1
    /\ preserve' \in Preserve /\ forced' = FALSE
    /\ database' = IF database = "this" THEN "older" ELSE database
    /\ before' = present /\ started' = FALSE
    /\ stack' = <<>> /\ running' = {} /\ broken' = FALSE
    /\ pc' = "gate" /\ outcome' = "none" /\ errs' = FALSE
    /\ UNCHANGED <<k3s, workloads, present, receipt, fresh, resetting, interrupted>>

\* A receipt without any K3s file is stale.
Kept == receipt /\ \E f \in File : files[f] # "none"

\* Fault: the database directory is not looked at.
Gate_skipsOccupied ==
    /\ pc = "gate"
    /\ \/ UNCHANGED <<receipt, stack, fresh, forced>> /\ Return("failed")
       \/ /\ receipt' = Kept
          /\ \/ UNCHANGED <<stack, fresh, forced>> /\ Return("failed")
             \/ \E healthy \in {FALSE, Active}, force \in ForceAdopt :
                   LET decision == DecideOwnership(Kept, healthy, force)
                   IN  /\ decision \in {"fresh", "adopt"}
                       /\ fresh' = (decision = "fresh")
                       /\ forced' = (~fresh' /\ ~SafeToAdopt(healthy))
                       /\ Push("database") /\ Goto("dns")
    /\ UNCHANGED <<k3s, workloads, preserve, attempts, before, resetting, interrupted,
                   present, database, sets, started>>

\* Everything up to the decision.  A stale receipt is removed on the way.
\* The database directory must be empty: only then may a rollback remove it.
Gate ==
    /\ pc = "gate"
    /\ \/ UNCHANGED <<receipt, stack, fresh, forced>> /\ Return("failed")
       \/ /\ receipt' = Kept
          /\ \/ UNCHANGED <<stack, fresh, forced>> /\ Return("failed")
             \/ \E healthy \in {FALSE, Active}, force \in ForceAdopt :
                   LET decision == DecideOwnership(Kept, healthy, force)
                   IN  /\ database = "empty"
                       /\ decision \in {"fresh", "adopt"}
                       /\ fresh' = (decision = "fresh")
                       /\ forced' = (~fresh' /\ ~SafeToAdopt(healthy))
                       /\ Push("database") /\ Goto("dns")
    /\ UNCHANGED <<k3s, workloads, preserve, attempts, before, resetting, interrupted,
                   present, database, sets, started>>

-----------------------------------------------------------------------------
(* The host below K3s.                                                     *)

\* Prepare restores what it changed when it fails, as far as it can.
PrepareHostDNS ==
    /\ pc = "dns"
    /\ \/ /\ present' = IF "coredns" \in Capability THEN present \cup {"dns"} ELSE present
          /\ stack' = IF present' = present THEN stack ELSE Append(stack, "dns")
          /\ Goto("packages")
       \/ /\ "coredns" \in Capability
          /\ present' \in {present, present \cup {"dns"}}
          /\ Return("failed") /\ UNCHANGED stack
    /\ UNCHANGED <<k3s, flags, database, receipt, fresh, sets, started>>

Check ==
    /\ pc \in DOMAIN Barrier
    /\ Goto(Barrier[pc].next) \/ Fail(Barrier[pc].door)
    /\ UNCHANGED <<k3s, flags, present, database, receipt, fresh, stack, sets, started>>

\* A binary of this release, or the foreign K3s of the very same version.
VersionMatches == Active /\ files["binary"] \in {"same", "ours"}

\* CleanupNodeNetwork, unless an adopted K3s of the pinned version is used
\* as it is and merely restarted for its registries.
CleanNetwork ==
    /\ pc = "network"
    /\ \/ ~fresh /\ VersionMatches /\ Goto("restart")
       \/ (fresh \/ ~VersionMatches) /\ Goto(IF fresh THEN "wipe" ELSE "config")
       \/ ~VersionMatches /\ ~Active /\ Return("failed")
    /\ UNCHANGED <<k3s, flags, present, database, receipt, fresh, stack, sets, started>>

\* wipeK3sDataDir: what an uninstall or a dead install left in it goes.
Wipe ==
    /\ pc = "wipe"
    /\ \/ /\ cluster' = "none" /\ workloads' = FALSE /\ present' = present \ InCluster
          /\ Goto("config")
       \/ UNCHANGED <<cluster, workloads, present>> /\ Eager
    /\ UNCHANGED <<files, process, preserve, forced, attempts, before, resetting, interrupted,
                   database, receipt, fresh, stack, sets, started>>

\* WriteConfig, WriteUnit and InstallBinary.
WriteFile ==
    /\ pc \in File
    /\ \/ /\ files' = [files EXCEPT ![pc] = "ours"]
          /\ Goto(CASE pc = "config" -> "unit" [] pc = "unit" -> "binary"
                    [] pc = "binary" -> "start")
       \/ UNCHANGED files /\ Return("failed")
    /\ UNCHANGED <<process, cluster, flags, present, database, receipt, fresh, stack, sets,
                   started>>

\* EnableAndStart: systemctl start does nothing to a unit that is active, and
\* one that timed out may have brought K3s up.
StartK3s ==
    /\ pc = "start"
    /\ \/ /\ process' = IF Active THEN process ELSE "ours"
          /\ started' = TRUE
          /\ cluster' = IF cluster = "none" THEN "ours" ELSE cluster
          /\ Push("k3s")
          /\ Goto("images")
       \/ /\ process' \in {process, IF Active THEN process ELSE "ours"}
          /\ cluster' = IF cluster = "none" /\ process' # "none" THEN "ours" ELSE cluster
          /\ Return("failed") /\ UNCHANGED <<stack, started>>
    /\ UNCHANGED <<files, flags, present, database, receipt, fresh, sets>>

RestartK3s ==
    /\ pc = "restart"
    /\ \/ process' = files["binary"] /\ Goto("images")
       \/ process' \in {process, "none", files["binary"]} /\ Return("failed")
    /\ UNCHANGED <<files, cluster, flags, present, database, receipt, fresh, stack, sets,
                   started>>

-----------------------------------------------------------------------------
(* The appliance on top of K3s.                                            *)

\* The rollback of a host piece puts back what was there before.
Arm(p) == stack' = IF p \in OnHost \cap present THEN stack ELSE Append(stack, p)

Add ==
    /\ pc \in DOMAIN Duty
    /\ \/ present' = present \cup {pc} /\ Arm(pc) /\ Goto(Duty[pc].next)
       \/ UNCHANGED <<present, stack>> /\ Fail(Duty[pc].door)
       \/ /\ Duty[pc].left # "nothing" /\ present' = present \cup {pc}
          /\ IF Duty[pc].left = "armed" THEN Arm(pc) ELSE UNCHANGED stack
          /\ Fail(Duty[pc].door)
    /\ UNCHANGED <<k3s, flags, database, receipt, fresh, sets, started>>

\* applyFreshRelease of ace-system and ace-apps.  Without its prerequisites a
\* release has no rollback to pass on, and cleanupOnFailure calls the nil.
ApplyRelease ==
    /\ pc \in DOMAIN After
    /\ \/ /\ present' = present \cup {pc} /\ Push(pc)
          /\ Goto(After[pc]) /\ UNCHANGED interrupted
       \/ /\ present' \in {present, present \cup {pc}} /\ Push(pc)
          /\ Cleanup /\ UNCHANGED interrupted
       \/ /\ UNCHANGED <<present, stack>>
          /\ Return(IF preserve THEN "preserved" ELSE "panicked")
          /\ interrupted' = ~preserve
    /\ UNCHANGED <<k3s, workloads, preserve, forced, attempts, before, resetting,
                   database, receipt, fresh, sets, started>>

Spawn(set) ==
    /\ running' = {[todo |-> w, undo |-> <<>>] : w \in Rollout[set]}
    /\ broken' = FALSE
    /\ Goto(set)

\* The goroutines of a set start; the later set needs its namespaces first.
EnterSet ==
    /\ \/ pc = "enter infra" /\ Spawn("infra")
       \/ pc = "enter sets" /\ Spawn("sets")
       \/ pc = "enter sets" /\ Cleanup /\ UNCHANGED sets
    /\ UNCHANGED <<k3s, flags, present, database, receipt, fresh, stack, started>>

\* The goroutine w has nothing more to do and sends its rollbacks.
Send(w, undo) == running' = running \ {w} /\ stack' = stack \o undo

\* Fault: a goroutine that failed sends the error without its rollbacks.
ApplyNext_losesRollbacks ==
    /\ pc \in DOMAIN Rollout
    /\ \E w \in running :
          LET c == Head(w.todo)
              undo == Append(w.undo, c)
          IN  \/ /\ present' = present \cup {c} /\ UNCHANGED broken
                 /\ IF Len(w.todo) = 1 THEN Send(w, undo)
                    ELSE /\ running' = (running \ {w})
                                       \cup {[todo |-> Tail(w.todo), undo |-> undo]}
                         /\ UNCHANGED stack
              \/ present' \in {present, present \cup {c}} /\ broken' = TRUE /\ Send(w, <<>>)
    /\ UNCHANGED <<k3s, flags, database, receipt, fresh, started, pc, outcome, errs>>

\* One goroutine applies its next release.  It stops at the first failure,
\* and its rollbacks, the failed release's included if it has one, reach the
\* stack in the order in which the goroutines end.
ApplyNext ==
    /\ pc \in DOMAIN Rollout
    /\ \E w \in running :
          LET c == Head(w.todo)
              undo == Append(w.undo, c)
          IN  \/ /\ present' = present \cup {c} /\ UNCHANGED broken
                 /\ IF Len(w.todo) = 1 THEN Send(w, undo)
                    ELSE /\ running' = (running \ {w})
                                       \cup {[todo |-> Tail(w.todo), undo |-> undo]}
                         /\ UNCHANGED stack
              \/ present' \in {present, present \cup {c}} /\ broken' = TRUE /\ Send(w, undo)
              \/ UNCHANGED present /\ broken' = TRUE /\ Send(w, w.undo)
    /\ UNCHANGED <<k3s, flags, database, receipt, fresh, started, pc, outcome, errs>>

\* Fault: the errors of the goroutines are not looked at.
JoinSet_ignoresErrors ==
    /\ pc \in DOMAIN Rollout
    /\ running = {}
    /\ Goto(IF pc = "infra" THEN "replicas" ELSE "zonctl")
    /\ UNCHANGED <<k3s, flags, present, database, receipt, fresh, stack, sets, started>>

JoinSet ==
    /\ pc \in DOMAIN Rollout
    /\ running = {}
    /\ IF broken THEN Cleanup
       ELSE Goto(IF pc = "infra" THEN "replicas" ELSE "zonctl")
    /\ UNCHANGED <<k3s, flags, present, database, receipt, fresh, stack, sets, started>>

\* state.Save, the last step.
SaveReceipt ==
    /\ pc = "receipt"
    /\ \/ receipt' = TRUE /\ Return("installed")
       \/ UNCHANGED receipt /\ Cleanup
    /\ UNCHANGED <<k3s, flags, present, database, fresh, stack, sets, started>>

-----------------------------------------------------------------------------
(* The rollbacks.                                                          *)

\* The rollback of K3s: stop it, reap its containers, remove its files.
UndoK3s ==
    /\ process' = "none"
    /\ files' = [f \in File |-> "none"]
    /\ UNCHANGED <<present, database>>

UndoDatabase == database' = "empty" /\ UNCHANGED <<files, process, present>>

UndoPiece(p) ==
    /\ p \in InCluster => Active
    /\ present' = present \ {p}
    /\ UNCHANGED <<files, process, database>>

\* Its error is joined to the others and the next rollback follows.
UndoFails(p) ==
    /\ p \in Stubborn /\ errs' = TRUE
    /\ \/ p = "k3s" /\ process' \in {"none", process}
          /\ \E gone \in SUBSET File :
                files' = [f \in File |-> IF f \in gone THEN "none" ELSE files[f]]
       \/ p # "k3s" /\ UNCHANGED <<files, process>>
    /\ UNCHANGED <<present, database>>

UndoOne(p, rest) ==
    /\ stack' = rest
    /\ \/ /\ CASE p = "k3s" -> UndoK3s
               [] p = "database" -> UndoDatabase
               [] OTHER -> UndoPiece(p)
          /\ UNCHANGED errs
       \/ UndoFails(p)
    /\ UNCHANGED <<cluster, flags, receipt, fresh, sets, started, pc, outcome>>

\* Fault: the rollbacks are run in the order they were pushed.
Undo_oldestFirst ==
    /\ pc = "rollback" /\ stack # <<>>
    /\ UndoOne(Head(stack), Tail(stack))

\* runRollbacks and runExtraRollbacks: from the end of the stack.
Undo ==
    /\ pc = "rollback" /\ stack # <<>>
    /\ UndoOne(Last(stack), Front(stack))

RollbackDone ==
    /\ pc = "rollback" /\ stack = <<>>
    /\ Return(IF preserve THEN "preserved"
              ELSE IF errs THEN "cleanup failed" ELSE "rolled back")
    /\ UNCHANGED <<k3s, flags, present, database, receipt, fresh, stack, sets, started>>

-----------------------------------------------------------------------------
(* Uninstall and factory-reset.  Each step may fail, which ends the        *)
(* command; the operator may run it again.                                 *)

memory == <<preserve, forced, fresh, stack, running, broken, before, started, errs>>
rest == <<workloads, attempts, memory>>

\* What the process of an install knew is gone with it.
Forget ==
    /\ preserve' = FALSE /\ forced' = FALSE /\ fresh' = FALSE
    /\ stack' = <<>> /\ running' = {} /\ broken' = FALSE
    /\ before' = {} /\ started' = FALSE /\ errs' = FALSE

BeginTeardown ==
    /\ pc = "idle"
    /\ resetting' \in Reset
    /\ pc' = "stop" /\ outcome' = "none" /\ interrupted' = FALSE
    /\ Forget
    /\ UNCHANGED <<k3s, workloads, attempts, present, database, receipt>>

TeardownStep(step, next) ==
    /\ pc = step /\ pc' = next
    /\ UNCHANGED <<outcome, rest, resetting, interrupted>>

TeardownFails ==
    /\ pc \in Teardown
    /\ pc' = "idle" /\ outcome' = "failed" /\ resetting' = FALSE
    /\ UNCHANGED <<k3s, present, database, receipt, rest, interrupted>>

\* removeK3s: whoever's K3s it is.
StopK3s ==
    /\ TeardownStep("stop", "unlink")
    /\ process' = IF Detected THEN "none" ELSE process
    /\ UNCHANGED <<files, cluster, present, database, receipt>>

\* The unit, the binary and the configuration, in this order.
Unlink ==
    /\ pc = "unlink"
    /\ \/ \E f \in File :
             /\ files[f] # "none"
             /\ f = "binary" => files["unit"] = "none"
             /\ f = "config" => files["unit"] = "none" /\ files["binary"] = "none"
             /\ files' = [files EXCEPT ![f] = "none"]
             /\ UNCHANGED pc
       \/ /\ \A f \in File : files[f] = "none"
          /\ pc' = IF resetting THEN "wipe data" ELSE "drop receipt"
          /\ UNCHANGED files
    /\ UNCHANGED <<process, cluster, present, database, receipt, outcome, rest, resetting,
                   interrupted>>

DropReceipt ==
    /\ TeardownStep("drop receipt", "restore dns")
    /\ receipt' = FALSE
    /\ UNCHANGED <<k3s, present, database>>

WipeData ==
    /\ pc = "wipe data"
    /\ cluster' = "none" /\ workloads' = FALSE /\ present' = present \ InCluster
    /\ pc' = "wipe database"
    /\ UNCHANGED <<files, process, database, receipt, outcome, attempts, memory,
                   resetting, interrupted>>

WipeDatabase ==
    /\ TeardownStep("wipe database", "wipe state")
    /\ database' = "empty"
    /\ UNCHANGED <<k3s, present, receipt>>

\* os.RemoveAll(stateDir), the receipt with it.
WipeState ==
    /\ TeardownStep("wipe state", "drop zonctl")
    /\ receipt' = FALSE
    /\ UNCHANGED <<k3s, present, database>>

DropZonctl ==
    /\ TeardownStep("drop zonctl", "restore dns")
    /\ present' = present \ {"zonctl"}
    /\ UNCHANGED <<k3s, database, receipt>>

RestoreHostDNS ==
    /\ TeardownStep("restore dns", "drop agent")
    /\ present' = present \ {"dns"}
    /\ UNCHANGED <<k3s, database, receipt>>

DropAgent ==
    /\ pc = "drop agent"
    /\ pc' = "idle" /\ outcome' = "torn down" /\ resetting' = FALSE
    /\ present' = present \ {"agent"}
    /\ UNCHANGED <<k3s, database, receipt, rest, interrupted>>

-----------------------------------------------------------------------------
(* Around the operations.                                                  *)

\* PostgreSQL runs, and K3s restarts it, as long as ace-infra is installed.
PostgresWrites ==
    /\ Active /\ "infra" \in present /\ database = "empty"
    /\ database' = "this"
    /\ UNCHANGED <<k3s, flags, present, receipt, pc, fresh, stack, sets, started, errs,
                   outcome>>

\* The process dies, and its rollbacks with it.
Crash ==
    /\ pc # "idle"
    /\ pc' = "idle" /\ outcome' = "none" /\ interrupted' = TRUE
    /\ Forget /\ resetting' = FALSE
    /\ UNCHANGED <<k3s, workloads, attempts, present, database,
                   receipt>>

\* Repair restarts a K3s the receipt records.  Without one it fails, and its
\* failure replaces the record of what died all the same.
Repair ==
    /\ pc = "idle"
    /\ process' \in {process} \cup (IF receipt /\ Detected /\ ~Active THEN {files["binary"]} ELSE {})
    /\ interrupted' = FALSE /\ outcome' = "none"
    /\ Forget
    /\ UNCHANGED <<files, cluster, workloads, attempts, resetting, present, database, receipt,
                   pc>>

-----------------------------------------------------------------------------
Installing ==
    \/ Gate \/ PrepareHostDNS \/ Check \/ CleanNetwork \/ Wipe \/ WriteFile \/ StartK3s
    \/ RestartK3s \/ Add \/ ApplyRelease \/ EnterSet \/ ApplyNext \/ JoinSet \/ SaveReceipt
    \/ Undo \/ RollbackDone

TearingDown ==
    \/ TeardownFails \/ StopK3s \/ Unlink \/ DropReceipt \/ WipeData \/ WipeDatabase
    \/ WipeState \/ DropZonctl \/ RestoreHostDNS \/ DropAgent

Next ==
    \/ Begin \/ Installing
    \/ BeginTeardown \/ TearingDown
    \/ PostgresWrites \/ Crash \/ Repair

Spec == Init /\ [][Next]_vars

-----------------------------------------------------------------------------
(* Properties.                                                             *)

\* What an install that has just returned did not find when it began.
Left == present \ before

\* The pieces whose step leaves no parts when it fails.
Clean == {p \in Piece : p \in DOMAIN Duty => Duty[p].left # "part"}

Unwound == ~Active /\ (\A f \in File : files[f] = "none") /\ database = "empty"

\* PostgreSQL data from before an install is never lost to it or to its
\* rollbacks (install.go: the check of the database directory, and the
\* rollback that removes it).
DatabaseKept == [][database = "older" /\ pc \in Install => database' = "older"]_vars

\* A rollback that reports no error has left nothing of this install: none
\* of its releases and host pieces, and, when it had started K3s, neither
\* K3s nor a database directory with data of its PostgreSQL.
CleanFailure ==
    pc = "idle" /\ outcome = "rolled back" => (Left \cap Clean = {} /\ (started => Unwound))

\* Whatever a rollback removes through the cluster is removed while K3s is
\* up (install.go: the order of the stack).
OrderlyUndo ==
    pc = "rollback" /\ stack # <<>> /\ Last(stack) \in InCluster => Active

\* An install reported as done has K3s, every release and every host piece
\* of its profile, and its receipt (install.go, state.Save at the end).
InstalledIsComplete ==
    pc = "idle" /\ outcome = "installed" =>
        /\ receipt /\ Active /\ Detected
        /\ UNION {{w[i] : i \in 1..Len(w)} : w \in Rollout.infra \cup Rollout.sets} \subseteq present
        /\ DOMAIN Duty \cup DOMAIN After \subseteq present
        /\ "coredns" \in Capability => "dns" \in present

\* An install does not touch the unit, binary or configuration of somebody
\* else's K3s that carries workloads unless it was forced to (the refusal
\* of k3s.DecideOwnership).
ForeignIsAsked ==
    [][files["unit"] = "foreign" /\ workloads /\ pc \in Install /\ files' # files => forced]_vars

\* With --preserve-failed-state nothing is rolled back (cmd/zonctl/main.go:
\* "do not roll back a failed install or upgrade; preserve the partial
\* target state").  Expected to be violated.
PreservedOnRequest ==
    [][preserve /\ pc = "rollback" => UNCHANGED <<files, process, present, database>>]_vars

\* A failed install that started K3s, and none of whose rollbacks failed,
\* leaves no more installed than there was (install.go, the comment of
\* Install).  Expected to be violated.
FailureLeavesNoMore ==
    pc = "idle" /\ started /\ outcome \in {"failed", "rolled back", "panicked"} =>
        (Left \cap Clean = {} /\ Unwound)

\* An install that adopted a K3s of another version runs the version of the
\* release when it is done (k3s/ownership.go: "K3s is upgraded to the target
\* version if required").  Expected to be violated.
InstalledRunsPinned ==
    pc = "idle" /\ outcome = "installed" => process \in {"same", "ours"}
=============================================================================
