---------------------------- MODULE WorkerProofs ----------------------------
(***************************************************************************)
(* Theorems about a further member of a cluster, for any number of         *)
(* releases and any choice of those with a GPU.                            *)
(*                                                                         *)
(* The argument: as long as nothing is excused, the host is clean without  *)
(* a receipt (Clean) and serves its receipt with one (Served).  A join     *)
(* starts from a clean host and writes its files in order (Joining); its   *)
(* rollback takes them away in the order of its labels, and has them all   *)
(* taken away at the end.  An upgrade starts from a served host and has    *)
(* in its snapshot what the receipt names (Upgrading), so that what its    *)
(* deferred function puts back is what the receipt names again.            *)
(***************************************************************************)
EXTENDS Worker, TLAPS

Undoing ==
    {"undo token", "undo stop", "undo config", "undo unit", "undo binary", "undo symlink",
     "undo reload", "undo network", "undo data"}
Back == {"back unit", "back config", "back binary", "back reload", "back start"}
Stopped == {"binary", "config", "unit", "symlink", "reload", "start"}
Started == {"gpu", "ready", "preload", "save"}

\* Which operation a label belongs to, and what it works on.
Running ==
    /\ pc # "idle" => joining \in Role
    /\ pc \in {"wipe", "token", "symlink"} \cup Undoing => op = "join"
    /\ pc \in {"stop", "reload"} \cup Back => op = "upgrade"
    /\ op = "upgrade" => joining = "agent"
    /\ before.mode = "none" <=> before.file["config"] = Absent

TokenClean == token # {} => token = {"agent"} /\ "token" \in relict

FilesClean == \A f \in File : file[f] = Absent

Clean ==
    /\ FilesClean /\ loaded = Absent /\ process = Off /\ ~network
    /\ TokenClean
    /\ data => "data" \in relict

Is(r) == \A f \in Run : file[f] = r

Served ==
    /\ Is(receipt) /\ loaded = receipt /\ enabled
    /\ receipt \in images /\ process # Off /\ token # {}
    /\ role = "server" /\ "agent" \notin token => mode = "server"

\* What a join has written, and what its rollback has taken away.
JoinForward ==
    /\ pc \in {"wipe", "token"} => Clean
    /\ pc = "token" => ~data
    /\ pc \notin {"wipe", "token"} \cup Undoing => joining \in token
    /\ pc \in {"config", "unit", "binary", "symlink", "start"} => loaded = Absent /\ process = Off
    /\ pc \in {"unit", "binary", "symlink", "start"} \cup Started =>
          file["config"] = target /\ mode = joining
    /\ pc \in {"binary", "symlink", "start"} \cup Started => file["unit"] = target
    /\ pc \in {"symlink", "start"} \cup Started => file["binary"] = target
    /\ pc \in Started => loaded = target /\ enabled /\ process = [f \in Run |-> target]
    /\ pc = "save" => target \in images

JoinBack ==
    /\ pc \in Undoing \ {"undo token"} => TokenClean
    /\ pc \in Undoing \ {"undo token", "undo stop"} => process = Off
    /\ pc \in {"undo unit", "undo binary", "undo symlink", "undo reload", "undo network", "undo data"}
          => file["config"] = Absent
    /\ pc \in {"undo binary", "undo symlink", "undo reload", "undo network", "undo data"} => file["unit"] = Absent
    /\ pc \in {"undo symlink", "undo reload", "undo network", "undo data"} => file["binary"] = Absent
    /\ pc \in {"undo reload", "undo network", "undo data"} => file["symlink"] = Absent
    /\ pc \in {"undo network", "undo data"} => loaded = Absent
    /\ pc = "undo data" => ~network

Joining ==
    /\ receipt = Absent
    /\ token \subseteq {"agent", joining}
    /\ "agent" \in token /\ joining = "server" => "token" \in relict
    /\ JoinForward /\ JoinBack

\* What an upgrade has replaced, and what its deferred function put back.
UpgradeForward ==
    /\ pc = "stop" => Served
    /\ pc \in Stopped => process = Off
    /\ pc = "binary" => Is(receipt)
    /\ pc \in {"config", "unit", "reload", "start"} \cup Started => file["binary"] = target
    /\ pc \in {"unit", "reload", "start"} \cup Started => file["config"] = target
    /\ pc \in {"reload", "start"} \cup Started => file["unit"] = target
    /\ pc \in {"start"} \cup Started => loaded = target
    /\ pc \in Started => process = [f \in Run |-> target]
    /\ pc = "save" => target \in images

UpgradeBack ==
    /\ pc \in Back \ {"back unit"} => file["unit"] = receipt
    /\ pc \in {"back binary", "back reload", "back start"} => file["config"] = receipt
    /\ pc \in {"back reload", "back start"} => file["binary"] = receipt
    /\ pc = "back start" => loaded = receipt

Upgrading ==
    /\ receipt # Absent /\ "agent" \in token /\ enabled /\ receipt \in images
    /\ \A f \in Run : before.file[f] = receipt
    /\ UpgradeForward /\ UpgradeBack

Host ==
    /\ pc = "idle" /\ receipt = Absent => Clean
    /\ pc = "idle" /\ receipt # Absent => Served
    /\ op = "join" => Joining
    /\ op = "upgrade" => Upgrading

WorkerInv == TypeOK /\ Running /\ (~excused => Host)

-----------------------------------------------------------------------------
(* Types, and which operation runs.                                        *)

FileTypes ==
    /\ file \in [File -> Content] /\ mode \in Role \cup {"none"} /\ token \subseteq Role
    /\ mode = "none" <=> file["config"] = Absent

AgentTypes ==
    /\ loaded \in Content /\ enabled \in BOOLEAN /\ process \in [Run -> Content]
    /\ data \in BOOLEAN /\ network \in BOOLEAN /\ images \subseteq Release

PastTypes ==
    /\ receipt \in Content /\ role \in Role \cup {"none"}
    /\ interrupted \in BOOLEAN /\ excused \in BOOLEAN /\ relict \subseteq {"token", "data"}

OperationTypes ==
    /\ pc \in Label /\ op \in {"none", "join", "upgrade"}
    /\ target \in Content /\ joining \in Role \cup {"none"}
    /\ before \in [file : [Run -> Content], mode : Role \cup {"none"}]
    /\ pc = "idle" <=> op = "none"
    /\ op # "none" => target \in Release

Types == FileTypes /\ AgentTypes /\ PastTypes /\ OperationTypes

LEMMA TypeParts == TypeOK <=> Types
BY DEF TypeOK, Types, FileTypes, AgentTypes, PastTypes, OperationTypes

LEMMA TypesNext == Types' => TypeOK'
BY DEF TypeOK, Types, FileTypes, AgentTypes, PastTypes, OperationTypes

\* The values.
LEMMA Values ==
    /\ Absent \notin Release /\ Release \subseteq Content /\ Absent \in Content
    /\ Run \subseteq File /\ "config" \in Run /\ "unit" \in Run /\ "binary" \in Run /\ "symlink" \in File
    /\ Off \in [Run -> Content] /\ "none" \notin Role /\ "agent" \in Role
BY ReleaseAssumption DEF Absent, Release, Content, Run, File, Off, Role

LEMMA StartingTypes == FileTypes => Starting \in [Run -> Content]
BY Values DEF FileTypes, Starting

\* The ways an operation moves.
LEMMA Returned == ASSUME Return PROVE OperationTypes' /\ Running'
BY Values DEF Return, OperationTypes, Running, Label, Nothing, Off, Undoing, Back

LEMMA Went ==
    ASSUME OperationTypes, Running, pc # "idle", NEW label \in Label \ {"idle"}, Goto(label),
           label \in {"wipe", "token", "symlink"} \cup Undoing => op = "join",
           label \in {"stop", "reload"} \cup Back => op = "upgrade"
    PROVE  OperationTypes' /\ Running'
BY DEF Goto, OperationTypes, Running

LEMMA Failed ==
    ASSUME OperationTypes, Running, pc # "idle", Fail
    PROVE  OperationTypes' /\ Running'
BY Went DEF Fail, OperationTypes, Label, Undoing, Back

LEMMA NextOperation == Types /\ Running /\ Next => OperationTypes' /\ Running'
<1> SUFFICES ASSUME Types, Running, Next PROVE OperationTypes' /\ Running'
  OBVIOUS
<1>0. OperationTypes /\ FileTypes
  BY DEF Types
<1> USE <1>0
<1>w. ASSUME NEW label \in Label \ {"idle"}, pc # "idle", Goto(label),
             label \in {"wipe", "token", "symlink"} \cup Undoing => op = "join",
             label \in {"stop", "reload"} \cup Back => op = "upgrade"
      PROVE  OperationTypes' /\ Running'
  BY <1>w, Went
<1>1. CASE BeginJoin
  BY <1>1, Values DEF BeginJoin, OperationTypes, Running, Label, Undoing, Back
<1>2. CASE BeginUpgrade
  <2>1. Starting \in [Run -> Content] /\ Starting["config"] = file["config"]
    BY StartingTypes, Values DEF Starting
  <2> QED BY <1>2, <2>1, Values DEF BeginUpgrade, OperationTypes, FileTypes, Running, Label, Undoing, Back
<1>3. CASE WipeData \/ WriteJoinToken
  <2>1. /\ pc \in {"wipe", "token"}
        /\ Return \/ \E l \in {"token", "config"} : Goto(l)
    BY <1>3 DEF WipeData, WriteJoinToken
  <2> QED BY <2>1, <1>w, Returned DEF Label, Undoing, Back, Running
<1>4. CASE WriteConfig \/ WriteUnit \/ InstallBinary \/ EnsureKubectlSymlink
  <2>1. /\ pc \in {"config", "unit", "binary", "symlink"}
        /\ \/ Fail
           \/ \E l \in {"unit", "config", "start"} : Goto(l)
           \/ op = "join" /\ \E l \in {"binary", "symlink"} : Goto(l)
           \/ op # "join" /\ Goto("reload")
    <3>1. WriteConfig => pc = "config" /\ (Fail \/ Goto("unit"))
      BY DEF WriteConfig
    <3>2. WriteUnit => pc = "unit" /\ (Fail \/ Goto(IF op = "join" THEN "binary" ELSE "reload"))
      BY DEF WriteUnit
    <3>3. InstallBinary => pc = "binary" /\ (Fail \/ Goto(IF op = "join" THEN "symlink" ELSE "config"))
      BY DEF InstallBinary
    <3>4. EnsureKubectlSymlink => pc = "symlink" /\ (Fail \/ Goto("start"))
      BY DEF EnsureKubectlSymlink
    <3> QED BY <1>4, <3>1, <3>2, <3>3, <3>4
  <2>2. pc # "idle" /\ (op # "join" => op = "upgrade")
    BY <2>1 DEF OperationTypes
  <2> QED BY <2>1, <2>2, <1>w, Failed DEF Label, Undoing, Back
<1>5. CASE Start \/ ConfigureGpu \/ WaitReady \/ PreloadAll \/ SaveReceipt
  <2>1. /\ pc \in {"start", "gpu", "ready", "preload", "save"}
        /\ Fail \/ Return \/ \E l \in {"gpu", "ready", "preload", "save"} : Goto(l)
    <3>1. Start => pc = "start" /\ (Fail \/ \E l \in {"gpu", "ready"} : Goto(l))
      BY DEF Start, EnableAndStart
    <3>2. ConfigureGpu => pc = "gpu" /\ (Fail \/ Goto("ready"))
      BY DEF ConfigureGpu
    <3>3. WaitReady => pc = "ready" /\ (Fail \/ Goto("preload"))
      BY DEF WaitReady
    <3>4. PreloadAll => pc = "preload" /\ (Fail \/ Goto("save"))
      BY DEF PreloadAll
    <3>5. SaveReceipt => pc = "save" /\ (Fail \/ Return)
      BY DEF SaveReceipt
    <3> QED BY <1>5, <3>1, <3>2, <3>3, <3>4, <3>5
  <2> QED BY <2>1, <1>w, Failed, Returned DEF Label, Undoing, Back
<1>6. ASSUME pc \in Undoing, Return \/ \E l \in Undoing : Goto(l)
      PROVE  OperationTypes' /\ Running'
  <2>1. op = "join" /\ pc # "idle"
    BY <1>6 DEF Running, Undoing
  <2> QED BY <1>6, <2>1, <1>w, Returned DEF Label, Undoing, Back
<1>7. CASE Join
  <2>1. CASE UndoToken \/ UndoStop \/ UndoReload \/ UndoNetwork \/ UndoData
    <3>1. pc \in Undoing /\ (Return \/ \E l \in Undoing : Goto(l))
      BY <2>1 DEF UndoToken, UndoStop, UndoReload, UndoNetwork, UndoData, Undo, Undoing
    <3> QED BY <1>6, <3>1
  <2>2. ASSUME NEW f \in File, NEW from \in Undoing, NEW next \in Undoing, UndoFile(f, from, next)
        PROVE  OperationTypes' /\ Running'
    <3>1. pc \in Undoing /\ Goto(next)
      BY <2>2 DEF UndoFile, Undo, Undoing
    <3> QED BY <1>6, <3>1
  <2> QED BY <1>3, <1>4, <1>7, <2>1, <2>2, Values DEF Join, Undoing
<1>8. CASE Upgrade
  <2>1. CASE StopAgent
    BY <1>w, <2>1, Returned DEF StopAgent, Label, Undoing, Back
  <2>2. CASE DaemonReload
    BY <1>w, <2>2, Failed DEF DaemonReload, Reload, Label, Undoing, Back
  <2>3. CASE RestoreUnit \/ RestoreConfig \/ RestoreBinary \/ RestoreUnits
    <3>1. pc \in Back /\ \E l \in Back : Goto(l)
      BY <2>3 DEF RestoreUnit, RestoreConfig, RestoreBinary, RestoreFile, RestoreUnits, Reload, Back
    <3>2. op = "upgrade" /\ pc # "idle"
      BY <3>1 DEF Running, Back
    <3> QED BY <3>1, <3>2, <1>w DEF Label, Undoing, Back
  <2>4. CASE RestoreAgent
    BY <2>4, Returned DEF RestoreAgent, EnableAndStart
  <2> QED BY <1>8, <2>1, <2>2, <2>3, <2>4 DEF Upgrade
<1>9. CASE Crash \/ Reboot
  BY <1>9, Returned DEF Crash, Reboot
<1>10. CASE UNCHANGED operation
  BY <1>10 DEF operation, OperationTypes, Running
<1>11. SystemdRestart \/ Repair \/ Uninstall \/ FactoryReset => UNCHANGED operation
  BY DEF SystemdRestart, Repair, Uninstall, FactoryReset, RemoveK3s
<1> QED BY <1>1, <1>2, <1>4, <1>5, <1>7, <1>8, <1>9, <1>10, <1>11 DEF Next, Step

LEMMA NextFiles == Types /\ Running /\ Next => FileTypes'
<1> SUFFICES ASSUME Types, Running, Next PROVE FileTypes'
  OBVIOUS
<1> USE Values DEF Types, FileTypes, OperationTypes, Running
<1>1. CASE WriteConfig
  BY <1>1 DEF WriteConfig
<1>2. CASE WriteUnit \/ InstallBinary \/ EnsureKubectlSymlink
  BY <1>2 DEF WriteUnit, InstallBinary, EnsureKubectlSymlink, Write, File, Run
<1>3. CASE WriteJoinToken \/ UndoToken
  BY <1>3 DEF WriteJoinToken, UndoToken, Undo
<1>4. ASSUME NEW f \in File, NEW from, NEW next, UndoFile(f, from, next) PROVE FileTypes'
  <2>1. /\ file' \in {file, [file EXCEPT ![f] = Absent]} /\ token' = token
        /\ mode' = IF f = "config" /\ file'[f] = Absent THEN "none" ELSE mode
    BY <1>4 DEF UndoFile, Undo
  <2>2. file' \in [File -> Content] /\ \A g \in File \ {f} : file'[g] = file[g]
    BY <2>1
  <2> QED BY <2>1, <2>2
<1>5. CASE RestoreUnit \/ RestoreBinary
  BY <1>5 DEF RestoreUnit, RestoreBinary, RestoreFile, File, Run
<1>6. CASE RestoreConfig
  <2>1. before.file["config"] \in Content /\ before.mode \in Role \cup {"none"}
    OBVIOUS
  <2> QED BY <1>6, <2>1 DEF RestoreConfig, RestoreFile
<1>7. CASE Uninstall \/ FactoryReset
  BY <1>7 DEF Uninstall, FactoryReset, RemoveK3s
<1>8. CASE UNCHANGED disk
  BY <1>8 DEF disk
<1>9. CASE BeginJoin \/ BeginUpgrade \/ WipeData \/ UndoStop \/ UndoReload \/ UndoNetwork \/ UndoData
  <2>1. UNCHANGED disk
    BY <1>9 DEF BeginJoin, BeginUpgrade, WipeData, UndoStop, UndoReload, UndoNetwork, UndoData
  <2> QED BY <1>8, <2>1
<1>10. CASE StopAgent \/ DaemonReload \/ RestoreUnits \/ RestoreAgent
  <2>1. UNCHANGED disk
    BY <1>10 DEF StopAgent, DaemonReload, RestoreUnits, Reload, RestoreAgent
  <2> QED BY <1>8, <2>1
<1>11. CASE Start \/ ConfigureGpu \/ WaitReady \/ PreloadAll \/ SaveReceipt
  <2>1. UNCHANGED disk
    BY <1>11 DEF Start, ConfigureGpu, WaitReady, PreloadAll, SaveReceipt
  <2> QED BY <1>8, <2>1
<1>12. CASE SystemdRestart \/ Crash \/ Reboot \/ Repair
  <2>1. UNCHANGED disk
    BY <1>12 DEF SystemdRestart, Crash, Reboot, Repair
  <2> QED BY <1>8, <2>1
<1>13. CASE Join
  BY <1>2, <1>3, <1>4, <1>9, <1>13 DEF Join
<1>14. CASE Upgrade
  BY <1>5, <1>6, <1>10, <1>14 DEF Upgrade
<1> QED BY <1>1, <1>2, <1>7, <1>9, <1>11, <1>12, <1>13, <1>14 DEF Next, Step

LEMMA NextAgent == Types /\ Running /\ Next => AgentTypes'
<1> SUFFICES ASSUME Types, Running, Next PROVE AgentTypes'
  OBVIOUS
<1>0. FileTypes /\ AgentTypes /\ OperationTypes /\ Starting \in [Run -> Content]
  BY StartingTypes DEF Types
<1>f. file["unit"] \in Content
  BY <1>0, Values DEF FileTypes
<1> USE <1>0, <1>f, Values
<1>1. CASE Start \/ RestoreAgent
  <2>1. /\ loaded' \in {loaded, file["unit"]} /\ enabled' \in {enabled, TRUE} /\ process' \in {process, Starting}
        /\ data' \in {data, TRUE} /\ network' \in {network, TRUE} /\ images' = images
    BY <1>1 DEF Start, RestoreAgent, EnableAndStart, Up
  <2> QED BY <2>1 DEF AgentTypes
<1>2. CASE ConfigureGpu \/ WaitReady \/ PreloadAll
  BY <1>2 DEF ConfigureGpu, WaitReady, PreloadAll, agent, AgentTypes, OperationTypes
<1>3. CASE WipeData \/ UndoStop \/ UndoReload \/ UndoNetwork \/ UndoData
  BY <1>3 DEF WipeData, UndoStop, UndoReload, UndoNetwork, UndoData, Undo, AgentTypes
<1>4. CASE StopAgent \/ DaemonReload \/ RestoreUnits
  BY <1>4 DEF StopAgent, Down, DaemonReload, RestoreUnits, Reload, AgentTypes
<1>5. CASE SystemdRestart \/ Repair
  <2>1. [Starting EXCEPT !["unit"] = loaded] \in [Run -> Content]
    BY DEF AgentTypes
  <2> QED BY <1>5, <2>1 DEF SystemdRestart, Repair, AgentTypes
<1>6. CASE Reboot
  BY <1>6 DEF Reboot, AgentTypes
<1>7. CASE Uninstall \/ FactoryReset
  BY <1>7 DEF Uninstall, FactoryReset, RemoveK3s, AgentTypes
<1>8. CASE UNCHANGED agent
  BY <1>8 DEF agent, AgentTypes
<1>9. CASE BeginJoin \/ BeginUpgrade \/ WriteJoinToken \/ EnsureKubectlSymlink \/ UndoToken
  <2>1. UNCHANGED agent
    BY <1>9 DEF BeginJoin, BeginUpgrade, WriteJoinToken, EnsureKubectlSymlink, UndoToken
  <2> QED BY <1>8, <2>1
<1>10. ASSUME NEW f, NEW from, NEW next, UndoFile(f, from, next) PROVE AgentTypes'
  BY <1>8, <1>10 DEF UndoFile
<1>11. CASE RestoreUnit \/ RestoreConfig \/ RestoreBinary \/ WriteConfig \/ WriteUnit \/ InstallBinary
            \/ SaveReceipt \/ Crash
  <2>1. UNCHANGED agent
    BY <1>11 DEF RestoreUnit, RestoreConfig, RestoreBinary, RestoreFile, WriteConfig, WriteUnit, InstallBinary,
       SaveReceipt, Crash
  <2> QED BY <1>8, <2>1
<1>12. CASE Join
  BY <1>3, <1>9, <1>10, <1>12 DEF Join
<1>13. CASE Upgrade
  BY <1>1, <1>4, <1>11, <1>13 DEF Upgrade
<1> QED BY <1>1, <1>2, <1>5, <1>6, <1>7, <1>9, <1>11, <1>12, <1>13 DEF Next, Step

LEMMA NextPast == Types /\ Running /\ Next => PastTypes'
<1> SUFFICES ASSUME Types, Running, Next PROVE PastTypes'
  OBVIOUS
<1> USE Values DEF Types, PastTypes
<1>1. CASE SaveReceipt
  <2>1. target \in Content /\ joining \in Role \cup {"none"}
    BY DEF OperationTypes
  <2> QED BY <1>1, <2>1 DEF SaveReceipt, record, past
<1>2. CASE WipeData \/ StopAgent \/ Crash \/ Reboot \/ Repair
  BY <1>2 DEF WipeData, StopAgent, Crash, Reboot, Repair, record
<1>3. CASE Uninstall \/ FactoryReset
  BY <1>3 DEF Uninstall, FactoryReset, RemoveK3s
<1>4. CASE UndoToken \/ UndoStop \/ UndoReload \/ UndoNetwork \/ UndoData
  <2>1. UNCHANGED <<record, interrupted>> /\ excused' \in {excused, TRUE}
        /\ relict' \in {relict, relict \ {"token"}}
    BY <1>4 DEF UndoToken, UndoStop, UndoReload, UndoNetwork, UndoData, Undo
  <2> QED BY <2>1 DEF record
<1>5. ASSUME NEW f, NEW from, NEW next, UndoFile(f, from, next) PROVE PastTypes'
  BY <1>5 DEF UndoFile, Undo, record
<1>6. CASE UNCHANGED record /\ (UNCHANGED past \/ Joined)
  BY <1>6 DEF record, past, Joined
<1>7. CASE DaemonReload \/ RestoreUnits \/ RestoreAgent
  <2>1. UNCHANGED record /\ (UNCHANGED past \/ Joined)
    BY <1>7 DEF DaemonReload, RestoreUnits, Reload, RestoreAgent, EnableAndStart
  <2> QED BY <1>6, <2>1
<1>8. CASE RestoreUnit \/ RestoreConfig \/ RestoreBinary
  <2>1. UNCHANGED record /\ (UNCHANGED past \/ Joined)
    BY <1>8 DEF RestoreUnit, RestoreConfig, RestoreBinary, RestoreFile
  <2> QED BY <1>6, <2>1
<1>9. CASE BeginJoin \/ BeginUpgrade \/ WriteJoinToken \/ EnsureKubectlSymlink \/ SystemdRestart
  <2>1. UNCHANGED record /\ UNCHANGED past
    BY <1>9 DEF BeginJoin, BeginUpgrade, WriteJoinToken, EnsureKubectlSymlink, SystemdRestart
  <2> QED BY <1>6, <2>1
<1>10. CASE WriteConfig \/ WriteUnit \/ InstallBinary \/ Start \/ ConfigureGpu \/ WaitReady \/ PreloadAll
  <2>1. UNCHANGED record /\ UNCHANGED past
    BY <1>10 DEF WriteConfig, WriteUnit, InstallBinary, Start, ConfigureGpu, WaitReady, PreloadAll
  <2> QED BY <1>6, <2>1
<1>11. CASE Join
  BY <1>2, <1>4, <1>5, <1>9, <1>11 DEF Join
<1>12. CASE Upgrade
  BY <1>2, <1>7, <1>8, <1>12 DEF Upgrade
<1> QED BY <1>1, <1>2, <1>3, <1>9, <1>10, <1>11, <1>12 DEF Next, Step

LEMMA NextTypes == Types /\ Running /\ Next => Types' /\ Running'
BY NextFiles, NextAgent, NextPast, NextOperation DEF Types

-----------------------------------------------------------------------------
(* The host.                                                               *)

\* An idle host, or one in an operation, is what Host says of it.
LEMMA CleanHost == ASSUME pc = "idle", op = "none", receipt = Absent, Clean PROVE Host
BY DEF Host

LEMMA ServedHost == ASSUME pc = "idle", op = "none", receipt # Absent, Served PROVE Host
BY DEF Host

LEMMA JoiningHost == ASSUME pc # "idle", op = "join", Joining PROVE Host
BY DEF Host

LEMMA UpgradingHost == ASSUME pc # "idle", op = "upgrade", Upgrading PROVE Host
BY DEF Host

\* What is excused stays so until an uninstall or a reset.
LEMMA Excuses == Types /\ Next /\ ~excused' => ~excused \/ Uninstall \/ FactoryReset
<1> SUFFICES ASSUME Types, Next, excused, ~Uninstall, ~FactoryReset PROVE excused'
  BY DEF Types, PastTypes
<1>1. CASE Join
  <2>1. WipeData \/ WriteJoinToken \/ EnsureKubectlSymlink => excused'
    BY DEF WipeData, WriteJoinToken, EnsureKubectlSymlink, past
  <2>2. UndoToken \/ UndoStop \/ UndoReload \/ UndoNetwork \/ UndoData => excused'
    BY DEF UndoToken, UndoStop, UndoReload, UndoNetwork, UndoData, Undo
  <2>3. ASSUME NEW f, NEW from, NEW next, UndoFile(f, from, next) PROVE excused'
    BY <2>3 DEF UndoFile, Undo
  <2> QED BY <1>1, <2>1, <2>2, <2>3 DEF Join
<1>2. CASE Upgrade
  <2>1. StopAgent \/ DaemonReload \/ RestoreUnits => excused'
    BY DEF StopAgent, DaemonReload, RestoreUnits, Reload, Joined, past
  <2>2. RestoreUnit \/ RestoreConfig \/ RestoreBinary \/ RestoreAgent => excused'
    BY DEF RestoreUnit, RestoreConfig, RestoreBinary, RestoreFile, RestoreAgent, EnableAndStart, Joined, past
  <2> QED BY <1>2, <2>1, <2>2 DEF Upgrade
<1>3. WriteConfig \/ WriteUnit \/ InstallBinary \/ Start \/ ConfigureGpu \/ WaitReady \/ PreloadAll \/ SaveReceipt
        => excused'
  BY DEF WriteConfig, WriteUnit, InstallBinary, Start, ConfigureGpu, WaitReady, PreloadAll, SaveReceipt, past
<1>4. BeginJoin \/ BeginUpgrade \/ SystemdRestart \/ Crash \/ Reboot \/ Repair => excused'
  BY DEF BeginJoin, BeginUpgrade, SystemdRestart, Crash, Reboot, Repair, past
<1> QED BY <1>1, <1>2, <1>3, <1>4 DEF Next, Step

\* What holds before a step of a host that is not excused.
Pre == Types /\ Running /\ Host /\ ~excused

\* A failure of a join leads to its rollback, one of an upgrade to its
\* deferred function.
LEMMA JoinFails ==
    ASSUME Pre, op = "join", Fail, UNCHANGED <<token, receipt, relict>>
    PROVE  Host'
<1>1. pc' = "undo token" /\ op' = "join" /\ joining' = joining
  BY DEF Fail, Goto
<1>2. Joining'
  BY <1>1 DEF Pre, Host, Joining, JoinForward, JoinBack, Undoing, Started
<1> QED BY <1>1, <1>2 DEF Host

LEMMA UpgradeFails ==
    ASSUME Pre, op = "upgrade", Fail, UNCHANGED <<token, receipt>>, enabled', images \subseteq images'
    PROVE  Host'
<1>1. pc' = "back unit" /\ op' = "upgrade" /\ before' = before
  BY DEF Fail, Goto
<1>2. Upgrading'
  BY <1>1 DEF Pre, Host, Upgrading, UpgradeForward, UpgradeBack, Stopped, Started, Back
<1> QED BY <1>1, <1>2 DEF Host

\* The beginnings.
LEMMA BeginJoinHost == Pre /\ BeginJoin => Host'
<1> SUFFICES ASSUME Pre, BeginJoin PROVE Host'
  OBVIOUS
<1>1. /\ pc' = "wipe" /\ op' = "join" /\ joining' \in Role /\ Clean
      /\ UNCHANGED <<disk, agent, record, past>>
  BY DEF Pre, Host, BeginJoin
<1>2. Clean' /\ receipt' = Absent
  BY <1>1 DEF Clean, FilesClean, TokenClean, disk, agent, record, past, BeginJoin
<1>3. token' \subseteq {"agent"} /\ ("agent" \in token' => "token" \in relict')
  BY <1>2 DEF Clean, TokenClean
<1>4. JoinForward' /\ JoinBack'
  BY <1>1, <1>2 DEF JoinForward, JoinBack, Undoing, Started
<1>5. Joining'
  BY <1>2, <1>3, <1>4 DEF Joining
<1> QED BY <1>1, <1>5 DEF Host

LEMMA BeginUpgradeHost == Pre /\ BeginUpgrade => Host'
<1> SUFFICES ASSUME Pre, BeginUpgrade PROVE Host'
  OBVIOUS
<1>1. /\ pc' = "stop" /\ op' = "upgrade" /\ Served /\ receipt # Absent /\ "agent" \in token
      /\ before'.file = Starting
      /\ UNCHANGED <<disk, agent, record>>
  BY DEF Pre, Host, BeginUpgrade
<1>2. Served' /\ receipt' = receipt /\ token' = token /\ enabled' /\ receipt' \in images'
  BY <1>1 DEF Served, Is, disk, agent, record
<1>3. \A f \in Run : before'.file[f] = receipt'
  BY <1>1, <1>2 DEF Served, Is, Starting
<1>4. UpgradeForward' /\ UpgradeBack'
  BY <1>1, <1>2 DEF UpgradeForward, UpgradeBack, Stopped, Started, Back
<1>5. Upgrading'
  BY <1>1, <1>2, <1>3, <1>4 DEF Upgrading
<1> QED BY <1>1, <1>5 DEF Host

\* The steps of a join.
LEMMA WipeHost == Pre /\ WipeData /\ ~excused' => Host'
<1> SUFFICES ASSUME Pre, WipeData PROVE Host'
  OBVIOUS
<1>0. /\ pc = "wipe" /\ op = "join" /\ Joining /\ Clean
      /\ UNCHANGED <<file, mode, token, loaded, enabled, process, network, receipt>>
  BY DEF Pre, Host, Running, WipeData, Joining, JoinForward, disk, record
<1>1. CASE Goto("token") /\ ~data' /\ relict' = relict \ {"data"}
  <2>1. Clean' /\ pc' = "token" /\ op' = "join" /\ joining' = joining
    BY <1>0, <1>1 DEF Clean, FilesClean, TokenClean, Goto
  <2>2. JoinForward' /\ JoinBack'
    BY <1>1, <2>1 DEF JoinForward, JoinBack, Undoing, Started
  <2>3. Joining'
    BY <1>0, <1>1, <2>1, <2>2 DEF Joining
  <2> QED BY <2>1, <2>3 DEF Host
<1>2. CASE Return /\ UNCHANGED <<data, relict>>
  <2>1. Clean' /\ pc' = "idle" /\ op' = "none" /\ receipt' = Absent
    BY <1>0, <1>2 DEF Clean, FilesClean, TokenClean, Return, Joining
  <2> QED BY <2>1 DEF Host
<1> QED BY <1>1, <1>2 DEF WipeData

LEMMA TokenHost == Pre /\ WriteJoinToken /\ ~excused' => Host'
<1> SUFFICES ASSUME Pre, WriteJoinToken PROVE Host'
  OBVIOUS
<1>0. /\ pc = "token" /\ op = "join" /\ joining \in Role /\ Joining /\ Clean /\ ~data
      /\ UNCHANGED <<file, mode, loaded, enabled, process, data, network, receipt, relict>>
  BY DEF Pre, Host, Running, WriteJoinToken, Joining, JoinForward, agent, record, past
<1>1. CASE Goto("config") /\ token' = token \cup {joining}
  <2>1. pc' = "config" /\ op' = "join" /\ joining' = joining
    BY <1>0, <1>1 DEF Goto
  <2>2. JoinForward' /\ JoinBack'
    BY <1>0, <1>1, <2>1 DEF JoinForward, JoinBack, Undoing, Started, Clean
  <2>3. Joining'
    BY <1>0, <1>1, <2>1, <2>2 DEF Joining, Role
  <2> QED BY <2>1, <2>3 DEF Host
<1>2. CASE Return /\ UNCHANGED token
  <2>1. Clean' /\ pc' = "idle" /\ op' = "none" /\ receipt' = Absent
    BY <1>0, <1>2 DEF Clean, FilesClean, TokenClean, Return, Joining
  <2> QED BY <2>1 DEF Host
<1> QED BY <1>1, <1>2 DEF WriteJoinToken

\* The files, of a join and of an upgrade.
LEMMA FileHost ==
    Pre /\ (WriteConfig \/ WriteUnit \/ InstallBinary \/ EnsureKubectlSymlink) => Host'
<1> SUFFICES ASSUME Pre, WriteConfig \/ WriteUnit \/ InstallBinary \/ EnsureKubectlSymlink PROVE Host'
  OBVIOUS
<1>0. /\ FileTypes /\ op \in {"join", "upgrade"} /\ UNCHANGED <<token, agent, record, past>>
      /\ pc = "symlink" => op = "join"
  BY DEF Pre, Types, OperationTypes, Running, WriteConfig, WriteUnit, InstallBinary, EnsureKubectlSymlink
<1>1. CASE Fail
  BY <1>0, <1>1, JoinFails, UpgradeFails DEF Pre, Host, Upgrading, agent, record, past
<1>2. CASE WriteConfig /\ ~Fail
  <2>1. /\ pc = "config" /\ pc' = "unit" /\ op' = op /\ target' = target /\ joining' = joining /\ before' = before
        /\ file' = [file EXCEPT !["config"] = target] /\ mode' = joining
    BY <1>2 DEF WriteConfig, Goto
  <2>2. file'["config"] = target /\ \A f \in File \ {"config"} : file'[f] = file[f]
    BY <1>0, <2>1 DEF FileTypes, File, Run
  <2>3. CASE op = "join"
    <3>1. JoinForward' /\ JoinBack'
      BY <1>0, <2>1, <2>2, <2>3 DEF Pre, Host, Joining, JoinForward, JoinBack, Undoing, Started, agent
    <3>2. Joining'
      BY <1>0, <2>1, <2>3, <3>1 DEF Pre, Host, Joining, record, past
    <3> QED BY <2>1, <2>3, <3>2 DEF Host
  <2>4. CASE op = "upgrade"
    <3>1. UpgradeForward' /\ UpgradeBack'
      BY <1>0, <2>1, <2>2, <2>4 DEF Pre, Host, Upgrading, UpgradeForward, UpgradeBack, Stopped, Started, Back, File, Run, agent
    <3>2. Upgrading'
      BY <1>0, <2>1, <2>4, <3>1 DEF Pre, Host, Upgrading, agent, record
    <3> QED BY <2>1, <2>4, <3>2 DEF Host
  <2> QED BY <1>0, <2>3, <2>4
<1>3. CASE WriteUnit /\ ~Fail
  <2>1. /\ pc = "unit" /\ pc' = (IF op = "join" THEN "binary" ELSE "reload")
        /\ op' = op /\ target' = target /\ joining' = joining /\ before' = before
        /\ file' = [file EXCEPT !["unit"] = target] /\ mode' = mode
    BY <1>3 DEF WriteUnit, Goto
  <2>2. file'["unit"] = target /\ \A f \in File \ {"unit"} : file'[f] = file[f]
    BY <1>0, <2>1 DEF FileTypes, File, Run
  <2>3. CASE op = "join"
    <3>1. JoinForward' /\ JoinBack'
      BY <1>0, <2>1, <2>2, <2>3 DEF Pre, Host, Joining, JoinForward, JoinBack, Undoing, Started, agent, File, Run
    <3>2. Joining'
      BY <1>0, <2>1, <2>3, <3>1 DEF Pre, Host, Joining, record, past
    <3> QED BY <2>1, <2>3, <3>2 DEF Host
  <2>4. CASE op = "upgrade"
    <3>1. UpgradeForward' /\ UpgradeBack'
      BY <1>0, <2>1, <2>2, <2>4 DEF Pre, Host, Upgrading, UpgradeForward, UpgradeBack, Stopped, Started, Back, File, Run, agent
    <3>2. Upgrading'
      BY <1>0, <2>1, <2>4, <3>1 DEF Pre, Host, Upgrading, agent, record
    <3> QED BY <2>1, <2>4, <3>2 DEF Host
  <2> QED BY <1>0, <2>3, <2>4
<1>4. CASE InstallBinary /\ ~Fail
  <2>1. /\ pc = "binary" /\ pc' = (IF op = "join" THEN "symlink" ELSE "config")
        /\ op' = op /\ target' = target /\ joining' = joining /\ before' = before
        /\ file' = [file EXCEPT !["binary"] = target] /\ mode' = mode
    BY <1>4 DEF InstallBinary, Goto
  <2>2. file'["binary"] = target /\ \A f \in File \ {"binary"} : file'[f] = file[f]
    BY <1>0, <2>1 DEF FileTypes, File, Run
  <2>3. CASE op = "join"
    <3>1. JoinForward' /\ JoinBack'
      BY <1>0, <2>1, <2>2, <2>3 DEF Pre, Host, Joining, JoinForward, JoinBack, Undoing, Started, agent, File, Run
    <3>2. Joining'
      BY <1>0, <2>1, <2>3, <3>1 DEF Pre, Host, Joining, record, past
    <3> QED BY <2>1, <2>3, <3>2 DEF Host
  <2>4. CASE op = "upgrade"
    <3>1. UpgradeForward' /\ UpgradeBack'
      BY <1>0, <2>1, <2>2, <2>4 DEF Pre, Host, Upgrading, UpgradeForward, UpgradeBack, Stopped, Started, Back, File, Run, agent
    <3>2. Upgrading'
      BY <1>0, <2>1, <2>4, <3>1 DEF Pre, Host, Upgrading, agent, record
    <3> QED BY <2>1, <2>4, <3>2 DEF Host
  <2> QED BY <1>0, <2>3, <2>4
<1>5. CASE EnsureKubectlSymlink /\ ~Fail
  <2>1. /\ pc = "symlink" /\ pc' = "start"
        /\ op' = op /\ target' = target /\ joining' = joining /\ before' = before
        /\ file' \in {file, [file EXCEPT !["symlink"] = target]} /\ mode' = mode
    BY <1>5 DEF EnsureKubectlSymlink, Write, Goto
  <2>2. \A f \in Run : file'[f] = file[f]
    BY <1>0, <2>1 DEF FileTypes, File, Run
  <2>3. op = "join"
    BY <1>0, <2>1
  <2>4. JoinForward' /\ JoinBack'
    BY <1>0, <2>1, <2>2, <2>3 DEF Pre, Host, Joining, JoinForward, JoinBack, Undoing, Started, agent, Run
  <2>5. Joining'
    BY <1>0, <2>1, <2>3, <2>4 DEF Pre, Host, Joining, record, past
  <2> QED BY <2>1, <2>3, <2>5 DEF Host
<1> QED BY <1>1, <1>2, <1>3, <1>4, <1>5

\* K3s is started from the files of the target.
LEMMA StartHost == Pre /\ Start => Host'
<1> SUFFICES ASSUME Pre, Start PROVE Host'
  OBVIOUS
<1>0. /\ Types /\ op \in {"join", "upgrade"} /\ pc = "start" /\ UNCHANGED <<disk, record, past, images>>
      /\ process = Off /\ Is(target)
  <2>1. op \in {"join", "upgrade"} /\ pc = "start" /\ UNCHANGED <<disk, record, past, images>>
    BY DEF Pre, Types, OperationTypes, Start, EnableAndStart
  <2> QED BY <2>1 DEF Pre, Host, Joining, JoinForward, Upgrading, UpgradeForward, Stopped, Is, Run, Started
<1>1. CASE Fail
  <2>1. enabled => enabled'
    BY DEF Start, EnableAndStart
  <2> QED BY <1>0, <1>1, <2>1, JoinFails, UpgradeFails DEF Pre, Host, Upgrading, disk, record, past
<1>2. CASE ~Fail
  <2>1. /\ loaded' = file["unit"] /\ enabled' = TRUE /\ process' = Starting
        /\ pc' \in {"gpu", "ready"} /\ op' = op /\ target' = target /\ joining' = joining /\ before' = before
    BY <1>0, <1>2 DEF Start, EnableAndStart, Up, Goto
  <2>2. loaded' = target /\ process' = [f \in Run |-> target]
    BY <1>0, <2>1, Values DEF Is, Starting
  <2>3. CASE op = "join"
    <3>1. JoinForward' /\ JoinBack'
      BY <1>0, <2>1, <2>2, <2>3 DEF Pre, Host, Joining, JoinForward, JoinBack, Undoing, Started, disk
    <3>2. Joining'
      BY <1>0, <2>1, <2>3, <3>1 DEF Pre, Host, Joining, disk, record, past
    <3> QED BY <2>1, <2>3, <3>2 DEF Host
  <2>4. CASE op = "upgrade"
    <3>1. UpgradeForward' /\ UpgradeBack'
      BY <1>0, <2>1, <2>2, <2>4 DEF Pre, Host, Upgrading, UpgradeForward, UpgradeBack, Stopped, Started, Back, disk
    <3>2. Upgrading'
      BY <1>0, <2>1, <2>4, <3>1 DEF Pre, Host, Upgrading, disk, record
    <3> QED BY <2>1, <2>4, <3>2 DEF Host
  <2> QED BY <1>0, <2>3, <2>4
<1> QED BY <1>1, <1>2

\* What runs from the files of the target, and whose unit is loaded, may be
\* started again.
LEMMA StartedHost == Pre /\ (ConfigureGpu \/ WaitReady \/ PreloadAll) => Host'
<1> SUFFICES ASSUME Pre, ConfigureGpu \/ WaitReady \/ PreloadAll PROVE Host'
  OBVIOUS
<1>0. /\ Types /\ op \in {"join", "upgrade"} /\ pc \in {"gpu", "ready", "preload"}
      /\ UNCHANGED <<disk, record, past, loaded, enabled>> /\ images \subseteq images'
      /\ process = [f \in Run |-> target] /\ Is(target)
  <2>1. op \in {"join", "upgrade"} /\ pc \in {"gpu", "ready", "preload"}
    BY DEF Pre, Types, OperationTypes, ConfigureGpu, WaitReady, PreloadAll
  <2>2. UNCHANGED <<disk, record, past, loaded, enabled>> /\ images \subseteq images'
    BY DEF ConfigureGpu, WaitReady, PreloadAll, agent
  <2> QED BY <2>1, <2>2 DEF Pre, Host, Joining, JoinForward, Upgrading, UpgradeForward, Is, Run, Started
<1>1. CASE Fail
  BY <1>0, <1>1, JoinFails, UpgradeFails DEF Pre, Host, Upgrading, disk, record, past
<1>2. CASE ~Fail
  <2>1. /\ pc' \in {"ready", "preload", "save"} /\ (pc' = "save" => target \in images')
        /\ op' = op /\ target' = target /\ joining' = joining /\ before' = before
        /\ process' \in {process, Starting}
    BY <1>2 DEF ConfigureGpu, WaitReady, PreloadAll, Goto, agent
  <2>2. process' = [f \in Run |-> target]
    BY <1>0, <2>1 DEF Is, Starting
  <2>3. CASE op = "join"
    <3>1. JoinForward' /\ JoinBack'
      BY <1>0, <2>1, <2>2, <2>3 DEF Pre, Host, Joining, JoinForward, JoinBack, Undoing, Started, disk
    <3>2. Joining'
      BY <1>0, <2>1, <2>3, <3>1 DEF Pre, Host, Joining, disk, record, past
    <3> QED BY <2>1, <2>3, <3>2 DEF Host
  <2>4. CASE op = "upgrade"
    <3>1. UpgradeForward' /\ UpgradeBack'
      BY <1>0, <2>1, <2>2, <2>4 DEF Pre, Host, Upgrading, UpgradeForward, UpgradeBack, Stopped, Started, Back, disk
    <3>2. Upgrading'
      BY <1>0, <2>1, <2>4, <3>1 DEF Pre, Host, Upgrading, disk, record
    <3> QED BY <2>1, <2>4, <3>2 DEF Host
  <2> QED BY <1>0, <2>3, <2>4
<1> QED BY <1>1, <1>2

\* A receipt is of what runs.
LEMMA Saving == Pre /\ SaveReceipt =>
    /\ op \in {"join", "upgrade"} /\ target \in Release /\ UNCHANGED <<disk, agent, past>>
    /\ Is(target) /\ loaded = target /\ enabled /\ target \in images
    /\ process = [f \in Run |-> target]
    /\ token # {} /\ ("agent" \notin token => op = "join" /\ mode = joining /\ joining = "server")
<1> SUFFICES ASSUME Pre, SaveReceipt
             PROVE  /\ op \in {"join", "upgrade"} /\ target \in Release /\ UNCHANGED <<disk, agent, past>>
                    /\ Is(target) /\ loaded = target /\ enabled /\ target \in images
                    /\ process = [f \in Run |-> target]
                    /\ token # {} /\ ("agent" \notin token => op = "join" /\ mode = joining /\ joining = "server")
  OBVIOUS
<1>1. /\ pc = "save" /\ op \in {"join", "upgrade"} /\ target \in Release /\ joining \in Role
      /\ UNCHANGED <<disk, agent, past>>
  BY DEF Pre, Types, OperationTypes, Running, SaveReceipt
<1>2. CASE op = "join"
  BY <1>1, <1>2 DEF Pre, Host, Joining, JoinForward, Started, Is, Run, Undoing, Role
<1>3. CASE op = "upgrade"
  BY <1>1, <1>3 DEF Pre, Host, Upgrading, UpgradeForward, Started, Is, Run
<1> QED BY <1>1, <1>2, <1>3

LEMMA SaveHost == Pre /\ SaveReceipt => Host'
<1> SUFFICES ASSUME Pre, SaveReceipt PROVE Host'
  OBVIOUS
<1>1. CASE UNCHANGED record /\ Fail
  BY <1>1, Saving, JoinFails, UpgradeFails DEF SaveReceipt, Pre, Host, Upgrading, disk, agent, record, past
<1>2. CASE receipt' = target /\ role' = (IF op = "join" THEN joining ELSE role) /\ Return
  <2>1. receipt' = target /\ role' = (IF op = "join" THEN joining ELSE role) /\ pc' = "idle" /\ op' = "none"
    BY <1>2 DEF Return
  <2>2. process' # Off
    <3>1. process'["unit"] = target
      BY Saving, Values DEF agent
    <3> QED BY <3>1, Saving, Values DEF Off
  <2>3. Served'
    BY <2>1, <2>2, Saving DEF Served, Is, disk, agent
  <2> QED BY <2>1, <2>3, Saving, Values DEF Host
<1> QED BY <1>1, <1>2 DEF SaveReceipt

\* The rollback of a join.
LEMMA UndoneHost ==
    ASSUME Pre, pc \in Undoing, UNCHANGED receipt, joining' = joining \/ Return,
           TokenClean', \A f \in File : file'[f] \in {file[f], Absent},
           process' \in {process, Off}, loaded' \in {loaded, file["unit"]}, network' \in {network, FALSE},
           \/ pc' = "undo stop"
           \/ pc' = "undo config" /\ process' = Off
           \/ pc = "undo config" /\ pc' = "undo unit" /\ file'["config"] = Absent
           \/ pc = "undo unit" /\ pc' = "undo binary" /\ file'["unit"] = Absent
           \/ pc = "undo binary" /\ pc' = "undo symlink" /\ file'["binary"] = Absent
           \/ pc = "undo symlink" /\ pc' = "undo reload" /\ file'["symlink"] = Absent
           \/ pc = "undo reload" /\ pc' = "undo network" /\ loaded' = file["unit"]
           \/ pc = "undo network" /\ pc' = "undo data" /\ ~network'
           \/ pc = "undo data" /\ pc' = "idle" /\ ~data',
           IF pc' = "idle" THEN op' = "none" ELSE op' = op
    PROVE  Host'
<1>0. op = "join" /\ Joining /\ receipt' = Absent
  BY DEF Pre, Host, Running, Joining
<1>1. CASE pc' = "idle"
  <2>1. JoinBack /\ pc = "undo data"
    BY <1>0, <1>1 DEF Joining, Undoing
  <2>2. FilesClean /\ loaded = Absent /\ process = Off /\ ~network
    BY <2>1 DEF JoinBack, Undoing, FilesClean, File, Run
  <2>3. FilesClean' /\ loaded' = Absent /\ process' = Off /\ ~network'
    <3>1. file["unit"] = Absent
      BY <2>2, Values DEF FilesClean
    <3>2. FilesClean'
      BY <2>2 DEF FilesClean
    <3>3. ~network'
      BY <2>2
    <3> QED BY <2>2, <3>1, <3>2, <3>3
  <2>4. Clean'
    BY <1>1, <2>1, <2>3 DEF Clean
  <2> QED BY <1>0, <1>1, <2>4 DEF Host
<1>2. CASE pc' # "idle"
  <2>1. op' = "join" /\ joining' = joining /\ pc' \in Undoing \ {"undo token"}
    BY <1>0, <1>2 DEF Undoing, Return
  <2>2. JoinBack
    BY <1>0 DEF Joining
  <2>3. JoinBack'
    BY <1>2, <2>1, <2>2, Values DEF JoinBack, Undoing
  <2>4. JoinForward'
    BY <2>1 DEF JoinForward, Undoing, Started
  <2>5. token' \subseteq {"agent", joining'} /\ ("agent" \in token' => "token" \in relict')
    BY DEF TokenClean
  <2>6. Joining'
    BY <1>0, <2>1, <2>3, <2>4, <2>5 DEF Joining
  <2> QED BY <2>1, <2>6 DEF Host, Undoing
<1> QED BY <1>1, <1>2

LEMMA UndoHost == Pre /\ Join /\ pc \in Undoing /\ ~excused' => Host'
<1> SUFFICES ASSUME Pre, Join, pc \in Undoing, ~excused' PROVE Host'
  OBVIOUS
<1>0. FileTypes /\ op = "join" /\ Joining
  BY DEF Pre, Types, Host, Running
<1>t. pc \in Undoing \ {"undo token"} => TokenClean
  BY <1>0 DEF Joining, JoinBack
<1>1. CASE UndoToken
  <2>1. /\ pc' = "undo stop" /\ op' = op /\ joining' = joining /\ UNCHANGED <<file, agent, receipt>>
        /\ token' = token \ {joining}
        /\ relict' = IF joining = "agent" THEN relict \ {"token"} ELSE relict
    BY <1>1 DEF UndoToken, Undo, Goto, record
  <2>2. TokenClean'
    <3>1. CASE joining = "agent"
      BY <1>0, <2>1, <3>1 DEF Joining, TokenClean
    <3>2. CASE joining = "server"
      <4>1. token' \subseteq {"agent"} /\ ("agent" \in token' => "token" \in relict')
        BY <1>0, <2>1, <3>2 DEF Joining
      <4> QED BY <4>1 DEF TokenClean
    <3> QED BY <1>0, <3>1, <3>2 DEF Pre, Running, Types, OperationTypes, Role
  <2> QED BY <2>1, <2>2, UndoneHost DEF agent
<1>2. CASE UndoStop
  <2>1. pc = "undo stop" /\ pc' = "undo config" /\ op' = op /\ joining' = joining /\ process' = Off
        /\ UNCHANGED <<file, token, loaded, network, relict, receipt>>
    BY <1>2 DEF UndoStop, Undo, Goto, disk, record
  <2>2. TokenClean'
    BY <1>t, <2>1 DEF TokenClean, Undoing
  <2> QED BY <2>1, <2>2, UndoneHost
<1>3. ASSUME NEW f \in File, NEW from \in Undoing \ {"undo token"}, NEW next \in Undoing, UndoFile(f, from, next),
             \/ f = "config" /\ from = "undo config" /\ next = "undo unit"
             \/ f = "unit" /\ from = "undo unit" /\ next = "undo binary"
             \/ f = "binary" /\ from = "undo binary" /\ next = "undo symlink"
             \/ f = "symlink" /\ from = "undo symlink" /\ next = "undo reload"
      PROVE  Host'
  <2>1. pc = from /\ pc' = next /\ op' = op /\ joining' = joining /\ file' = [file EXCEPT ![f] = Absent]
        /\ UNCHANGED <<token, loaded, process, network, relict, receipt>>
    BY <1>3 DEF UndoFile, Undo, Goto, agent, record, Undoing
  <2>2. file'[f] = Absent /\ \A g \in File : file'[g] \in {file[g], Absent}
    BY <1>0, <2>1 DEF FileTypes
  <2>3. TokenClean'
    BY <1>3, <1>t, <2>1 DEF TokenClean
  <2> QED BY <1>3, <2>1, <2>2, <2>3, UndoneHost DEF Undoing
<1>4. CASE UndoReload
  <2>1. pc = "undo reload" /\ pc' = "undo network" /\ op' = op /\ joining' = joining /\ loaded' = file["unit"]
        /\ UNCHANGED <<file, token, process, network, relict, receipt>>
    BY <1>4 DEF UndoReload, Undo, Goto, disk, record
  <2>2. TokenClean'
    BY <1>t, <2>1 DEF TokenClean, Undoing
  <2> QED BY <2>1, <2>2, UndoneHost
<1>5. CASE UndoNetwork
  <2>1. pc = "undo network" /\ pc' = "undo data" /\ op' = op /\ joining' = joining /\ network' = FALSE
        /\ UNCHANGED <<file, token, process, loaded, relict, receipt>>
    BY <1>5 DEF UndoNetwork, Undo, Goto, disk, record
  <2>2. TokenClean'
    BY <1>t, <2>1 DEF TokenClean, Undoing
  <2> QED BY <2>1, <2>2, UndoneHost
<1>6. CASE UndoData
  <2>1. pc = "undo data" /\ pc' = "idle" /\ op' = "none" /\ Return /\ ~data'
        /\ UNCHANGED <<file, token, process, loaded, network, relict, receipt>>
    BY <1>6 DEF UndoData, Undo, Return, disk, record
  <2>2. TokenClean'
    BY <1>t, <2>1 DEF TokenClean, Undoing
  <2> QED BY <2>1, <2>2, UndoneHost
<1>7. ~WipeData /\ ~WriteJoinToken /\ ~EnsureKubectlSymlink
  BY DEF WipeData, WriteJoinToken, EnsureKubectlSymlink, Undoing
<1> QED BY <1>1, <1>2, <1>3, <1>4, <1>5, <1>6, <1>7, Values DEF Join, Undoing, File

\* The steps of an upgrade.
LEMMA StopHost == Pre /\ StopAgent /\ ~excused' => Host'
<1> SUFFICES ASSUME Pre, StopAgent, ~excused' PROVE Host'
  OBVIOUS
<1>0. pc = "stop" /\ op = "upgrade" /\ Upgrading /\ Served /\ UNCHANGED <<disk, loaded, enabled, images, record>>
  BY DEF Pre, Host, Running, StopAgent, Upgrading, UpgradeForward
<1>1. CASE process' = Off /\ Goto("binary")
  <2>1. pc' = "binary" /\ op' = "upgrade" /\ before' = before
    BY <1>0, <1>1 DEF Goto
  <2>2. UpgradeForward' /\ UpgradeBack'
    BY <1>0, <1>1, <2>1 DEF UpgradeForward, UpgradeBack, Stopped, Started, Back, Served, Is, disk, record
  <2>3. Upgrading'
    BY <1>0, <2>1, <2>2 DEF Upgrading, disk, record
  <2> QED BY <2>1, <2>3 DEF Host
<1>2. CASE process' = process /\ Return
  <2>1. pc' = "idle" /\ op' = "none" /\ receipt' = receipt
    BY <1>0, <1>2 DEF Return, record
  <2>2. Served'
    BY <1>0, <1>2 DEF Served, Is, disk, record
  <2> QED BY <1>0, <2>1, <2>2 DEF Host, Upgrading
<1> QED BY <1>1, <1>2 DEF StopAgent, Down

LEMMA ReloadHost == Pre /\ DaemonReload => Host'
<1> SUFFICES ASSUME Pre, DaemonReload PROVE Host'
  OBVIOUS
<1>0. pc = "reload" /\ op = "upgrade" /\ Upgrading /\ UNCHANGED <<disk, enabled, process, images, record>>
  BY DEF Pre, Host, Running, DaemonReload, Reload
<1>1. CASE Fail
  BY <1>0, <1>1, UpgradeFails DEF Upgrading, disk, record
<1>2. CASE loaded' = file["unit"] /\ Goto("start")
  <2>1. pc' = "start" /\ op' = "upgrade" /\ before' = before /\ target' = target
    BY <1>0, <1>2 DEF Goto
  <2>2. UpgradeForward' /\ UpgradeBack'
    BY <1>0, <1>2, <2>1 DEF Upgrading, UpgradeForward, UpgradeBack, Stopped, Started, Back, disk
  <2>3. Upgrading'
    BY <1>0, <2>1, <2>2 DEF Upgrading, disk, record
  <2> QED BY <2>1, <2>3 DEF Host
<1> QED BY <1>1, <1>2 DEF DaemonReload, Reload

\* The deferred function, as long as it meets no error.
LEMMA RestoreHost ==
    Pre /\ (RestoreUnit \/ RestoreConfig \/ RestoreBinary \/ RestoreUnits \/ RestoreAgent) /\ ~excused' => Host'
<1> SUFFICES ASSUME Pre, RestoreUnit \/ RestoreConfig \/ RestoreBinary \/ RestoreUnits \/ RestoreAgent, ~excused'
             PROVE  Host'
  OBVIOUS
<1>0. FileTypes /\ op = "upgrade" /\ Upgrading /\ UpgradeBack /\ pc \in Back /\ \A f \in Run : before.file[f] = receipt
  <2>1. pc \in Back
    BY DEF RestoreUnit, RestoreConfig, RestoreBinary, RestoreFile, RestoreUnits, Reload, RestoreAgent, Back
  <2> QED BY <2>1 DEF Pre, Types, Host, Running, Upgrading
<1>1. ASSUME NEW f \in Run, NEW from \in Back, NEW next \in Back, RestoreFile(f, from, next),
             \/ f = "unit" /\ from = "back unit" /\ next = "back config"
             \/ f = "config" /\ from = "back config" /\ next = "back binary"
             \/ f = "binary" /\ from = "back binary" /\ next = "back reload"
      PROVE  Host'
  <2>1. /\ pc = from /\ pc' = next /\ op' = op /\ before' = before
        /\ file' = [file EXCEPT ![f] = before.file[f]] /\ UNCHANGED <<token, agent, record>>
    BY <1>1 DEF RestoreFile, Joined, Goto
  <2>2. file'[f] = receipt /\ \A g \in Run \ {f} : file'[g] = file[g]
    BY <1>0, <2>1, Values DEF FileTypes
  <2>3. UpgradeBack'
    BY <1>0, <1>1, <2>1, <2>2 DEF UpgradeBack, Back, Run, record
  <2>4. UpgradeForward'
    BY <1>1, <2>1 DEF UpgradeForward, Back, Stopped, Started
  <2>5. Upgrading'
    BY <1>0, <2>1, <2>3, <2>4 DEF Upgrading, agent, record
  <2> QED BY <1>0, <1>1, <2>1, <2>5 DEF Host, Back
<1>2. CASE RestoreUnits
  <2>1. /\ pc = "back reload" /\ pc' = "back start" /\ op' = op /\ before' = before /\ loaded' = file["unit"]
        /\ UNCHANGED <<disk, enabled, images, record>>
    BY <1>2 DEF RestoreUnits, Reload, Joined, Goto
  <2>2. UpgradeForward' /\ UpgradeBack'
    BY <1>0, <2>1 DEF UpgradeForward, UpgradeBack, Back, Stopped, Started, disk, record
  <2>3. Upgrading'
    BY <1>0, <2>1, <2>2 DEF Upgrading, disk, record
  <2> QED BY <1>0, <2>1, <2>3 DEF Host
<1>3. CASE RestoreAgent
  <2>1. /\ pc = "back start" /\ pc' = "idle" /\ op' = "none" /\ loaded' = file["unit"] /\ enabled' = TRUE
        /\ process' = IF process = Off THEN Starting ELSE process
        /\ UNCHANGED <<disk, images, record>>
    BY <1>3 DEF RestoreAgent, EnableAndStart, Up, Joined, Return
  <2>2. Is(receipt) /\ receipt # Absent
    BY <1>0, <2>1 DEF UpgradeBack, Back, Is, Run, Upgrading
  <2>3. process' # Off
    <3>1. Starting["unit"] = receipt /\ Off["unit"] = Absent
      BY <2>2, Values DEF Is, Starting, Off
    <3> QED BY <2>1, <2>2, <3>1
  <2>4. Served'
    BY <1>0, <2>1, <2>2, <2>3, Values DEF Served, Is, Upgrading, disk, record
  <2> QED BY <2>1, <2>2, <2>4 DEF Host, record
<1> QED BY <1>1, <1>2, <1>3, Values DEF RestoreUnit, RestoreConfig, RestoreBinary, Back

\* What comes from outside.
LEMMA SystemdHost == Pre /\ SystemdRestart => Host'
<1> SUFFICES ASSUME Pre, SystemdRestart PROVE Host'
  OBVIOUS
<1>0. /\ Types /\ process # Off /\ process' = [Starting EXCEPT !["unit"] = loaded]
      /\ file["binary"] # Absent /\ file["config"] # Absent /\ loaded # Absent
      /\ UNCHANGED <<disk, loaded, enabled, data, network, images, record, operation, past>>
  BY DEF Pre, SystemdRestart
<1>1. process' # Off
  <2>1. process'["unit"] = loaded
    BY <1>0, Values DEF Starting
  <2> QED BY <1>0, <2>1, Values DEF Off
<1>2. Is(target) /\ loaded = target => process' = [f \in Run |-> target]
  BY <1>0 DEF Starting, Is
<1>3. CASE pc = "idle"
  <2>1. op = "none" /\ receipt # Absent /\ Served
    BY <1>0, <1>3 DEF Pre, Host, Types, OperationTypes, Clean
  <2>2. Served'
    BY <1>0, <1>1, <2>1 DEF Served, Is, disk, record
  <2> QED BY <1>0, <1>3, <2>1, <2>2 DEF Host, operation, record
<1>4. CASE op = "join"
  <2>1. pc \notin {"wipe", "token", "config", "unit", "binary", "symlink", "start"}
    BY <1>0, <1>4 DEF Pre, Host, Joining, JoinForward, Clean
  <2>2. JoinForward'
    BY <1>0, <1>2, <1>4, <2>1 DEF Pre, Host, Joining, JoinForward, Started, Undoing, Is, Run, operation, disk
  <2>3. JoinBack'
    BY <1>0, <1>4 DEF Pre, Host, Joining, JoinBack, TokenClean, Undoing, operation, disk, past
  <2>4. Joining'
    BY <1>0, <1>4, <2>2, <2>3 DEF Pre, Host, Joining, operation, disk, record, past
  <2> QED BY <1>0, <1>4, <2>4 DEF Pre, Types, OperationTypes, Host, operation
<1>5. CASE op = "upgrade"
  <2>1. pc \notin Stopped
    BY <1>0, <1>5 DEF Pre, Host, Upgrading, UpgradeForward
  <2>2. UpgradeForward'
    <3>1. pc = "stop" => Served'
      BY <1>0, <1>1, <1>5 DEF Pre, Host, Upgrading, UpgradeForward, Served, Is, disk, record
    <3> QED BY <1>0, <1>2, <1>5, <2>1, <3>1 DEF Pre, Host, Upgrading, UpgradeForward, Stopped, Started, Is, Run, operation, disk
  <2>3. UpgradeBack'
    BY <1>0, <1>5 DEF Pre, Host, Upgrading, UpgradeBack, Back, operation, disk, record
  <2>4. Upgrading'
    BY <1>0, <1>5, <2>2, <2>3 DEF Pre, Host, Upgrading, operation, disk, record
  <2> QED BY <1>0, <1>5, <2>4 DEF Pre, Types, OperationTypes, Host, operation
<1> QED BY <1>3, <1>4, <1>5 DEF Pre, Types, OperationTypes

LEMMA RebootHost == Pre /\ Reboot /\ ~excused' => Host'
<1> SUFFICES ASSUME Pre, Reboot, ~excused' PROVE Host'
  OBVIOUS
<1>0. /\ Types /\ pc = "idle" /\ pc' = "idle" /\ op' = "none" /\ loaded' = file["unit"]
      /\ process' = IF enabled /\ \A f \in Run : file[f] # Absent THEN Starting ELSE Off
      /\ UNCHANGED <<disk, enabled, images, record, relict>>
  BY DEF Pre, Reboot, Return
<1>1. CASE receipt = Absent
  <2>1. Clean /\ file["unit"] = Absent /\ process' = Off
    BY <1>0, <1>1, Values DEF Pre, Host, Clean, FilesClean
  <2>2. data' = data /\ network' = network
    BY <2>1, <1>0 DEF Reboot, Types, AgentTypes
  <2>3. Clean'
    BY <1>0, <2>1, <2>2 DEF Clean, FilesClean, TokenClean, disk
  <2> QED BY <1>0, <1>1, <2>3 DEF Host, record
<1>2. CASE receipt # Absent
  <2>1. Served
    BY <1>0, <1>2 DEF Pre, Host
  <2>2. process' = Starting /\ Starting["unit"] = receipt
    BY <1>0, <1>2, <2>1, Values DEF Served, Is, Starting
  <2>3. process' # Off
    BY <1>2, <2>2, Values DEF Off
  <2>4. Served'
    BY <1>0, <2>1, <2>3, Values DEF Served, Is, disk, record
  <2> QED BY <1>0, <1>2, <2>4 DEF Host, record
<1> QED BY <1>1, <1>2

LEMMA RepairHost == Pre /\ Repair => Host'
<1> SUFFICES ASSUME Pre, Repair PROVE Host'
  OBVIOUS
<1>0. pc = "idle" /\ UNCHANGED <<disk, loaded, enabled, images, record, operation, relict>>
  BY DEF Repair
<1>1. UNCHANGED <<process, data, network>>
  BY <1>0 DEF Pre, Host, Clean, Served, Repair
<1>2. Clean => Clean'
  BY <1>0, <1>1 DEF Clean, FilesClean, TokenClean, disk
<1>3. Served => Served'
  BY <1>0, <1>1 DEF Served, Is, disk, record
<1> QED BY <1>0, <1>2, <1>3 DEF Pre, Host, Types, OperationTypes, operation, record

LEMMA RemoveHost == Types /\ (Uninstall \/ FactoryReset) /\ ~excused' => Host'
<1> SUFFICES ASSUME Types, Uninstall \/ FactoryReset, ~excused' PROVE Host'
  OBVIOUS
<1>1. /\ pc = "idle" /\ UNCHANGED operation /\ receipt' = Absent /\ process' = Off
      /\ file' = [f \in File |-> Absent] /\ token' = token \ {"server"} /\ loaded' = Absent /\ ~network'
  BY DEF Uninstall, FactoryReset, RemoveK3s
<1>2. /\ data' => "data" \in relict'
      /\ "agent" \in token => "token" \in relict'
  BY DEF Uninstall, FactoryReset
<1>3. TokenClean'
  <2>1. token' \subseteq {"agent"}
    BY <1>1 DEF Types, FileTypes, Role
  <2> QED BY <1>1, <1>2, <2>1 DEF TokenClean
<1>4. Clean'
  BY <1>1, <1>2, <1>3 DEF Clean, FilesClean
<1> QED BY <1>1, <1>4 DEF Host, Types, OperationTypes, operation

LEMMA CrashExcused == Crash => excused'
BY DEF Crash

LEMMA NextHost == WorkerInv /\ Next /\ ~excused' => Host'
<1> SUFFICES ASSUME WorkerInv, Next, ~excused' PROVE Host'
  OBVIOUS
<1>0. Types
  BY TypeParts DEF WorkerInv
<1>1. CASE Uninstall \/ FactoryReset
  BY <1>0, <1>1, RemoveHost
<1>2. CASE ~(Uninstall \/ FactoryReset)
  <2>1. Pre
    BY <1>0, <1>2, Excuses DEF WorkerInv, Pre
  <2>2. CASE Join
    <3>1. CASE pc \in Undoing
      BY <2>1, <2>2, <3>1, UndoHost
    <3>2. CASE pc \notin Undoing
      <4>1. ~(UndoToken \/ UndoStop \/ UndoReload \/ UndoNetwork \/ UndoData)
        BY <3>2 DEF UndoToken, UndoStop, UndoReload, UndoNetwork, UndoData, Undo, Undoing
      <4>2. ASSUME NEW f, NEW from \in Undoing, NEW next PROVE ~UndoFile(f, from, next)
        BY <3>2 DEF UndoFile, Undo
      <4>3. WipeData \/ WriteJoinToken \/ EnsureKubectlSymlink
        BY <2>2, <4>1, <4>2 DEF Join, Undoing
      <4> QED BY <2>1, <4>3, WipeHost, TokenHost, FileHost
    <3> QED BY <3>1, <3>2
  <2>3. CASE Upgrade
    BY <2>1, <2>3, StopHost, ReloadHost, RestoreHost DEF Upgrade
  <2> QED BY <1>2, <2>1, <2>2, <2>3, BeginJoinHost, BeginUpgradeHost, FileHost, StartHost, StartedHost, SaveHost,
             SystemdHost, RebootHost, RepairHost, CrashExcused DEF Next, Step
<1> QED BY <1>1, <1>2

-----------------------------------------------------------------------------

LEMMA InitInv == Init => WorkerInv
<1> SUFFICES ASSUME Init PROVE WorkerInv
  OBVIOUS
<1> USE Values DEF Init
<1>1. Types
  BY DEF Types, FileTypes, AgentTypes, PastTypes, OperationTypes, Label, Nothing
<1>2. Running
  BY DEF Running, Nothing, Off, Undoing, Back
<1>3. Host
  BY DEF Host, Clean, FilesClean, TokenClean
<1> QED BY <1>1, <1>2, <1>3, TypeParts DEF WorkerInv

LEMMA NextInv == WorkerInv /\ Next => WorkerInv'
<1> SUFFICES ASSUME WorkerInv, Next PROVE WorkerInv'
  OBVIOUS
<1>1. Types' /\ Running'
  BY TypeParts, NextTypes DEF WorkerInv
<1> QED BY <1>1, TypesNext, NextHost DEF WorkerInv

LEMMA StutterInv == WorkerInv /\ UNCHANGED vars => WorkerInv'
<1> SUFFICES ASSUME WorkerInv, UNCHANGED vars PROVE WorkerInv'
  OBVIOUS
<1> USE DEF vars, disk, agent, record, operation, past
<1>1. TypeOK' /\ Running'
  BY DEF WorkerInv, TypeOK, Running
<1>2. Clean' <=> Clean
  BY DEF Clean, FilesClean, TokenClean
<1>3. Served' <=> Served
  BY DEF Served, Is
<1>4. Joining' <=> Joining
  <2>1. JoinForward' <=> JoinForward
    BY <1>2 DEF JoinForward
  <2>2. JoinBack' <=> JoinBack
    BY DEF JoinBack, TokenClean
  <2> QED BY <2>1, <2>2 DEF Joining
<1>5. Upgrading' <=> Upgrading
  <2>1. UpgradeForward' <=> UpgradeForward
    BY <1>3 DEF UpgradeForward, Is
  <2>2. UpgradeBack' <=> UpgradeBack
    BY DEF UpgradeBack
  <2> QED BY <2>1, <2>2 DEF Upgrading
<1>6. Host' <=> Host
  BY <1>2, <1>3, <1>4, <1>5 DEF Host
<1> QED BY <1>1, <1>6 DEF WorkerInv

LEMMA Inductive == Spec => []WorkerInv
<1>1. WorkerInv /\ [Next]_vars => WorkerInv'
  BY NextInv, StutterInv
<1> QED BY InitInv, <1>1, PTL DEF Spec

-----------------------------------------------------------------------------

\* The state keeps its types.
THEOREM TypeCorrect == Spec => []TypeOK
<1>1. WorkerInv => TypeOK
  BY DEF WorkerInv
<1> QED BY Inductive, <1>1, PTL

\* A join that fails leaves the host as it found it.
THEOREM FailedJoinTheorem == Spec => []FailedJoinLeavesNothing
<1>1. WorkerInv => FailedJoinLeavesNothing
  BY DEF WorkerInv, Host, Clean, FilesClean, TokenClean, FailedJoinLeavesNothing
<1> QED BY Inductive, <1>1, PTL

\* The receipt of a member tells what is on its host.
THEOREM ReceiptTheorem == Spec => []ReceiptMatchesHost
<1>1. WorkerInv => ReceiptMatchesHost
  BY DEF WorkerInv, Host, Served, Is, Starting, ReceiptMatchesHost
<1> QED BY Inductive, <1>1, PTL

\* A receipt is written only when K3s runs from the files of its release, with
\* its images there.
THEOREM ServedTheorem == Spec => ReceiptIsServed
<1>1. WorkerInv /\ [Next]_vars =>
        [receipt' \notin {receipt, Absent} /\ ~excused =>
            process' = [f \in Run |-> receipt'] /\ receipt' \in images']_vars
  <2> SUFFICES ASSUME WorkerInv, Next, receipt' \notin {receipt, Absent}, ~excused
               PROVE  process' = [f \in Run |-> receipt'] /\ receipt' \in images'
    OBVIOUS
  <2>1. SaveReceipt
    <3>1. ~(BeginJoin \/ BeginUpgrade \/ SystemdRestart \/ Crash \/ Reboot \/ Repair)
      BY DEF BeginJoin, BeginUpgrade, SystemdRestart, Crash, Reboot, Repair, record
    <3>2. ~(Uninstall \/ FactoryReset)
      BY DEF Uninstall, FactoryReset, RemoveK3s
    <3>3. ~Join
      BY DEF Join, WipeData, WriteJoinToken, EnsureKubectlSymlink, UndoToken, UndoStop, UndoFile, UndoReload,
         UndoNetwork, UndoData, Undo, record
    <3>4. ~Upgrade
      BY DEF Upgrade, StopAgent, DaemonReload, Reload, RestoreUnit, RestoreConfig, RestoreBinary, RestoreFile,
         RestoreUnits, RestoreAgent, record
    <3>5. ~(WriteConfig \/ WriteUnit \/ InstallBinary \/ Start \/ ConfigureGpu \/ WaitReady \/ PreloadAll)
      BY DEF WriteConfig, WriteUnit, InstallBinary, Start, ConfigureGpu, WaitReady, PreloadAll, record
    <3> QED BY <3>1, <3>2, <3>3, <3>4, <3>5 DEF Next, Step
  <2>2. Pre
    BY TypeParts DEF WorkerInv, Pre
  <2>3. receipt' = target
    BY <2>1 DEF SaveReceipt, record
  <2> QED BY <2>1, <2>2, <2>3, Saving DEF agent
<1> QED BY Inductive, <1>1, PTL DEF Spec, ReceiptIsServed
=============================================================================
