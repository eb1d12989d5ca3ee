------------------------- MODULE HostServicesProofs -------------------------
(***************************************************************************)
(* Theorems about the host services, for any number of operations and of   *)
(* reboots.                                                                *)
(*                                                                         *)
(* The argument has five threads, each a part of the invariant HostInv.    *)
(* Ground: an operation behind the drop-in of resolved has port 53         *)
(* prepared, and a receipt with LAN DNS keeps it because only an operation *)
(* that found none registers its restore.  Silence: without lan-discovery  *)
(* mDNS is masked, which neither dpkg, nor a reboot, nor the socket passes *)
(* by; an upgrade that takes the mask away has already registered the      *)
(* rollback that puts it back.  Remembered: what the rollback of the       *)
(* packages goes by was noted before dpkg ran, and once it has run without *)
(* an error nothing else touches mDNS.  Left: an uninstall stops K3s, then *)
(* kills what listens, so that the stub finds its port free.  Quiet: where *)
(* the stub does not hold the port the stock dnsmasq is masked already, so *)
(* that it never runs.  Control says which part of which operation may run *)
(* over which receipt.                                                     *)
(*                                                                         *)
(* The paths of the operations are sequences, and most of the first half   *)
(* derives from them what comes behind what (GoesOnWith).  Then follows    *)
(* one lemma for each part of the invariant, with a step for each action.  *)
(***************************************************************************)
EXTENDS HostServices, SequenceTheorems, TLAPS

-----------------------------------------------------------------------------
(* The invariant.                                                          *)

Part == {"floor", "stock", "dropin", "link", "wait", "hosts", "preflight", "packages",
         "quiesce", "mdns", "k3s", "agent", "day2", "announce", "chart", "ready", "receipt"}

PartOf ==
    [install   |-> Part,
     upgrade   |-> Part \ {"preflight", "k3s", "day2"},
     uninstall |-> {"stop", "kill", "forget", "restore", "day2", "unagent"}]
DNSPart == {"floor", "stock", "dropin", "link", "wait", "hosts", "chart", "ready"}

\* An upgrade prepares DNS behind the packages, an install before them.
BehindMdns ==
    pc \in CASE op = "install" -> {"k3s", "agent", "day2", "announce", "chart", "ready",
                                   "receipt"}
             [] op = "upgrade" -> {"agent", "announce", "receipt"} \cup DNSPart
             [] op = "uninstall" -> {}
BehindQuiesce == pc = "mdns" \/ BehindMdns
BehindPackages == pc = "quiesce" \/ BehindQuiesce
BehindDropin ==
    \/ pc \in {"link", "wait", "hosts", "chart", "ready"}
    \/ /\ op = "install" /\ pc \in Part \ {"floor", "stock", "dropin"}
       /\ "dns" \in target
    \/ op = "upgrade" /\ pc = "receipt" /\ "dns" \in target

\* Which part of which operation runs over which receipt, and with what.
Control ==
    /\ pc \in {"idle"} \cup PartOf[op] \cup IF op = "uninstall" THEN {} ELSE {"rollback"}
    /\ pc \in DNSPart => "dns" \in target
    /\ pc # "idle" /\ op = "install" => receipt = {}
    /\ pc # "idle" /\ op = "upgrade" => receipt # {} /\ ("dns" \in receipt => "dns" \in target)
    /\ op = "uninstall" /\ pc \in {"restore", "day2", "unagent"} => receipt = {}
    /\ pc = "idle" \/ op = "uninstall" => armed = {} /\ before = Nothing
    /\ op = "upgrade" => "k3s" \notin armed
    /\ pc # "rollback" => ~errs

\* Port 53 is prepared: an operation behind the drop-in has it, and so has a
\* receipt with LAN DNS that no Prepare took it from; only an operation over
\* a receipt without LAN DNS registers its restore.
Laid == {"dropin", "sysctl"} \subseteq files /\ ~stub
Ground ==
    /\ pc \in {"stock", "dropin"} => "sysctl" \in files
    /\ BehindDropin => Laid
    /\ BehindQuiesce => "dnsmasq" \in masked
    /\ "dns" \in receipt => "dns" \notin armed
    /\ "dns" \in receipt /\ ~undone => Laid /\ "dnsmasq" \in masked

\* mDNS that is off is masked, and an upgrade that took the mask away has a
\* rollback registered that puts it back.
Silent == mdnsDaemonUnits \subseteq masked
Silence ==
    /\ BehindMdns /\ "lan" \notin target => Silent
    /\ receipt # {} /\ "lan" \notin receipt /\ intact /\ ~errs =>
          /\ "packages" \notin armed \/ "lan" \notin target => Silent
          /\ ~before.running

\* What an operation found before dpkg ran, and that its rollback puts back.
Remembered ==
    /\ BehindPackages => packages = Package
    /\ BehindMdns => "packages" \in armed
    /\ pc \notin {"idle", "rollback"} /\ ~BehindMdns => "packages" \notin armed
    /\ ~BehindPackages /\ pc # "rollback" => ~before.noted
    /\ (active \cup enabled) \cap mdnsDaemonUnits # {} => "avahi" \in packages
    /\ before.running => "avahi" \in before.packages
    /\ pc = "rollback" /\ ~errs /\ "lan" \in target /\ before.noted /\ "packages" \notin armed =>
          IF before.running THEN "avahi" \in active
          ELSE "avahi" \notin active /\ Silent

\* What an uninstall has done by then.
Given ==
    /\ files \cap {"dropin", "sysctl"} = {}
    /\ link = "stub" /\ stub
Left ==
    op = "uninstall" =>
        /\ pc \in {"kill", "forget", "restore"} => ~k3s
        /\ pc \in {"forget", "restore"} => coredns = "none"
        /\ pc \in {"day2", "unagent"} \/ (pc = "idle" /\ outcome = "succeeded") => Given

\* The stock dnsmasq never gets the port: while the stub has it no package starts
\* the daemon, and whoever takes the stub away has masked it before.
Quiet ==
    /\ "dnsmasq" \notin active
    /\ pc = "dropin" \/ ~stub \/ "dropin" \in files \/ coredns # "none" =>
          "dnsmasq" \in masked

HostInv == TypeOK /\ Control /\ Ground /\ Silence /\ Remembered /\ Left /\ Quiet

-----------------------------------------------------------------------------
(* The parts of the operations.                                            *)

\* The least element of a set of numbers is its Min.
LEMMA MinIs ==
    ASSUME NEW S \in SUBSET Int, NEW m \in S, \A x \in S : m <= x
    PROVE  Min(S) = m
<1>1. \A x \in S : (\A y \in S : x =< y) => x = m
  OBVIOUS
<1>2. Min(S) \in S /\ \A y \in S : Min(S) =< y
  BY DEF Min
<1> QED
  BY <1>1, <1>2

\* Prepare, part by part.
LEMMA PreparePath ==
    /\ Prepare \in Seq(Part) /\ Len(Prepare) = 6
    /\ Prepare[1] = "floor" /\ Prepare[2] = "stock" /\ Prepare[3] = "dropin"
    /\ Prepare[4] = "link" /\ Prepare[5] = "wait" /\ Prepare[6] = "hosts"
BY DEF Prepare, Part

\* What a concatenation is made of.
LEMMA Joined ==
    ASSUME NEW s \in Seq(Part), NEW t \in Seq(Part)
    PROVE  /\ s \o t \in Seq(Part)
           /\ Len(s \o t) = Len(s) + Len(t)
           /\ DOMAIN (s \o t) = 1..(Len(s) + Len(t))
           /\ \A i \in 1..Len(s) : (s \o t)[i] = s[i]
           /\ \A i \in 1..Len(t) : (s \o t)[Len(s) + i] = t[i]
<1>1. /\ s \o t \in Seq(Part)
      /\ Len(s \o t) = Len(s) + Len(t)
      /\ \A i \in 1..Len(s) + Len(t) :
            (s \o t)[i] = IF i <= Len(s) THEN s[i] ELSE t[i - Len(s)]
  BY ConcatProperties
<1>2. Len(s) \in Nat /\ Len(t) \in Nat
  OBVIOUS
<1> QED
  BY <1>1, <1>2

\* An install, part by part.
LEMMA InstallPath ==
    LET path == Path.install IN
    /\ DOMAIN path = 1..17 /\ Len(path) = 17
    /\ path[1] = "floor" /\ path[2] = "stock" /\ path[3] = "dropin" /\ path[4] = "link"
    /\ path[5] = "wait" /\ path[6] = "hosts" /\ path[7] = "preflight" /\ path[8] = "packages"
    /\ path[9] = "quiesce" /\ path[10] = "mdns" /\ path[11] = "k3s" /\ path[12] = "agent"
    /\ path[13] = "day2" /\ path[14] = "announce" /\ path[15] = "chart"
    /\ path[16] = "ready" /\ path[17] = "receipt"
<1> DEFINE rest == <<"preflight", "packages", "quiesce", "mdns", "k3s", "agent", "day2",
                     "announce", "chart", "ready", "receipt">>
<1>1. Path.install = Prepare \o rest
  BY DEF Path
<1>2. rest \in Seq(Part) /\ Len(rest) = 11
  BY DEF Part
<1>3. /\ rest[1] = "preflight" /\ rest[2] = "packages" /\ rest[3] = "quiesce"
      /\ rest[4] = "mdns" /\ rest[5] = "k3s" /\ rest[6] = "agent" /\ rest[7] = "day2"
      /\ rest[8] = "announce" /\ rest[9] = "chart" /\ rest[10] = "ready" /\ rest[11] = "receipt"
  OBVIOUS
<1> HIDE DEF rest
<1> DEFINE path == Prepare \o rest
<1>4. /\ DOMAIN path = 1..17 /\ Len(path) = 17
      /\ \A i \in 1..6 : path[i] = Prepare[i]
      /\ \A i \in 1..11 : path[6 + i] = rest[i]
  <2>1. /\ Len(path) = Len(Prepare) + Len(rest)
        /\ DOMAIN path = 1..(Len(Prepare) + Len(rest))
        /\ \A i \in 1..Len(Prepare) : path[i] = Prepare[i]
        /\ \A i \in 1..Len(rest) : path[Len(Prepare) + i] = rest[i]
    BY <1>2, PreparePath, Joined
  <2> HIDE DEF path
  <2> QED
    BY <1>2, <2>1, PreparePath
<1> HIDE DEF path
<1>5. /\ path[1] = "floor" /\ path[2] = "stock" /\ path[3] = "dropin" /\ path[4] = "link"
      /\ path[5] = "wait" /\ path[6] = "hosts"
  BY <1>4, PreparePath
<1>6. /\ path[7] = "preflight" /\ path[8] = "packages" /\ path[9] = "quiesce"
      /\ path[10] = "mdns" /\ path[11] = "k3s" /\ path[12] = "agent" /\ path[13] = "day2"
      /\ path[14] = "announce" /\ path[15] = "chart" /\ path[16] = "ready"
      /\ path[17] = "receipt"
  BY <1>3, <1>4
<1> QED
  BY <1>1, <1>4, <1>5, <1>6 DEF path

\* An upgrade, part by part.
LEMMA UpgradePath ==
    LET path == Path.upgrade IN
    /\ DOMAIN path = 1..14 /\ Len(path) = 14
    /\ path[1] = "packages" /\ path[2] = "quiesce" /\ path[3] = "mdns" /\ path[4] = "agent"
    /\ path[5] = "announce" /\ path[6] = "floor" /\ path[7] = "stock" /\ path[8] = "dropin"
    /\ path[9] = "link" /\ path[10] = "wait" /\ path[11] = "hosts" /\ path[12] = "chart"
    /\ path[13] = "ready" /\ path[14] = "receipt"
<1> DEFINE first == <<"packages", "quiesce", "mdns", "agent", "announce">>
           rest == <<"chart", "ready", "receipt">>
<1>1. Path.upgrade = (first \o Prepare) \o rest
  BY DEF Path
<1>2. /\ first \in Seq(Part) /\ Len(first) = 5
      /\ rest \in Seq(Part) /\ Len(rest) = 3
  BY DEF Part
<1>3. /\ first[1] = "packages" /\ first[2] = "quiesce" /\ first[3] = "mdns"
      /\ first[4] = "agent" /\ first[5] = "announce"
      /\ rest[1] = "chart" /\ rest[2] = "ready" /\ rest[3] = "receipt"
  OBVIOUS
<1> HIDE DEF first, rest
<1> DEFINE head == first \o Prepare
           path == head \o rest
<1>4. /\ head \in Seq(Part) /\ Len(head) = 11
      /\ \A i \in 1..5 : head[i] = first[i]
      /\ \A i \in 1..6 : head[5 + i] = Prepare[i]
  <2>1. /\ head \in Seq(Part) /\ Len(head) = Len(first) + Len(Prepare)
        /\ \A i \in 1..Len(first) : head[i] = first[i]
        /\ \A i \in 1..Len(Prepare) : head[Len(first) + i] = Prepare[i]
    BY <1>2, PreparePath, Joined
  <2> HIDE DEF head
  <2> QED
    BY <1>2, <2>1, PreparePath
<1> HIDE DEF head
<1>5. /\ DOMAIN path = 1..14 /\ Len(path) = 14
      /\ \A i \in 1..11 : path[i] = head[i]
      /\ \A i \in 1..3 : path[11 + i] = rest[i]
  <2>1. /\ Len(path) = Len(head) + Len(rest)
        /\ DOMAIN path = 1..(Len(head) + Len(rest))
        /\ \A i \in 1..Len(head) : path[i] = head[i]
        /\ \A i \in 1..Len(rest) : path[Len(head) + i] = rest[i]
    <3>1. head \in Seq(Part) /\ rest \in Seq(Part)
      BY <1>2, <1>4
    <3> QED
      BY <3>1, Joined
  <2> HIDE DEF path
  <2> QED
    BY <1>2, <1>4, <2>1
<1> HIDE DEF path
<1>6. path[1] = "packages" /\ path[2] = "quiesce" /\ path[3] = "mdns" /\ path[4] = "agent"
      /\ path[5] = "announce"
  BY <1>3, <1>4, <1>5
<1>7. path[6] = "floor" /\ path[7] = "stock" /\ path[8] = "dropin"
      /\ path[9] = "link" /\ path[10] = "wait" /\ path[11] = "hosts"
  BY <1>4, <1>5, PreparePath
<1>8. path[12] = "chart" /\ path[13] = "ready" /\ path[14] = "receipt"
  BY <1>3, <1>5
<1> QED
  BY <1>1, <1>5, <1>6, <1>7, <1>8 DEF path, head

\* An uninstall, part by part.
LEMMA UninstallPath ==
    LET path == Path.uninstall IN
    /\ DOMAIN path = 1..6 /\ Len(path) = 6
    /\ path[1] = "stop" /\ path[2] = "kill" /\ path[3] = "forget" /\ path[4] = "restore"
    /\ path[5] = "day2" /\ path[6] = "unagent"
BY DEF Path

\* The next part of an operation is the first one that applies.
LEMMA Jump ==
    ASSUME NEW o \in DOMAIN Path, NEW t, Len(Path[o]) \in Nat,
           NEW n \in Nat, NEW m \in Nat, n < m, m <= Len(Path[o]),
           Applies(Path[o][m], t), \A i \in Nat : n < i /\ i < m => ~Applies(Path[o][i], t)
    PROVE  PartAfter(o, t, n) = Path[o][m]
<1> DEFINE S == {i \in n + 1..Len(Path[o]) : Applies(Path[o][i], t)}
<1>1. S \in SUBSET Int /\ m \in S
  OBVIOUS
<1>2. \A x \in S : m <= x
  OBVIOUS
<1>3. Min(S) = m
  <2> HIDE DEF S
  <2> QED
    BY <1>1, <1>2, MinIs
<1> QED
  BY <1>3 DEF PartAfter

\* LAN DNS has parts of its own.
LEMMA Applying ==
    ASSUME NEW step, NEW t
    PROVE  Applies(step, t) <=> (step \in {"floor", "stock", "dropin", "link", "wait", "hosts",
                                           "chart", "ready"} => "dns" \in t)
<1>1. Steps(Prepare) = {"floor", "stock", "dropin", "link", "wait", "hosts"}
  <2>1. DOMAIN Prepare = 1..6
    BY DEF Prepare
  <2>2. 1..6 = {1, 2, 3, 4, 5, 6}
    OBVIOUS
  <2> QED
    BY <2>1, <2>2, PreparePath DEF Steps
<1> QED
  BY <1>1 DEF Applies

\* The part right behind, when it applies.
LEMMA Following ==
    ASSUME NEW o \in DOMAIN Path, NEW t, Len(Path[o]) \in Nat,
           NEW n \in Nat, n < Len(Path[o]), Applies(Path[o][n + 1], t)
    PROVE  PartAfter(o, t, n) = Path[o][n + 1]
<1>1. n + 1 \in Nat /\ n < n + 1 /\ n + 1 <= Len(Path[o]) /\ ~\E i \in Nat : n < i /\ i < n + 1
  OBVIOUS
<1> QED
  BY <1>1, Jump

\* A part of an install that applies is what comes behind the one before it, and
\* each part stands at one place only; so for an upgrade and for an uninstall.
LEMMA AfterInstall ==
    ASSUME NEW t
    PROVE  /\ \A n \in 0..16 : Applies(Path.install[n + 1], t) =>
                  PartAfter("install", t, n) = Path.install[n + 1]
           /\ \A n \in 1..17 : (CHOOSE i \in DOMAIN Path.install : Path.install[i] = Path.install[n]) = n
<1>1. "install" \in DOMAIN Path /\ Len(Path.install) = 17 /\ 17 \in Nat
  BY InstallPath DEF Path
<1>2. ASSUME NEW n \in 0..16, Applies(Path.install[n + 1], t)
      PROVE  PartAfter("install", t, n) = Path.install[n + 1]
  <2>1. n \in Nat /\ n < 17
    OBVIOUS
  <2> QED
    BY <1>1, <1>2, <2>1, Following
<1>3. ASSUME NEW n \in 1..17
      PROVE  (CHOOSE i \in DOMAIN Path.install : Path.install[i] = Path.install[n]) = n
  <2>1. \A i \in 1..17 : Path.install[i] = Path.install[n] => i = n
    BY InstallPath
  <2> QED
    BY <2>1, InstallPath
<1> QED
  BY <1>2, <1>3

\* The same for an upgrade.
LEMMA AfterUpgrade ==
    ASSUME NEW t
    PROVE  /\ \A n \in 0..13 : Applies(Path.upgrade[n + 1], t) =>
                  PartAfter("upgrade", t, n) = Path.upgrade[n + 1]
           /\ \A n \in 1..14 : (CHOOSE i \in DOMAIN Path.upgrade : Path.upgrade[i] = Path.upgrade[n]) = n
<1>1. "upgrade" \in DOMAIN Path /\ Len(Path.upgrade) = 14 /\ 14 \in Nat
  BY UpgradePath DEF Path
<1>2. ASSUME NEW n \in 0..13, Applies(Path.upgrade[n + 1], t)
      PROVE  PartAfter("upgrade", t, n) = Path.upgrade[n + 1]
  <2>1. n \in Nat /\ n < 14
    OBVIOUS
  <2> QED
    BY <1>1, <1>2, <2>1, Following
<1>3. ASSUME NEW n \in 1..14
      PROVE  (CHOOSE i \in DOMAIN Path.upgrade : Path.upgrade[i] = Path.upgrade[n]) = n
  <2>1. \A i \in 1..14 : Path.upgrade[i] = Path.upgrade[n] => i = n
    BY UpgradePath
  <2> QED
    BY <2>1, UpgradePath
<1> QED
  BY <1>2, <1>3

\* The same for an uninstall.
LEMMA AfterUninstall ==
    ASSUME NEW t
    PROVE  /\ \A n \in 0..5 : Applies(Path.uninstall[n + 1], t) =>
                  PartAfter("uninstall", t, n) = Path.uninstall[n + 1]
           /\ \A n \in 1..6 : (CHOOSE i \in DOMAIN Path.uninstall : Path.uninstall[i] = Path.uninstall[n]) = n
<1>1. "uninstall" \in DOMAIN Path /\ Len(Path.uninstall) = 6 /\ 6 \in Nat
  BY UninstallPath DEF Path
<1>2. ASSUME NEW n \in 0..5, Applies(Path.uninstall[n + 1], t)
      PROVE  PartAfter("uninstall", t, n) = Path.uninstall[n + 1]
  <2>1. n \in Nat /\ n < 6
    OBVIOUS
  <2> QED
    BY <1>1, <1>2, <2>1, Following
<1>3. ASSUME NEW n \in 1..6
      PROVE  (CHOOSE i \in DOMAIN Path.uninstall : Path.uninstall[i] = Path.uninstall[n]) = n
  <2>1. \A i \in 1..6 : Path.uninstall[i] = Path.uninstall[n] => i = n
    BY UninstallPath
  <2> QED
    BY <2>1, UninstallPath
<1> QED
  BY <1>2, <1>3

\* Without LAN DNS its parts are passed over.
LEMMA InstallSkips ==
    ASSUME NEW t, "dns" \notin t
    PROVE  PartAfter("install", t, 0) = "preflight" /\ PartAfter("install", t, 14) = "receipt"
<1>1. "install" \in DOMAIN Path /\ Len(Path.install) = 17 /\ 17 \in Nat
  BY InstallPath DEF Path
<1>2. PartAfter("install", t, 0) = Path.install[7]
  <2> SUFFICES ASSUME NEW n \in Nat, n = 0, NEW m \in Nat, m = 7
               PROVE  PartAfter("install", t, n) = Path.install[m]
    OBVIOUS
  <2>1. n < m /\ m <= 17 /\ Applies(Path.install[m], t)
    BY InstallPath, Applying
  <2>2. \A i \in Nat : n < i /\ i < m => ~Applies(Path.install[i], t)
    BY InstallPath, Applying
  <2> QED
    BY <1>1, <2>1, <2>2, Jump
<1>3. PartAfter("install", t, 14) = Path.install[17]
  <2> SUFFICES ASSUME NEW n \in Nat, n = 14, NEW m \in Nat, m = 17
               PROVE  PartAfter("install", t, n) = Path.install[m]
    OBVIOUS
  <2>1. n < m /\ m <= 17 /\ Applies(Path.install[m], t)
    BY InstallPath, Applying
  <2>2. \A i \in Nat : n < i /\ i < m => ~Applies(Path.install[i], t)
    BY InstallPath, Applying
  <2> QED
    BY <1>1, <2>1, <2>2, Jump
<1> QED
  BY <1>2, <1>3, InstallPath

\* The same for an upgrade.
LEMMA UpgradeSkips ==
    ASSUME NEW t, "dns" \notin t
    PROVE  PartAfter("upgrade", t, 5) = "receipt"
<1>1. "upgrade" \in DOMAIN Path /\ Len(Path.upgrade) = 14 /\ 14 \in Nat
  BY UpgradePath DEF Path
<1>2. PartAfter("upgrade", t, 5) = Path.upgrade[14]
  <2> SUFFICES ASSUME NEW n \in Nat, n = 5, NEW m \in Nat, m = 14
               PROVE  PartAfter("upgrade", t, n) = Path.upgrade[m]
    OBVIOUS
  <2>1. n < m /\ m <= 14 /\ Applies(Path.upgrade[m], t)
    BY UpgradePath, Applying
  <2>2. \A i \in Nat : n < i /\ i < m => ~Applies(Path.upgrade[i], t)
    BY UpgradePath, Applying
  <2> QED
    BY <1>1, <2>1, <2>2, Jump
<1> QED
  BY <1>2, UpgradePath

\* Where Done goes, in an install.
LEMMA InstallDone ==
    ASSUME op = "install", Done
    PROVE  /\ pc = "floor" /\ "dns" \in target => pc' = "stock"
           /\ pc = "stock" /\ "dns" \in target => pc' = "dropin"
           /\ pc = "dropin" /\ "dns" \in target => pc' = "link"
           /\ pc = "link" /\ "dns" \in target => pc' = "wait"
           /\ pc = "wait" /\ "dns" \in target => pc' = "hosts"
           /\ pc = "hosts" => pc' = "preflight"
           /\ pc = "preflight" => pc' = "packages"
           /\ pc = "packages" => pc' = "quiesce"
           /\ pc = "quiesce" => pc' = "mdns"
           /\ pc = "mdns" => pc' = "k3s"
           /\ pc = "k3s" => pc' = "agent"
           /\ pc = "agent" => pc' = "day2"
           /\ pc = "day2" => pc' = "announce"
           /\ pc = "announce" => pc' = IF "dns" \in target THEN "chart" ELSE "receipt"
           /\ pc = "chart" /\ "dns" \in target => pc' = "ready"
           /\ pc = "ready" => pc' = "receipt"
<1>1. CASE pc = "floor"
  <2>1. pc' = PartAfter("install", target, 1)
    BY <1>1, InstallPath, AfterInstall DEF Done, Goto
  <2> QED
    BY <1>1, <2>1, InstallPath, AfterInstall, Applying
<1>2. CASE pc = "stock"
  <2>1. pc' = PartAfter("install", target, 2)
    BY <1>2, InstallPath, AfterInstall DEF Done, Goto
  <2> QED
    BY <1>2, <2>1, InstallPath, AfterInstall, Applying
<1>3. CASE pc = "dropin"
  <2>1. pc' = PartAfter("install", target, 3)
    BY <1>3, InstallPath, AfterInstall DEF Done, Goto
  <2> QED
    BY <1>3, <2>1, InstallPath, AfterInstall, Applying
<1>4. CASE pc = "link"
  <2>1. pc' = PartAfter("install", target, 4)
    BY <1>4, InstallPath, AfterInstall DEF Done, Goto
  <2> QED
    BY <1>4, <2>1, InstallPath, AfterInstall, Applying
<1>5. CASE pc = "wait"
  <2>1. pc' = PartAfter("install", target, 5)
    BY <1>5, InstallPath, AfterInstall DEF Done, Goto
  <2> QED
    BY <1>5, <2>1, InstallPath, AfterInstall, Applying
<1>6. CASE pc = "hosts"
  <2>1. pc' = PartAfter("install", target, 6)
    BY <1>6, InstallPath, AfterInstall DEF Done, Goto
  <2> QED
    BY <1>6, <2>1, InstallPath, AfterInstall, Applying
<1>7. CASE pc = "preflight"
  <2>1. pc' = PartAfter("install", target, 7)
    BY <1>7, InstallPath, AfterInstall DEF Done, Goto
  <2> QED
    BY <1>7, <2>1, InstallPath, AfterInstall, Applying
<1>8. CASE pc = "packages"
  <2>1. pc' = PartAfter("install", target, 8)
    BY <1>8, InstallPath, AfterInstall DEF Done, Goto
  <2> QED
    BY <1>8, <2>1, InstallPath, AfterInstall, Applying
<1>9. CASE pc = "quiesce"
  <2>1. pc' = PartAfter("install", target, 9)
    BY <1>9, InstallPath, AfterInstall DEF Done, Goto
  <2> QED
    BY <1>9, <2>1, InstallPath, AfterInstall, Applying
<1>10. CASE pc = "mdns"
  <2>1. pc' = PartAfter("install", target, 10)
    BY <1>10, InstallPath, AfterInstall DEF Done, Goto
  <2> QED
    BY <1>10, <2>1, InstallPath, AfterInstall, Applying
<1>11. CASE pc = "k3s"
  <2>1. pc' = PartAfter("install", target, 11)
    BY <1>11, InstallPath, AfterInstall DEF Done, Goto
  <2> QED
    BY <1>11, <2>1, InstallPath, AfterInstall, Applying
<1>12. CASE pc = "agent"
  <2>1. pc' = PartAfter("install", target, 12)
    BY <1>12, InstallPath, AfterInstall DEF Done, Goto
  <2> QED
    BY <1>12, <2>1, InstallPath, AfterInstall, Applying
<1>13. CASE pc = "day2"
  <2>1. pc' = PartAfter("install", target, 13)
    BY <1>13, InstallPath, AfterInstall DEF Done, Goto
  <2> QED
    BY <1>13, <2>1, InstallPath, AfterInstall, Applying
<1>14. CASE pc = "announce"
  <2>1. pc' = PartAfter("install", target, 14)
    BY <1>14, InstallPath, AfterInstall DEF Done, Goto
  <2>2. CASE "dns" \in target
    BY <1>14, <2>1, <2>2, InstallPath, AfterInstall, Applying
  <2>3. CASE "dns" \notin target
    BY <1>14, <2>1, <2>3, InstallSkips
  <2> QED
    BY <2>2, <2>3
<1>15. CASE pc = "chart"
  <2>1. pc' = PartAfter("install", target, 15)
    BY <1>15, InstallPath, AfterInstall DEF Done, Goto
  <2> QED
    BY <1>15, <2>1, InstallPath, AfterInstall, Applying
<1>16. CASE pc = "ready"
  <2>1. pc' = PartAfter("install", target, 16)
    BY <1>16, InstallPath, AfterInstall DEF Done, Goto
  <2> QED
    BY <1>16, <2>1, InstallPath, AfterInstall, Applying
<1> QED
  BY <1>1, <1>2, <1>3, <1>4, <1>5, <1>6, <1>7, <1>8, <1>9, <1>10, <1>11, <1>12, <1>13, <1>14, <1>15, <1>16

\* Where Done goes, in an upgrade.
LEMMA UpgradeDone ==
    ASSUME op = "upgrade", Done
    PROVE  /\ pc = "packages" => pc' = "quiesce"
           /\ pc = "quiesce" => pc' = "mdns"
           /\ pc = "mdns" => pc' = "agent"
           /\ pc = "agent" => pc' = "announce"
           /\ pc = "announce" => pc' = IF "dns" \in target THEN "floor" ELSE "receipt"
           /\ pc = "floor" /\ "dns" \in target => pc' = "stock"
           /\ pc = "stock" /\ "dns" \in target => pc' = "dropin"
           /\ pc = "dropin" /\ "dns" \in target => pc' = "link"
           /\ pc = "link" /\ "dns" \in target => pc' = "wait"
           /\ pc = "wait" /\ "dns" \in target => pc' = "hosts"
           /\ pc = "hosts" /\ "dns" \in target => pc' = "chart"
           /\ pc = "chart" /\ "dns" \in target => pc' = "ready"
           /\ pc = "ready" => pc' = "receipt"
<1>1. CASE pc = "packages"
  <2>1. pc' = PartAfter("upgrade", target, 1)
    BY <1>1, UpgradePath, AfterUpgrade DEF Done, Goto
  <2> QED
    BY <1>1, <2>1, UpgradePath, AfterUpgrade, Applying
<1>2. CASE pc = "quiesce"
  <2>1. pc' = PartAfter("upgrade", target, 2)
    BY <1>2, UpgradePath, AfterUpgrade DEF Done, Goto
  <2> QED
    BY <1>2, <2>1, UpgradePath, AfterUpgrade, Applying
<1>3. CASE pc = "mdns"
  <2>1. pc' = PartAfter("upgrade", target, 3)
    BY <1>3, UpgradePath, AfterUpgrade DEF Done, Goto
  <2> QED
    BY <1>3, <2>1, UpgradePath, AfterUpgrade, Applying
<1>4. CASE pc = "agent"
  <2>1. pc' = PartAfter("upgrade", target, 4)
    BY <1>4, UpgradePath, AfterUpgrade DEF Done, Goto
  <2> QED
    BY <1>4, <2>1, UpgradePath, AfterUpgrade, Applying
<1>5. CASE pc = "announce"
  <2>1. pc' = PartAfter("upgrade", target, 5)
    BY <1>5, UpgradePath, AfterUpgrade DEF Done, Goto
  <2>2. CASE "dns" \in target
    BY <1>5, <2>1, <2>2, UpgradePath, AfterUpgrade, Applying
  <2>3. CASE "dns" \notin target
    BY <1>5, <2>1, <2>3, UpgradeSkips
  <2> QED
    BY <2>2, <2>3
<1>6. CASE pc = "floor"
  <2>1. pc' = PartAfter("upgrade", target, 6)
    BY <1>6, UpgradePath, AfterUpgrade DEF Done, Goto
  <2> QED
    BY <1>6, <2>1, UpgradePath, AfterUpgrade, Applying
<1>7. CASE pc = "stock"
  <2>1. pc' = PartAfter("upgrade", target, 7)
    BY <1>7, UpgradePath, AfterUpgrade DEF Done, Goto
  <2> QED
    BY <1>7, <2>1, UpgradePath, AfterUpgrade, Applying
<1>8. CASE pc = "dropin"
  <2>1. pc' = PartAfter("upgrade", target, 8)
    BY <1>8, UpgradePath, AfterUpgrade DEF Done, Goto
  <2> QED
    BY <1>8, <2>1, UpgradePath, AfterUpgrade, Applying
<1>9. CASE pc = "link"
  <2>1. pc' = PartAfter("upgrade", target, 9)
    BY <1>9, UpgradePath, AfterUpgrade DEF Done, Goto
  <2> QED
    BY <1>9, <2>1, UpgradePath, AfterUpgrade, Applying
<1>10. CASE pc = "wait"
  <2>1. pc' = PartAfter("upgrade", target, 10)
    BY <1>10, UpgradePath, AfterUpgrade DEF Done, Goto
  <2> QED
    BY <1>10, <2>1, UpgradePath, AfterUpgrade, Applying
<1>11. CASE pc = "hosts"
  <2>1. pc' = PartAfter("upgrade", target, 11)
    BY <1>11, UpgradePath, AfterUpgrade DEF Done, Goto
  <2> QED
    BY <1>11, <2>1, UpgradePath, AfterUpgrade, Applying
<1>12. CASE pc = "chart"
  <2>1. pc' = PartAfter("upgrade", target, 12)
    BY <1>12, UpgradePath, AfterUpgrade DEF Done, Goto
  <2> QED
    BY <1>12, <2>1, UpgradePath, AfterUpgrade, Applying
<1>13. CASE pc = "ready"
  <2>1. pc' = PartAfter("upgrade", target, 13)
    BY <1>13, UpgradePath, AfterUpgrade DEF Done, Goto
  <2> QED
    BY <1>13, <2>1, UpgradePath, AfterUpgrade, Applying
<1> QED
  BY <1>1, <1>2, <1>3, <1>4, <1>5, <1>6, <1>7, <1>8, <1>9, <1>10, <1>11, <1>12, <1>13

\* Where Done goes, in an uninstall.
LEMMA UninstallDone ==
    ASSUME op = "uninstall", Done
    PROVE  /\ pc = "stop" => pc' = "kill"
           /\ pc = "kill" => pc' = "forget"
           /\ pc = "forget" => pc' = "restore"
           /\ pc = "restore" => pc' = "day2"
           /\ pc = "day2" => pc' = "unagent"
<1>1. CASE pc = "stop"
  <2>1. pc' = PartAfter("uninstall", target, 1)
    BY <1>1, UninstallPath, AfterUninstall DEF Done, Goto
  <2> QED
    BY <1>1, <2>1, UninstallPath, AfterUninstall, Applying
<1>2. CASE pc = "kill"
  <2>1. pc' = PartAfter("uninstall", target, 2)
    BY <1>2, UninstallPath, AfterUninstall DEF Done, Goto
  <2> QED
    BY <1>2, <2>1, UninstallPath, AfterUninstall, Applying
<1>3. CASE pc = "forget"
  <2>1. pc' = PartAfter("uninstall", target, 3)
    BY <1>3, UninstallPath, AfterUninstall DEF Done, Goto
  <2> QED
    BY <1>3, <2>1, UninstallPath, AfterUninstall, Applying
<1>4. CASE pc = "restore"
  <2>1. pc' = PartAfter("uninstall", target, 4)
    BY <1>4, UninstallPath, AfterUninstall DEF Done, Goto
  <2> QED
    BY <1>4, <2>1, UninstallPath, AfterUninstall, Applying
<1>5. CASE pc = "day2"
  <2>1. pc' = PartAfter("uninstall", target, 5)
    BY <1>5, UninstallPath, AfterUninstall DEF Done, Goto
  <2> QED
    BY <1>5, <2>1, UninstallPath, AfterUninstall, Applying
<1> QED
  BY <1>1, <1>2, <1>3, <1>4, <1>5

\* What each operation begins with.
LEMMA BeginsWith ==
    ASSUME NEW t
    PROVE  /\ PartAfter("install", t, 0) = IF "dns" \in t THEN "floor" ELSE "preflight"
           /\ PartAfter("upgrade", t, 0) = "packages"
           /\ PartAfter("uninstall", t, 0) = "stop"
<1>1. ASSUME "dns" \in t PROVE PartAfter("install", t, 0) = "floor"
  BY <1>1, InstallPath, AfterInstall, Applying
<1>2. ASSUME "dns" \notin t PROVE PartAfter("install", t, 0) = "preflight"
  BY <1>2, InstallSkips
<1>3. /\ PartAfter("upgrade", t, 0) = "packages"
      /\ PartAfter("uninstall", t, 0) = "stop"
  BY UpgradePath, UninstallPath, AfterUpgrade, AfterUninstall, Applying
<1> QED
  BY <1>1, <1>2, <1>3

\* What an operation goes on with behind a part that is done.
LEMMA GoesOnWith ==
    ASSUME Control, op \in DOMAIN Path, Done
    PROVE  /\ pc = "floor" => pc' = "stock"
           /\ pc = "stock" => pc' = "dropin"
           /\ pc = "dropin" => pc' = "link"
           /\ pc = "link" => pc' = "wait"
           /\ pc = "wait" => pc' = "hosts"
           /\ pc = "hosts" => pc' = IF op = "install" THEN "preflight" ELSE "chart"
           /\ pc = "preflight" => pc' = "packages"
           /\ pc = "packages" => pc' = "quiesce"
           /\ pc = "quiesce" => pc' = "mdns"
           /\ pc = "mdns" => pc' = IF op = "install" THEN "k3s" ELSE "agent"
           /\ pc = "k3s" => pc' = "agent"
           /\ pc = "agent" => pc' = IF op = "install" THEN "day2" ELSE "announce"
           /\ pc = "day2" => pc' = IF op = "install" THEN "announce" ELSE "unagent"
           /\ pc = "announce" =>
                 pc' = IF "dns" \notin target THEN "receipt"
                       ELSE IF op = "install" THEN "chart" ELSE "floor"
           /\ pc = "chart" => pc' = "ready"
           /\ pc = "ready" => pc' = "receipt"
           /\ pc = "stop" => pc' = "kill"
           /\ pc = "kill" => pc' = "forget"
           /\ pc = "forget" => pc' = "restore"
           /\ pc = "restore" => pc' = "day2"
           /\ UNCHANGED <<before, errs, outcome, intact, undone>>
<1>1. op \in {"install", "upgrade", "uninstall"}
  BY DEF Path
<1>2. UNCHANGED <<before, errs, outcome, intact, undone>>
  BY DEF Done, Goto, history
<1>3. CASE op = "install"
  BY <1>2, <1>3, InstallDone DEF Control, PartOf, DNSPart, Part
<1>4. CASE op = "upgrade"
  BY <1>2, <1>4, UpgradeDone DEF Control, PartOf, DNSPart, Part
<1>5. CASE op = "uninstall"
  BY <1>2, <1>5, UninstallDone DEF Control, PartOf, DNSPart
<1> QED
  BY <1>1, <1>3, <1>4, <1>5

-----------------------------------------------------------------------------
(* The steps.                                                              *)

\* The operations there are.
LEMMA Operations == DOMAIN Path = {"install", "upgrade", "uninstall"}
BY DEF Path

\* Every step goes on with a part of its operation.
LEMMA NextControl == TypeOK /\ Control /\ Next => Control'
<1> SUFFICES ASSUME TypeOK /\ Control, Next PROVE Control'
  OBVIOUS
<1> USE Operations DEF TypeOK, Control, PartOf, Part, DNSPart, Nothing, units, resolver,
            cluster, context, history
<1>1. CASE LowerPortFloor
  BY <1>1, GoesOnWith DEF LowerPortFloor, NoteChange, FailPrepare, Goto
<1>2. CASE ReleaseStock
  BY <1>2, GoesOnWith DEF ReleaseStock, FailPrepare, Masked, conflictDaemonUnits
<1>3. CASE DisableStub
  BY <1>3, GoesOnWith DEF DisableStub, NoteChange, FailPrepare
<1>4. CASE LinkUplink
  BY <1>4, GoesOnWith DEF LinkUplink, FailRestored, Restored, RestoreFails, FailPrepare
<1>5. CASE AwaitPort
  BY <1>5, GoesOnWith DEF AwaitPort, FailRestored, Restored, RestoreFails, FailPrepare, Masked,
         conflictDaemonUnits
<1>6. CASE WriteHosts
  BY <1>6, GoesOnWith DEF WriteHosts, NoteChange, FailRestored, Restored, RestoreFails,
         FailPrepare
<1>7. CASE Preflight
  BY <1>7, GoesOnWith DEF Preflight, Fail
<1>8. CASE InstallPackages
  BY <1>8 DEF InstallPackages, Fail, Unpacked, UnitsOf
<1>9. CASE QuiesceConflicting
  BY <1>9, GoesOnWith DEF QuiesceConflicting, Fail, Quiesced, QuiesceFails, Masked,
         conflictDaemonUnits, Arm
<1>10. CASE SettleMdns
  BY <1>10, GoesOnWith DEF SettleMdns, Fail, Quiesced, QuiesceFails, Masked,
         conflictDaemonUnits, Arm, FeatureRunning, FeatureFails
<1>11. CASE StartK3s
  <2>1. pc = "k3s" /\ op = "install" /\ UNCHANGED <<receipt, context>>
    BY <1>11 DEF StartK3s
  <2>2. CASE Done
    BY <2>1, <2>2, GoesOnWith
  <2>3. CASE Fail("failed")
    BY <2>1, <2>3 DEF Fail
  <2>4. CASE LeaveBehind("failed")
    BY <2>1, <2>4 DEF LeaveBehind, Return
  <2> QED
    BY <1>11, <2>2, <2>3, <2>4 DEF StartK3s
<1>12. CASE InstallHostAgent
  <2>1. pc = "agent" /\ op \in {"install", "upgrade"} /\ UNCHANGED <<receipt, context>>
    BY <1>12 DEF InstallHostAgent
  <2>4. op = "upgrade" => "k3s" \notin armed'
    <3>1. armed' = armed \cup {"agent"} \/ armed' = armed
      BY <1>12, Zenon DEF InstallHostAgent, Arm
    <3> QED
      BY <2>1, <3>1
  <2>2. CASE Done
    BY <2>1, <2>2, <2>4, GoesOnWith
  <2>3. CASE Fail("failed")
    BY <2>1, <2>3, <2>4 DEF Fail
  <2> QED
    BY <1>12, <2>2, <2>3 DEF InstallHostAgent
<1>13. CASE DisableDay2
  BY <1>13, GoesOnWith DEF DisableDay2, Fail, Mdns
<1>14. CASE AnnounceMdns
  BY <1>14, GoesOnWith DEF AnnounceMdns, Fail, Mdns
<1>15. CASE ApplyDNS
  BY <1>15, GoesOnWith DEF ApplyDNS, Fail, Quiesced, QuiesceFails, Masked, conflictDaemonUnits
<1>16. CASE AwaitDNS
  BY <1>16, GoesOnWith DEF AwaitDNS, Fail
<1>17. CASE SaveReceipt
  BY <1>17 DEF SaveReceipt, Fail, Return
<1>18. CASE StopK3s
  BY <1>18, GoesOnWith DEF StopK3s, LeaveBehind, Return, Abandoned
<1>19. CASE KillPods
  BY <1>19, GoesOnWith DEF KillPods, LeaveBehind, Return
<1>20. CASE DropReceipt
  BY <1>20, GoesOnWith DEF DropReceipt
<1>21. CASE RestoreHostDNS
  BY <1>21, GoesOnWith DEF RestoreHostDNS, Restored, RestoreFails, LeaveBehind, Return
<1>22. CASE RemoveHostAgent
  BY <1>22 DEF RemoveHostAgent, LeaveBehind, Return
<1>23. CASE UndoNext
  BY <1>23 DEF UndoNext, PutBack, PutBackFails, UndoPackages, UnitsOf, Restored, RestoreFails,
         Abandoned, CannotEnable
<1>24. CASE RollbackDone
  BY <1>24 DEF RollbackDone, Return
<1>25. CASE StartCoreDNS
  BY <1>25 DEF StartCoreDNS, environment, operation, history
<1>26. CASE StopCoreDNS
  BY <1>26 DEF StopCoreDNS, environment, operation, history
<1>27. CASE ActivateBySocket
  BY <1>27 DEF ActivateBySocket, environment, operation, history
<1>28. CASE Reboot
  BY <1>28 DEF Reboot, environment, operation, history
<1>29. CASE Crash
  BY <1>29 DEF Crash, LeaveBehind, Return
<1>30. ASSUME NEW o \in DOMAIN Path, NEW t \in SUBSET Feature, Begin(o, t) PROVE Control'
  BY <1>30, BeginsWith DEF Begin
<1> QED
  BY <1>1, <1>2, <1>3, <1>4, <1>5, <1>6, <1>7, <1>8, <1>9, <1>10, <1>11, <1>12, <1>13, <1>14,
     <1>15, <1>16, <1>17, <1>18, <1>19, <1>20, <1>21, <1>22, <1>23, <1>24, <1>25, <1>26, <1>27,
     <1>28, <1>29, <1>30 DEF Next, Operation

\* The parts are labels.
LEMMA PartsAreLabels == \A o \in DOMAIN Path : PartOf[o] \cup {"idle", "rollback"} \subseteq Label
<1>1. Part \subseteq Steps(Path.install)
  <2>1. \A n \in 1..17 : Path.install[n] \in Steps(Path.install)
    BY InstallPath DEF Steps
  <2> QED
    BY <2>1, InstallPath DEF Part
<1>2. PartOf.uninstall \subseteq Steps(Path.uninstall)
  <2>1. \A n \in 1..6 : Path.uninstall[n] \in Steps(Path.uninstall)
    BY UninstallPath DEF Steps
  <2> QED
    BY <2>1, UninstallPath DEF PartOf
<1>3. Part \subseteq Label /\ PartOf.uninstall \subseteq Label /\ {"idle", "rollback"} \subseteq Label
  BY <1>1, <1>2, Operations DEF Label
<1>4. PartOf.install \subseteq Part /\ PartOf.upgrade \subseteq Part
  BY DEF PartOf
<1> QED
  BY <1>3, <1>4, Operations

\* The types, one group of variables after the other.
UnitsTyped ==
    /\ packages \subseteq Package
    /\ active \subseteq Unit /\ enabled \subseteq Unit /\ masked \subseteq Unit
    /\ active \cap masked = {}
HostTyped ==
    /\ files \subseteq {"dropin", "sysctl", "hosts"}
    /\ lowered \in BOOLEAN /\ stub \in BOOLEAN /\ stranger \in BOOLEAN
    /\ link \in {"stub", "uplink", "own", "none"}
    /\ k3s \in BOOLEAN /\ release \in BOOLEAN /\ coredns \in {"none", "pod", "orphan"}
    /\ agent \in BOOLEAN
    /\ receipt = {} \/ ("host" \in receipt /\ receipt \subseteq Feature \cup {"host"})
NoteTyped ==
    before \in [noted : BOOLEAN, packages : SUBSET Package, running : BOOLEAN,
                enabled : BOOLEAN, agent : BOOLEAN]
OperationTyped ==
    /\ op \in DOMAIN Path /\ target \subseteq Feature
    /\ errs \in BOOLEAN /\ intact \in BOOLEAN /\ undone \in BOOLEAN
    /\ armed \subseteq Piece
    /\ outcome \in {"none", "succeeded", "failed", "blocked", "died"}
    /\ runs \in 0..MaxRuns /\ boots \in 0..MaxBoots

\* A state in which each group has its type, and a label, is typed.
LEMMA TypesOfGroups ==
    TypeOK <=> UnitsTyped /\ HostTyped /\ NoteTyped /\ OperationTyped /\ pc \in Label
BY DEF TypeOK, UnitsTyped, HostTyped, NoteTyped, OperationTyped

\* The types after dpkg, which starts no unit that is masked.
LEMMA TypedAfterDpkg ==
    ASSUME UnitsTyped, NEW new \in SUBSET Package, Unpacked(new)
    PROVE  UnitsTyped'
<1>1. packages' = packages \cup new /\ masked' = masked
  BY DEF Unpacked
<1>2. /\ enabled' \subseteq enabled \cup (Unit \ masked)
      /\ active' \subseteq active \cup (Unit \ masked)
  BY DEF Unpacked
<1> QED
  BY <1>1, <1>2 DEF UnitsTyped

\* The types after a mask, or after one that failed.
LEMMA TypedAfterMask ==
    ASSUME UnitsTyped, NEW set \in SUBSET Unit, Masked(set) \/ QuiesceFails(set)
    PROVE  UnitsTyped'
<1>1. CASE Masked(set)
  BY <1>1 DEF Masked, UnitsTyped
<1>2. CASE /\ active' \in {active \ part : part \in SUBSET set}
           /\ UNCHANGED <<enabled, masked, packages>>
  BY <1>2 DEF UnitsTyped
<1> QED
  BY <1>1, <1>2 DEF QuiesceFails

\* The types after the rollback of the packages.
LEMMA TypedAfterUndo ==
    ASSUME UnitsTyped, NoteTyped, UndoPackages
    PROVE  UnitsTyped'
<1> DEFINE asked == IF "lan" \in target THEN mdnsDaemonUnits ELSE {}
           started == IF before.running THEN asked ELSE {}
           quiet == asked \ started
           gone == {u \in Unit : \E p \in packages \ before.packages : u \in UnitsOf(p)}
<1>1. /\ packages' = before.packages
      /\ active' = (active \cup started) \ (quiet \cup gone)
      /\ masked' = (masked \cup quiet) \ started
      /\ enabled' = IF before.enabled THEN (enabled \cup started) \ (quiet \cup gone)
                    ELSE enabled \ (asked \cup gone)
  BY DEF UndoPackages
<1>2. started \subseteq Unit /\ quiet \subseteq Unit /\ started \cap quiet = {}
  BY DEF Unit
<1>3. before.packages \subseteq Package
  BY DEF NoteTyped
<1> HIDE DEF asked, started, quiet, gone
<1> QED
  BY <1>1, <1>2, <1>3 DEF UnitsTyped

\* Every step keeps the types of the units, and what is masked stopped.
LEMMA NextUnits == UnitsTyped /\ NoteTyped /\ Next => UnitsTyped'
<1> SUFFICES ASSUME UnitsTyped /\ NoteTyped, Next PROVE UnitsTyped'
  OBVIOUS
<1>1. CASE LowerPortFloor
  BY <1>1 DEF LowerPortFloor, UnitsTyped, units
<1>2. CASE ReleaseStock
  <2>1. conflictDaemonUnits \in SUBSET Unit
    BY DEF Unit, conflictDaemonUnits, mdnsDaemonUnits
  <2>2. Masked(conflictDaemonUnits) \/ UNCHANGED units
    BY <1>2 DEF ReleaseStock
  <2> QED
    BY <2>1, <2>2, TypedAfterMask DEF units, UnitsTyped
<1>3. CASE DisableStub
  BY <1>3 DEF DisableStub, UnitsTyped, units
<1>4. CASE LinkUplink
  BY <1>4 DEF LinkUplink, UnitsTyped, units
<1>5. CASE AwaitPort
  <2>1. conflictDaemonUnits \in SUBSET Unit
    BY DEF Unit, conflictDaemonUnits, mdnsDaemonUnits
  <2>2. Masked(conflictDaemonUnits) \/ UNCHANGED units
    BY <1>5 DEF AwaitPort
  <2> QED
    BY <2>1, <2>2, TypedAfterMask DEF units, UnitsTyped
<1>6. CASE WriteHosts
  BY <1>6 DEF WriteHosts, UnitsTyped, units
<1>7. CASE Preflight
  BY <1>7 DEF Preflight, UnitsTyped, units
<1>8. CASE InstallPackages
  <2>1. PICK new \in SUBSET Package : Unpacked(new)
    BY <1>8 DEF InstallPackages
  <2> QED
    BY <2>1, TypedAfterDpkg
<1>9. CASE QuiesceConflicting
  <2>1. conflictDaemonUnits \in SUBSET Unit
    BY DEF Unit, conflictDaemonUnits, mdnsDaemonUnits
  <2>2. Masked(conflictDaemonUnits) \/ QuiesceFails(conflictDaemonUnits)
    BY <1>9 DEF QuiesceConflicting, Quiesced
  <2> QED
    BY <2>1, <2>2, TypedAfterMask
<1>10. CASE SettleMdns
  <2>1. mdnsDaemonUnits \in SUBSET Unit
    BY DEF Unit, conflictDaemonUnits, mdnsDaemonUnits
  <2>2. CASE Masked(mdnsDaemonUnits) \/ QuiesceFails(mdnsDaemonUnits)
    BY <2>1, <2>2, TypedAfterMask
  <2>3. CASE FeatureRunning \/ FeatureFails
    BY <2>1, <2>3 DEF FeatureRunning, FeatureFails, UnitsTyped
  <2> QED
    BY <1>10, <2>2, <2>3 DEF SettleMdns, Quiesced
<1>11. CASE StartK3s
  BY <1>11 DEF StartK3s, UnitsTyped, units
<1>12. CASE InstallHostAgent
  BY <1>12 DEF InstallHostAgent, UnitsTyped, units
<1>13. CASE DisableDay2
  <2>1. CASE Mdns(FALSE)
    BY <2>1 DEF Mdns, UnitsTyped, Unit
  <2>2. CASE UNCHANGED units
    BY <2>2 DEF units, UnitsTyped
  <2> QED
    BY <1>13, <2>1, <2>2 DEF DisableDay2, Mdns, units
<1>14. CASE AnnounceMdns
  <2>1. CASE Mdns("lan" \in target)
    BY <2>1 DEF Mdns, UnitsTyped, Unit
  <2>2. CASE UNCHANGED units
    BY <2>2 DEF units, UnitsTyped
  <2> QED
    BY <1>14, <2>1, <2>2 DEF AnnounceMdns
<1>15. CASE ApplyDNS
  <2>1. conflictDaemonUnits \in SUBSET Unit
    BY DEF Unit, conflictDaemonUnits, mdnsDaemonUnits
  <2>2. Masked(conflictDaemonUnits) \/ QuiesceFails(conflictDaemonUnits)
    BY <1>15 DEF ApplyDNS, Quiesced
  <2> QED
    BY <2>1, <2>2, TypedAfterMask
<1>16. CASE AwaitDNS
  BY <1>16 DEF AwaitDNS, UnitsTyped, units
<1>17. CASE SaveReceipt
  BY <1>17 DEF SaveReceipt, UnitsTyped, units
<1>18. CASE StopK3s
  BY <1>18 DEF StopK3s, UnitsTyped, units
<1>19. CASE KillPods
  BY <1>19 DEF KillPods, UnitsTyped, units
<1>20. CASE DropReceipt
  BY <1>20 DEF DropReceipt, UnitsTyped, units
<1>21. CASE RestoreHostDNS
  BY <1>21 DEF RestoreHostDNS, UnitsTyped, units
<1>22. CASE RemoveHostAgent
  BY <1>22 DEF RemoveHostAgent, UnitsTyped, units
<1>23. CASE UndoNext
  <2>1. UndoPackages \/ UNCHANGED units
    BY <1>23 DEF UndoNext, PutBack, PutBackFails
  <2> QED
    BY <2>1, TypedAfterUndo DEF units, UnitsTyped
<1>24. CASE RollbackDone
  BY <1>24 DEF RollbackDone, UnitsTyped, units
<1>25. CASE StartCoreDNS
  BY <1>25 DEF StartCoreDNS, UnitsTyped, units
<1>26. CASE StopCoreDNS
  BY <1>26 DEF StopCoreDNS, UnitsTyped, units
<1>27. CASE ActivateBySocket
  BY <1>27 DEF ActivateBySocket, UnitsTyped, Unit, mdnsDaemonUnits
<1>28. CASE Reboot
  BY <1>28 DEF Reboot, UnitsTyped
<1>29. CASE Crash
  BY <1>29 DEF Crash, UnitsTyped, units
<1>30. ASSUME NEW o \in DOMAIN Path, NEW t \in SUBSET Feature, Begin(o, t) PROVE UnitsTyped'
  BY <1>30 DEF Begin, UnitsTyped, units
<1> QED
  BY <1>1, <1>2, <1>3, <1>4, <1>5, <1>6, <1>7, <1>8, <1>9, <1>10, <1>11, <1>12, <1>13, <1>14,
     <1>15, <1>16, <1>17, <1>18, <1>19, <1>20, <1>21, <1>22, <1>23, <1>24, <1>25, <1>26, <1>27,
     <1>28, <1>29, <1>30 DEF Next, Operation

\* What the resolver may be after a restore, whatever came of it.
LEMMA TypedAfterRestore ==
    ASSUME HostTyped, Restored \/ RestoreFails
    PROVE  /\ files' \subseteq {"dropin", "sysctl", "hosts"}
           /\ lowered' \in BOOLEAN /\ stub' \in BOOLEAN
           /\ link' \in {"stub", "uplink", "own", "none"}
BY DEF Restored, RestoreFails, StubMayListen, HostTyped

\* Every step keeps the types of the host, the cluster and the receipt.
LEMMA NextHost == HostTyped /\ NoteTyped /\ OperationTyped /\ Next => HostTyped'
<1> SUFFICES ASSUME HostTyped /\ NoteTyped /\ OperationTyped, Next PROVE HostTyped'
  OBVIOUS
<1>1. CASE LowerPortFloor
  <2>1. files' \in {files, files \cup {"sysctl"}} /\ lowered' \in {TRUE, lowered}
    BY <1>1 DEF LowerPortFloor
  <2>2. UNCHANGED <<stub, link, k3s, release, coredns, agent, receipt, stranger>>
    BY <1>1 DEF LowerPortFloor, cluster, context
  <2>3. lowered' \in BOOLEAN
    BY <2>1 DEF HostTyped
  <2> QED
    BY <2>1, <2>2, <2>3 DEF HostTyped
<1>2. CASE ReleaseStock
  BY <1>2 DEF ReleaseStock, HostTyped, resolver, cluster, context
<1>3. CASE DisableStub
  <2>1. /\ files' \in {files, files \cup {"dropin"}, files \ {"dropin"}}
        /\ stub' \in {FALSE, stub}
    BY <1>3 DEF DisableStub
  <2>2. UNCHANGED <<lowered, link, k3s, release, coredns, agent, receipt, stranger>>
    BY <1>3 DEF DisableStub, cluster, context
  <2>3. stub' \in BOOLEAN
    BY <2>1 DEF HostTyped
  <2> QED
    BY <2>1, <2>2, <2>3 DEF HostTyped
<1>4. CASE LinkUplink
  <2>1. CASE Restored \/ RestoreFails
    BY <1>4, <2>1, TypedAfterRestore DEF LinkUplink, HostTyped, cluster, context
  <2>2. CASE ~(Restored \/ RestoreFails)
    BY <1>4, <2>2 DEF LinkUplink, FailRestored, HostTyped, resolver, cluster, context
  <2> QED
    BY <2>1, <2>2
<1>5. CASE AwaitPort
  <2>1. CASE Restored \/ RestoreFails
    BY <1>5, <2>1, TypedAfterRestore DEF AwaitPort, HostTyped, cluster, context
  <2>2. CASE ~(Restored \/ RestoreFails)
    BY <1>5, <2>2 DEF AwaitPort, FailRestored, HostTyped, resolver, cluster, context
  <2> QED
    BY <2>1, <2>2
<1>6. CASE WriteHosts
  <2>1. CASE Restored \/ RestoreFails
    BY <1>6, <2>1, TypedAfterRestore DEF WriteHosts, HostTyped, cluster, context
  <2>2. CASE ~(Restored \/ RestoreFails)
    BY <1>6, <2>2 DEF WriteHosts, FailRestored, HostTyped, resolver, cluster, context
  <2> QED
    BY <2>1, <2>2
<1>7. CASE Preflight
  BY <1>7 DEF Preflight, HostTyped, resolver, cluster, context
<1>8. CASE InstallPackages
  BY <1>8 DEF InstallPackages, HostTyped, resolver, cluster, context
<1>9. CASE QuiesceConflicting
  BY <1>9 DEF QuiesceConflicting, HostTyped, resolver, cluster, context
<1>10. CASE SettleMdns
  BY <1>10 DEF SettleMdns, HostTyped, resolver, cluster, context
<1>11. CASE StartK3s
  <2>1. /\ k3s' \in {TRUE, k3s}
        /\ release' \in {FALSE, release}
        /\ coredns' \in {coredns, "none"}
    BY <1>11 DEF StartK3s, cluster, HostTyped
  <2>2. UNCHANGED <<files, lowered, stub, link, agent, receipt, stranger>>
    BY <1>11 DEF StartK3s, resolver, context
  <2>3. k3s' \in BOOLEAN /\ release' \in BOOLEAN
    BY <2>1 DEF HostTyped
  <2> QED
    BY <2>1, <2>2, <2>3 DEF HostTyped
<1>12. CASE InstallHostAgent
  <2>1. agent' \in {TRUE, FALSE, before.agent} /\ before.agent \in BOOLEAN
    BY <1>12 DEF InstallHostAgent, NoteTyped
  <2>2. UNCHANGED <<files, lowered, stub, link, k3s, release, coredns, receipt, stranger>>
    BY <1>12 DEF InstallHostAgent, resolver, cluster, context
  <2>3. agent' \in BOOLEAN
    BY <2>1
  <2> QED
    BY <2>2, <2>3 DEF HostTyped
<1>13. CASE DisableDay2
  BY <1>13 DEF DisableDay2, HostTyped, resolver, cluster, context
<1>14. CASE AnnounceMdns
  BY <1>14 DEF AnnounceMdns, HostTyped, resolver, cluster, context
<1>15. CASE ApplyDNS
  <2>1. release' \in BOOLEAN
    BY <1>15 DEF ApplyDNS, HostTyped
  <2>2. UNCHANGED <<resolver, k3s, coredns, agent, receipt, stranger>>
    BY <1>15 DEF ApplyDNS, context
  <2> QED
    BY <2>1, <2>2 DEF HostTyped, resolver
<1>16. CASE AwaitDNS
  BY <1>16 DEF AwaitDNS, HostTyped, resolver, cluster, context
<1>17. CASE SaveReceipt
  BY <1>17 DEF SaveReceipt, Fail, HostTyped, resolver, cluster, context, OperationTyped
<1>18. CASE StopK3s
  <2>1. k3s' \in BOOLEAN /\ coredns' \in {"none", "pod", "orphan"}
    BY <1>18 DEF StopK3s, HostTyped, Abandoned
  <2>2. UNCHANGED <<resolver, release, agent, receipt, stranger>>
    BY <1>18 DEF StopK3s, context
  <2> QED
    BY <2>1, <2>2 DEF HostTyped, resolver
<1>19. CASE KillPods
  BY <1>19 DEF KillPods, HostTyped, resolver, cluster, context
<1>20. CASE DropReceipt
  BY <1>20 DEF DropReceipt, HostTyped, resolver, cluster, context
<1>21. CASE RestoreHostDNS
  BY <1>21, TypedAfterRestore DEF RestoreHostDNS, HostTyped, cluster, context
<1>22. CASE RemoveHostAgent
  <2>1. agent' \in BOOLEAN
    BY <1>22 DEF RemoveHostAgent, HostTyped
  <2>2. UNCHANGED <<resolver, cluster, receipt, stranger>>
    BY <1>22 DEF RemoveHostAgent, context
  <2> QED
    BY <2>1, <2>2 DEF HostTyped, resolver, cluster
<1>23. CASE UndoNext
  <2>1. before.agent \in BOOLEAN /\ UNCHANGED <<receipt, stranger>>
    BY <1>23 DEF NoteTyped, UndoNext, context
  <2>2. PICK piece : PutBack(piece) \/ PutBackFails(piece)
    BY <1>23 DEF UndoNext
  <2>3. CASE PutBack(piece)
    BY <2>1, <2>3, TypedAfterRestore DEF PutBack, HostTyped, resolver
  <2>4. CASE PutBackFails(piece)
    <3>1. /\ k3s' \in {k3s, FALSE} /\ coredns' \in {coredns, "none", "orphan"}
          /\ UNCHANGED <<agent, release>>
      BY <2>4 DEF PutBackFails, Abandoned
    <3>2. RestoreFails \/ UNCHANGED <<files, lowered, stub, link>>
      BY <2>4 DEF PutBackFails, resolver
    <3>3. k3s' \in BOOLEAN
      BY <3>1 DEF HostTyped
    <3> QED
      BY <2>1, <3>1, <3>2, <3>3, TypedAfterRestore DEF HostTyped
  <2> QED
    BY <2>2, <2>3, <2>4
<1>24. CASE RollbackDone
  <2>1. k3s' \in {k3s, FALSE}
    BY <1>24 DEF RollbackDone
  <2>2. release' \in BOOLEAN
    <3>1. release' = release \/ release' = ("dns" \in receipt)
      BY <1>24 DEF RollbackDone
    <3>2. CASE release' = ("dns" \in receipt)
      BY <3>2
    <3> QED
      BY <3>1, <3>2 DEF HostTyped
  <2>3. UNCHANGED <<files, lowered, stub, link, coredns, agent, receipt, stranger>>
    BY <1>24 DEF RollbackDone, resolver, context
  <2>4. k3s' \in BOOLEAN
    BY <2>1 DEF HostTyped
  <2> QED
    BY <2>2, <2>3, <2>4 DEF HostTyped
<1>25. CASE StartCoreDNS
  BY <1>25 DEF StartCoreDNS, HostTyped, resolver, cluster, context, environment, operation
<1>26. CASE StopCoreDNS
  BY <1>26 DEF StopCoreDNS, HostTyped, resolver, cluster, context, environment, operation
<1>27. CASE ActivateBySocket
  BY <1>27 DEF ActivateBySocket, HostTyped, resolver, cluster, context, environment, operation
<1>28. CASE Reboot
  BY <1>28 DEF Reboot, HostTyped, resolver, cluster, context, environment, operation
<1>29. CASE Crash
  BY <1>29 DEF Crash, HostTyped, resolver, cluster, context
<1>30. ASSUME NEW o \in DOMAIN Path, NEW t \in SUBSET Feature, Begin(o, t) PROVE HostTyped'
  BY <1>30 DEF Begin, HostTyped, resolver, cluster
<1> QED
  BY <1>1, <1>2, <1>3, <1>4, <1>5, <1>6, <1>7, <1>8, <1>9, <1>10, <1>11, <1>12, <1>13, <1>14,
     <1>15, <1>16, <1>17, <1>18, <1>19, <1>20, <1>21, <1>22, <1>23, <1>24, <1>25, <1>26, <1>27,
     <1>28, <1>29, <1>30 DEF Next, Operation

\* An operation that found nothing has a note of its type.
LEMMA NothingTyped ==
    Nothing \in [noted : BOOLEAN, packages : SUBSET Package, running : BOOLEAN,
                 enabled : BOOLEAN, agent : BOOLEAN]
BY DEF Nothing

\* Every step keeps the type of what the operation found.
LEMMA NextNote == UnitsTyped /\ HostTyped /\ NoteTyped /\ Next => NoteTyped'
<1> SUFFICES ASSUME UnitsTyped /\ HostTyped /\ NoteTyped, Next PROVE NoteTyped'
  OBVIOUS
<1>1. CASE LowerPortFloor
  BY <1>1 DEF LowerPortFloor, NoteTyped, FailPrepare, Goto, Done
<1>2. CASE ReleaseStock
  BY <1>2 DEF ReleaseStock, NoteTyped, FailPrepare, Done, Goto
<1>3. CASE DisableStub
  BY <1>3 DEF DisableStub, NoteTyped, FailPrepare, Done, Goto
<1>4. CASE LinkUplink
  BY <1>4 DEF LinkUplink, NoteTyped, FailRestored, FailPrepare, Done, Goto
<1>5. CASE AwaitPort
  BY <1>5 DEF AwaitPort, NoteTyped, FailRestored, FailPrepare, Done, Goto
<1>6. CASE WriteHosts
  BY <1>6 DEF WriteHosts, NoteTyped, FailRestored, FailPrepare, Done, Goto
<1>7. CASE Preflight
  BY <1>7 DEF Preflight, NoteTyped, Fail, Done, Goto
<1>8. CASE InstallPackages
  <2>1. CASE before' = before
    BY <2>1 DEF NoteTyped
  <2>2. CASE before' = [noted |-> TRUE, packages |-> packages, agent |-> agent,
                        running |-> "avahi" \in active, enabled |-> "avahi" \in enabled]
    BY <2>2 DEF NoteTyped, UnitsTyped, HostTyped
  <2> QED
    BY <1>8, <2>1, <2>2 DEF InstallPackages, Fail
<1>9. CASE QuiesceConflicting
  BY <1>9 DEF QuiesceConflicting, NoteTyped, Fail, Done, Goto
<1>10. CASE SettleMdns
  BY <1>10 DEF SettleMdns, NoteTyped, Fail, Done, Goto
<1>11. CASE StartK3s
  <2>1. before' = before \/ before' = Nothing
    BY <1>11 DEF StartK3s, Fail, LeaveBehind, Return, Done, Goto
  <2> QED
    BY <2>1, NothingTyped DEF NoteTyped
<1>12. CASE InstallHostAgent
  BY <1>12 DEF InstallHostAgent, NoteTyped, Fail, Done, Goto
<1>13. CASE DisableDay2
  BY <1>13 DEF DisableDay2, NoteTyped, Fail, Done, Goto
<1>14. CASE AnnounceMdns
  BY <1>14 DEF AnnounceMdns, NoteTyped, Fail, Done, Goto
<1>15. CASE ApplyDNS
  BY <1>15 DEF ApplyDNS, NoteTyped, Fail, Done, Goto
<1>16. CASE AwaitDNS
  BY <1>16 DEF AwaitDNS, NoteTyped, Fail, Done, Goto
<1>17. CASE SaveReceipt
  <2>1. before' = before \/ before' = Nothing
    BY <1>17 DEF SaveReceipt, Fail, Return
  <2> QED
    BY <2>1, NothingTyped DEF NoteTyped
<1>18. CASE StopK3s
  <2>1. before' = before \/ before' = Nothing
    BY <1>18 DEF StopK3s, LeaveBehind, Return, Done, Goto
  <2> QED
    BY <2>1, NothingTyped DEF NoteTyped
<1>19. CASE KillPods
  <2>1. before' = before \/ before' = Nothing
    BY <1>19 DEF KillPods, LeaveBehind, Return, Done, Goto
  <2> QED
    BY <2>1, NothingTyped DEF NoteTyped
<1>20. CASE DropReceipt
  BY <1>20 DEF DropReceipt, NoteTyped, Done, Goto
<1>21. CASE RestoreHostDNS
  <2>1. before' = before \/ before' = Nothing
    BY <1>21 DEF RestoreHostDNS, LeaveBehind, Return, Done, Goto
  <2> QED
    BY <2>1, NothingTyped DEF NoteTyped
<1>22. CASE RemoveHostAgent
  <2>1. before' = before \/ before' = Nothing
    BY <1>22 DEF RemoveHostAgent, LeaveBehind, Return
  <2> QED
    BY <2>1, NothingTyped DEF NoteTyped
<1>23. CASE UndoNext
  BY <1>23 DEF UndoNext, NoteTyped
<1>24. CASE RollbackDone
  <2>1. before' = before \/ before' = Nothing
    BY <1>24 DEF RollbackDone, Return
  <2> QED
    BY <2>1, NothingTyped DEF NoteTyped
<1>25. CASE StartCoreDNS
  BY <1>25 DEF StartCoreDNS, NoteTyped, operation
<1>26. CASE StopCoreDNS
  BY <1>26 DEF StopCoreDNS, NoteTyped, operation
<1>27. CASE ActivateBySocket
  BY <1>27 DEF ActivateBySocket, NoteTyped, operation
<1>28. CASE Reboot
  BY <1>28 DEF Reboot, NoteTyped, operation
<1>29. CASE Crash
  <2>1. before' = before \/ before' = Nothing
    BY <1>29 DEF Crash, LeaveBehind, Return
  <2> QED
    BY <2>1, NothingTyped DEF NoteTyped
<1>30. ASSUME NEW o \in DOMAIN Path, NEW t \in SUBSET Feature, Begin(o, t) PROVE NoteTyped'
  BY <1>30 DEF Begin, NoteTyped
<1> QED
  BY <1>1, <1>2, <1>3, <1>4, <1>5, <1>6, <1>7, <1>8, <1>9, <1>10, <1>11, <1>12, <1>13, <1>14,
     <1>15, <1>16, <1>17, <1>18, <1>19, <1>20, <1>21, <1>22, <1>23, <1>24, <1>25, <1>26, <1>27,
     <1>28, <1>29, <1>30 DEF Next, Operation

\* Every step keeps the types of what is known of the operation.
LEMMA NextOperation == OperationTyped /\ Next => OperationTyped'
<1> SUFFICES ASSUME OperationTyped, Next PROVE OperationTyped'
  OBVIOUS
<1> USE BoundAssumption
<1>1. CASE LowerPortFloor
  BY <1>1 DEF LowerPortFloor, OperationTyped, context, NoteChange, FailPrepare, Goto, Done,
         history, Piece
<1>2. CASE ReleaseStock
  BY <1>2 DEF ReleaseStock, OperationTyped, context, FailPrepare, Done, Goto, history
<1>3. CASE DisableStub
  BY <1>3 DEF DisableStub, OperationTyped, context, NoteChange, FailPrepare, Done, Goto, history,
         Piece
<1>4. CASE LinkUplink
  BY <1>4 DEF LinkUplink, OperationTyped, context, FailRestored, FailPrepare, Done, Goto, history
<1>5. CASE AwaitPort
  BY <1>5 DEF AwaitPort, OperationTyped, context, FailRestored, FailPrepare, Done, Goto, history
<1>6. CASE WriteHosts
  BY <1>6 DEF WriteHosts, OperationTyped, context, NoteChange, FailRestored, FailPrepare, Done,
         Goto, history, Piece
<1>7. CASE Preflight
  BY <1>7 DEF Preflight, OperationTyped, context, Fail, Done, Goto, history
<1>8. CASE InstallPackages
  BY <1>8 DEF InstallPackages, OperationTyped, context, Fail, history
<1>9. CASE QuiesceConflicting
  BY <1>9 DEF QuiesceConflicting, OperationTyped, context, Fail, Arm, Done, Goto, history, Piece
<1>10. CASE SettleMdns
  BY <1>10 DEF SettleMdns, OperationTyped, context, Fail, Arm, Done, Goto, history, Piece
<1>11. CASE StartK3s
  BY <1>11 DEF StartK3s, OperationTyped, context, Fail, Arm, LeaveBehind, Return, Done, Goto,
         history, Piece
<1>12. CASE InstallHostAgent
  BY <1>12 DEF InstallHostAgent, OperationTyped, context, Fail, Arm, Done, Goto, history, Piece
<1>13. CASE DisableDay2
  BY <1>13 DEF DisableDay2, OperationTyped, context, Fail, Done, Goto, history
<1>14. CASE AnnounceMdns
  BY <1>14 DEF AnnounceMdns, OperationTyped, context, Fail, Done, Goto, history
<1>15. CASE ApplyDNS
  BY <1>15 DEF ApplyDNS, OperationTyped, context, Fail, Done, Goto, history, Piece
<1>16. CASE AwaitDNS
  BY <1>16 DEF AwaitDNS, OperationTyped, context, Fail, Done, Goto, history
<1>17. CASE SaveReceipt
  BY <1>17 DEF SaveReceipt, OperationTyped, context, Fail, Return
<1>18. CASE StopK3s
  BY <1>18 DEF StopK3s, OperationTyped, context, LeaveBehind, Return, Done, Goto, history
<1>19. CASE KillPods
  BY <1>19 DEF KillPods, OperationTyped, context, LeaveBehind, Return, Done, Goto, history
<1>20. CASE DropReceipt
  BY <1>20 DEF DropReceipt, OperationTyped, context, Done, Goto, history
<1>21. CASE RestoreHostDNS
  BY <1>21 DEF RestoreHostDNS, OperationTyped, context, LeaveBehind, Return, Done, Goto, history
<1>22. CASE RemoveHostAgent
  BY <1>22 DEF RemoveHostAgent, OperationTyped, context, LeaveBehind, Return
<1>23. CASE UndoNext
  BY <1>23 DEF UndoNext, OperationTyped, context, history
<1>24. CASE RollbackDone
  BY <1>24 DEF RollbackDone, OperationTyped, context, Return
<1>25. CASE StartCoreDNS
  BY <1>25 DEF StartCoreDNS, OperationTyped, context, operation, environment, history
<1>26. CASE StopCoreDNS
  BY <1>26 DEF StopCoreDNS, OperationTyped, context, operation, environment, history
<1>27. CASE ActivateBySocket
  BY <1>27 DEF ActivateBySocket, OperationTyped, context, operation, environment, history
<1>28. CASE Reboot
  BY <1>28 DEF Reboot, OperationTyped, context, operation, environment, history
<1>29. CASE Crash
  BY <1>29 DEF Crash, OperationTyped, context, LeaveBehind, Return
<1>30. ASSUME NEW o \in DOMAIN Path, NEW t \in SUBSET Feature, Begin(o, t) PROVE OperationTyped'
  BY <1>30 DEF Begin, OperationTyped
<1> QED
  BY <1>1, <1>2, <1>3, <1>4, <1>5, <1>6, <1>7, <1>8, <1>9, <1>10, <1>11, <1>12, <1>13, <1>14,
     <1>15, <1>16, <1>17, <1>18, <1>19, <1>20, <1>21, <1>22, <1>23, <1>24, <1>25, <1>26, <1>27,
     <1>28, <1>29, <1>30 DEF Next, Operation

\* Every step keeps the types.
LEMMA NextTypes == TypeOK /\ Control /\ Next => TypeOK'
<1> SUFFICES ASSUME TypeOK, Control, Next PROVE TypeOK'
  OBVIOUS
<1>1. UnitsTyped /\ HostTyped /\ NoteTyped /\ OperationTyped
  BY TypesOfGroups
<1>2. UnitsTyped' /\ HostTyped' /\ NoteTyped' /\ OperationTyped'
  BY <1>1, NextUnits, NextHost, NextNote, NextOperation
<1>3. pc' \in {"idle", "rollback"} \cup PartOf[op'] /\ op' \in DOMAIN Path
  BY <1>2, NextControl DEF Control, OperationTyped
<1>4. pc' \in Label
  BY <1>3, PartsAreLabels
<1> QED
  BY <1>2, <1>4 DEF TypeOK, UnitsTyped, HostTyped, NoteTyped, OperationTyped

\* The rollback that is next is one of those registered.
LEMMA NextPiece ==
    ASSUME TypeOK, Control, pc = "rollback", armed # {}
    PROVE  LET order == UndoOrder[op] IN
           order[Min({i \in DOMAIN order : order[i] \in armed})] \in armed
<1> DEFINE order == UndoOrder[op]
           S == {i \in DOMAIN order : order[i] \in armed}
<1>1. order \in {UndoOrder.install, UndoOrder.upgrade}
  BY Operations DEF Control, PartOf, TypeOK
<1>2. /\ S \subseteq 1..5
      /\ \A i \in S : order[i] \in armed
  BY <1>1 DEF UndoOrder
<1>3. S # {}
  <2>1. armed \subseteq Piece /\ (op = "upgrade" => "k3s" \notin armed)
    BY DEF TypeOK, Control
  <2>2. \A piece \in armed : \E i \in DOMAIN order : order[i] = piece
    BY <2>1, Operations DEF UndoOrder, Piece, TypeOK, Control, PartOf
  <2> QED
    BY <2>2
<1> HIDE DEF order, S
<1>4. \E m \in S : \A n \in S : m <= n
  <2>1. \A i \in 1..5 : i \in S /\ (\A j \in 1..5 : j < i => j \notin S) =>
            \E m \in S : \A n \in S : m <= n
    BY <1>2
  <2>2. CASE 1 \in S
    BY <2>1, <2>2
  <2>3. CASE 1 \notin S /\ 2 \in S
    BY <2>1, <2>3
  <2>4. CASE 1 \notin S /\ 2 \notin S /\ 3 \in S
    BY <2>1, <2>4
  <2>5. CASE 1 \notin S /\ 2 \notin S /\ 3 \notin S /\ 4 \in S
    BY <2>1, <2>5
  <2>6. CASE 1 \notin S /\ 2 \notin S /\ 3 \notin S /\ 4 \notin S /\ 5 \in S
    BY <2>1, <2>6
  <2>7. 1 \in S \/ 2 \in S \/ 3 \in S \/ 4 \in S \/ 5 \in S
    <3>1. PICK i \in S : i \in 1..5
      BY <1>2, <1>3
    <3>2. i = 1 \/ i = 2 \/ i = 3 \/ i = 4 \/ i = 5
      BY <3>1
    <3> QED
      BY <3>1, <3>2
  <2> QED
    BY <2>2, <2>3, <2>4, <2>5, <2>6, <2>7
<1>5. Min(S) \in S
  BY <1>2, <1>4, MinIs
<1>6. order[Min(S)] \in armed
  BY <1>2, <1>5
<1> QED
  BY <1>6 DEF order, S

\* A failure leaves the ground of a recorded LAN DNS as it is, or takes it.
LEMMA FailedGround ==
    ASSUME Ground, op' \in DOMAIN Path, pc' = "rollback", receipt' = receipt,
           "dns" \in armed' => "dns" \in armed,
           "dns" \in receipt /\ ~undone' => Laid' /\ "dnsmasq" \in masked'
    PROVE  Ground'
BY Operations DEF Ground, BehindDropin, BehindQuiesce, BehindMdns, Part, DNSPart

\* A Prepare that failed and restored the resolver says so in undone, where a
\* recorded LAN DNS lost its ground.
LEMMA RestoredGround ==
    ASSUME TypeOK, Ground, FailRestored, op' = op, receipt' = receipt, masked \subseteq masked'
    PROVE  Ground'
<1>1. ASSUME "dns" \in receipt, ~undone' PROVE Laid' /\ "dnsmasq" \in masked'
  <2>1. ~undone /\ files \subseteq files'
    BY <1>1 DEF FailRestored, FailPrepare, TypeOK
  <2>2. Laid /\ "dnsmasq" \in masked
    BY <1>1, <2>1 DEF Ground
  <2> QED
    BY <2>1, <2>2 DEF FailRestored, Restored, RestoreFails, Laid
<1> QED
  BY <1>1, FailedGround DEF FailRestored, FailPrepare, TypeOK

\* Every step keeps the ground of LAN DNS.
LEMMA NextGround == TypeOK /\ Control /\ Ground /\ Next => Ground'
<1> SUFFICES ASSUME TypeOK /\ Control /\ Ground, Next PROVE Ground'
  OBVIOUS
<1>0. op \in DOMAIN Path /\ UnitsTyped
  BY DEF TypeOK, UnitsTyped
<1> USE <1>0
<1>1. CASE LowerPortFloor
  <2>1. /\ pc = "floor" /\ "dns" \in target /\ op \in {"install", "upgrade"}
        /\ op = "install" => receipt = {}
        /\ UNCHANGED <<masked, stub, receipt, op, target>>
    BY <1>1, Operations DEF LowerPortFloor, Control, PartOf, DNSPart, units, context
  <2>2. CASE /\ files' = files \cup {"sysctl"} /\ UNCHANGED undone
             /\ "dns" \in receipt => armed' = armed
             /\ pc' \in {"stock", "hosts"}
             /\ pc' = "hosts" => ~stub /\ "dropin" \in files
    BY <2>1, <2>2 DEF Ground, Laid, BehindDropin, BehindQuiesce, BehindMdns, Part, DNSPart
  <2>3. CASE FailPrepare /\ files \subseteq files'
    BY <2>1, <2>3, FailedGround DEF FailPrepare, Ground, Laid
  <2>4. ASSUME /\ files' = files \cup {"sysctl"}
               /\ NoteChange("sysctl" \notin files \/ ~lowered)
               /\ Goto(IF portConflictOnWildcard53 \/ "dropin" \notin files
                       THEN "stock" ELSE "hosts")
        PROVE  /\ "dns" \in receipt => armed' = armed
               /\ pc' \in {"stock", "hosts"} /\ UNCHANGED undone
               /\ pc' = "hosts" => ~stub /\ "dropin" \in files
    BY <2>1, <2>4 DEF NoteChange, Goto, history, portConflictOnWildcard53
  <2>5. CASE pc' = "rollback"
    BY <1>1, <2>3, <2>5 DEF LowerPortFloor, Goto
  <2>6. CASE pc' # "rollback"
    BY <1>1, <2>2, <2>4, <2>6 DEF LowerPortFloor, FailPrepare
  <2> QED
    BY <2>5, <2>6
<1>2. CASE ReleaseStock
  BY <1>2, GoesOnWith, Operations DEF ReleaseStock, FailPrepare, Masked, conflictDaemonUnits,
         Ground, Laid, BehindDropin, BehindQuiesce, BehindMdns, Part, DNSPart, units, resolver,
         context, history, Control, PartOf
<1>3. CASE DisableStub
  <2>1. /\ pc = "dropin" /\ "dns" \in target /\ op \in {"install", "upgrade"}
        /\ op = "install" => receipt = {}
        /\ UNCHANGED <<masked, receipt, op, target>>
    BY <1>3, Operations DEF DisableStub, Control, PartOf, DNSPart, units, context
  <2>2. CASE Done /\ files' = files \cup {"dropin"} /\ stub' = FALSE /\ NoteChange(TRUE)
    BY <2>1, <2>2, GoesOnWith
    DEF NoteChange, Ground, Laid, BehindDropin, BehindQuiesce, BehindMdns, Part, DNSPart
  <2>3. CASE FailPrepare /\ UNCHANGED stub
    BY <2>1, <2>3, FailedGround DEF FailPrepare, Ground, Laid
  <2> QED
    BY <1>3, <2>1, <2>2, <2>3 DEF DisableStub
<1>4. CASE LinkUplink
  <2>1. /\ pc = "link" /\ "dns" \in target /\ op \in {"install", "upgrade"}
        /\ op = "install" => receipt = {}
        /\ masked \subseteq masked' /\ UNCHANGED <<receipt, op, target>>
    BY <1>4, Operations DEF LinkUplink, Control, PartOf, DNSPart, units, context
  <2>2. CASE Done /\ UNCHANGED stub /\ files \subseteq files' /\ ("dns" \in receipt => armed' = armed)
    BY <2>1, <2>2, GoesOnWith
    DEF Ground, Laid, BehindDropin, BehindQuiesce, BehindMdns, Part, DNSPart
  <2>3. CASE FailRestored
    BY <2>1, <2>3, RestoredGround
  <2> QED
    BY <1>4, <2>1, <2>2, <2>3 DEF LinkUplink
<1>5. CASE AwaitPort
  <2>1. /\ pc = "wait" /\ "dns" \in target /\ op \in {"install", "upgrade"}
        /\ op = "install" => receipt = {}
        /\ masked \subseteq masked' /\ UNCHANGED <<receipt, op, target>>
    BY <1>5, Operations DEF AwaitPort, Control, PartOf, DNSPart, units, context, Masked
  <2>2. CASE Done /\ UNCHANGED stub /\ files \subseteq files' /\ ("dns" \in receipt => armed' = armed)
    BY <2>1, <2>2, GoesOnWith
    DEF Ground, Laid, BehindDropin, BehindQuiesce, BehindMdns, Part, DNSPart
  <2>3. CASE FailRestored
    BY <2>1, <2>3, RestoredGround
  <2> QED
    BY <1>5, <2>1, <2>2, <2>3 DEF AwaitPort, resolver
<1>6. CASE WriteHosts
  <2>1. /\ pc = "hosts" /\ "dns" \in target /\ op \in {"install", "upgrade"}
        /\ op = "install" => receipt = {}
        /\ masked \subseteq masked' /\ UNCHANGED <<receipt, op, target>>
    BY <1>6, Operations DEF WriteHosts, Control, PartOf, DNSPart, units, context
  <2>2. CASE Done /\ UNCHANGED stub /\ files \subseteq files' /\ ("dns" \in receipt => armed' = armed)
    BY <2>1, <2>2, GoesOnWith
    DEF Ground, Laid, BehindDropin, BehindQuiesce, BehindMdns, Part, DNSPart
  <2>3. CASE FailRestored
    BY <2>1, <2>3, RestoredGround
  <2> QED
    BY <1>6, <2>1, <2>2, <2>3 DEF WriteHosts, NoteChange
<1>7. CASE Preflight
  BY <1>7, GoesOnWith, Operations DEF Preflight, Fail, Ground, Laid, BehindDropin, BehindQuiesce,
         BehindMdns, Part, DNSPart, units, resolver, context, history, Control, PartOf
<1>8. CASE InstallPackages
  BY <1>8, Operations DEF InstallPackages, Fail, Unpacked, UnitsOf, Ground, Laid, BehindDropin,
         BehindQuiesce, BehindMdns, Part, DNSPart, units, resolver, context, history, Control,
         PartOf
<1>9. CASE QuiesceConflicting
  BY <1>9, GoesOnWith, Operations DEF QuiesceConflicting, Fail, Quiesced, QuiesceFails, Masked,
         conflictDaemonUnits, Arm, Ground, Laid, BehindDropin, BehindQuiesce, BehindMdns, Part,
         DNSPart, units, resolver, context, history, Control, PartOf
<1>10. CASE SettleMdns
  <2>1. /\ pc = "mdns" /\ op \in {"install", "upgrade"} /\ ("dns" \in armed' <=> "dns" \in armed)
        /\ UNCHANGED <<files, stub, receipt, op, target>>
    BY <1>10, Operations DEF SettleMdns, Arm, Control, PartOf, resolver, context
  <2>2. "dnsmasq" \in masked => "dnsmasq" \in masked'
    BY <1>10 DEF SettleMdns, FeatureRunning, FeatureFails, Quiesced, QuiesceFails, Masked, mdnsDaemonUnits
  <2>3. CASE Done
    BY <2>1, <2>2, <2>3, GoesOnWith
    DEF Ground, Laid, BehindDropin, BehindQuiesce, BehindMdns, Part, DNSPart
  <2>4. CASE Fail("failed")
    BY <2>1, <2>2, <2>4, FailedGround DEF Fail, Ground, Laid
  <2> QED
    BY <1>10, <2>3, <2>4 DEF SettleMdns
<1>11. CASE StartK3s
  <2>1. /\ pc = "k3s" /\ op = "install" /\ receipt = {}
        /\ UNCHANGED <<masked, files, stub, receipt, op, target>>
    BY <1>11, Operations DEF StartK3s, Control, PartOf, resolver, units, context
  <2>2. CASE Done
    BY <2>1, <2>2, GoesOnWith
    DEF Ground, Laid, BehindDropin, BehindQuiesce, BehindMdns, Part, DNSPart
  <2>3. CASE pc' \in {"rollback", "idle"}
    BY <2>1, <2>3 DEF Ground, Laid, BehindDropin, BehindQuiesce, BehindMdns, Part, DNSPart
  <2> QED
    BY <1>11, <2>2, <2>3 DEF StartK3s, Fail, LeaveBehind, Return
<1>12. CASE InstallHostAgent
  BY <1>12, GoesOnWith, Operations DEF InstallHostAgent, Fail, Arm, Ground, Laid, BehindDropin,
         BehindQuiesce, BehindMdns, Part, DNSPart, units, resolver, context, history, Control,
         PartOf
<1>13. CASE DisableDay2
  BY <1>13, GoesOnWith, Operations DEF DisableDay2, Fail, Mdns, Ground, Laid, BehindDropin,
         BehindQuiesce, BehindMdns, Part, DNSPart, units, resolver, context, history, Control,
         PartOf
<1>14. CASE AnnounceMdns
  <2>1. /\ pc = "announce" /\ op \in {"install", "upgrade"}
        /\ UNCHANGED <<files, stub, armed, receipt, op, target>>
    BY <1>14, Operations DEF AnnounceMdns, Control, PartOf, resolver, context
  <2>2. "dnsmasq" \in masked => "dnsmasq" \in masked'
    BY <1>14 DEF AnnounceMdns, Mdns, units, mdnsDaemonUnits
  <2>3. CASE Done
    BY <2>1, <2>2, <2>3, GoesOnWith
    DEF Ground, Laid, BehindDropin, BehindQuiesce, BehindMdns, Part, DNSPart
  <2>4. CASE Fail("failed")
    BY <2>1, <2>2, <2>4, FailedGround DEF Fail, Ground, Laid
  <2> QED
    BY <1>14, <2>3, <2>4 DEF AnnounceMdns
<1>15. CASE ApplyDNS
  BY <1>15, GoesOnWith, Operations DEF ApplyDNS, Fail, Quiesced, QuiesceFails, Masked,
         conflictDaemonUnits, Ground, Laid, BehindDropin, BehindQuiesce, BehindMdns, Part,
         DNSPart, units, resolver, context, history, Control, PartOf
<1>16. CASE AwaitDNS
  BY <1>16, GoesOnWith, Operations DEF AwaitDNS, Fail, Ground, Laid, BehindDropin, BehindQuiesce,
         BehindMdns, Part, DNSPart, units, resolver, context, history, Control, PartOf
<1>17. CASE SaveReceipt
  BY <1>17, Operations DEF SaveReceipt, Fail, Return, Ground, Laid, BehindDropin, BehindQuiesce,
         BehindMdns, Part, DNSPart, units, resolver, context, history, Control, PartOf
<1>18. CASE StopK3s
  BY <1>18, GoesOnWith, Operations DEF StopK3s, LeaveBehind, Return, Abandoned, Ground, Laid,
         BehindDropin, BehindQuiesce, BehindMdns, Part, DNSPart, units, resolver, context,
         history, Control, PartOf
<1>19. CASE KillPods
  BY <1>19, GoesOnWith, Operations DEF KillPods, LeaveBehind, Return, Ground, Laid, BehindDropin,
         BehindQuiesce, BehindMdns, Part, DNSPart, units, resolver, context, history, Control,
         PartOf
<1>20. CASE DropReceipt
  BY <1>20, GoesOnWith, Operations DEF DropReceipt, Ground, Laid, BehindDropin, BehindQuiesce,
         BehindMdns, Part, DNSPart, units, resolver, context, history, Control, PartOf
<1>21. CASE RestoreHostDNS
  BY <1>21, GoesOnWith, Operations DEF RestoreHostDNS, Restored, RestoreFails, LeaveBehind, Return,
         Ground, Laid, BehindDropin, BehindQuiesce, BehindMdns, Part, DNSPart, units, resolver,
         context, history, Control, PartOf
<1>22. CASE RemoveHostAgent
  BY <1>22, Operations DEF RemoveHostAgent, LeaveBehind, Return, Ground, Laid, BehindDropin,
         BehindQuiesce, BehindMdns, Part, DNSPart, units, resolver, context, history, Control,
         PartOf
<1>23. CASE UndoNext
  <2>1. PICK piece \in armed : PutBack(piece) \/ PutBackFails(piece)
    BY <1>23, NextPiece DEF UndoNext
  <2>2. /\ pc = "rollback" /\ pc' = "rollback" /\ armed' \subseteq armed
        /\ UNCHANGED <<receipt, op, target, undone>>
    BY <1>23 DEF UndoNext, context, history
  <2>3. "dnsmasq" \in masked => "dnsmasq" \in masked'
    BY <2>1 DEF PutBack, PutBackFails, UndoPackages, units, mdnsDaemonUnits
  <2>4. piece # "dns" => UNCHANGED <<files, stub>>
    BY <2>1 DEF PutBack, PutBackFails, resolver
  <2> QED
    BY <2>2, <2>3, <2>4, FailedGround DEF Ground, Laid
<1>24. CASE RollbackDone
  BY <1>24, Operations DEF RollbackDone, Return, Ground, Laid, BehindDropin, BehindQuiesce,
         BehindMdns, Part, DNSPart, units, resolver, context, history, Control, PartOf
<1>25. CASE StartCoreDNS
  BY <1>25, Operations DEF StartCoreDNS, environment, operation, history, Ground, Laid,
         BehindDropin, BehindQuiesce, BehindMdns, Part, DNSPart, units, resolver, context,
         history, Control, PartOf
<1>26. CASE StopCoreDNS
  BY <1>26, Operations DEF StopCoreDNS, environment, operation, history, Ground, Laid,
         BehindDropin, BehindQuiesce, BehindMdns, Part, DNSPart, units, resolver, context,
         history, Control, PartOf
<1>27. CASE ActivateBySocket
  BY <1>27, Operations DEF ActivateBySocket, environment, operation, history, Ground, Laid,
         BehindDropin, BehindQuiesce, BehindMdns, Part, DNSPart, units, resolver, context,
         history, Control, PartOf
<1>28. CASE Reboot
  BY <1>28, Operations DEF Reboot, environment, operation, history, Ground, Laid, BehindDropin,
         BehindQuiesce, BehindMdns, Part, DNSPart, units, resolver, context, history, Control,
         PartOf
<1>29. CASE Crash
  BY <1>29, Operations DEF Crash, LeaveBehind, Return, Ground, Laid, BehindDropin, BehindQuiesce,
         BehindMdns, Part, DNSPart, units, resolver, context, history, Control, PartOf
<1>30. ASSUME NEW o \in DOMAIN Path, NEW t \in SUBSET Feature, Begin(o, t) PROVE Ground'
  BY <1>30, BeginsWith, Operations DEF Begin, Ground, Laid, BehindDropin, BehindQuiesce, BehindMdns, Part, DNSPart, units, resolver, context, history, Control, PartOf
<1> QED
  BY <1>1, <1>2, <1>3, <1>4, <1>5, <1>6, <1>7, <1>8, <1>9, <1>10, <1>11, <1>12, <1>13, <1>14,
     <1>15, <1>16, <1>17, <1>18, <1>19, <1>20, <1>21, <1>22, <1>23, <1>24, <1>25, <1>26, <1>27,
     <1>28, <1>29, <1>30 DEF Next, Operation

\* Every step keeps an appliance without lan-discovery silent.
LEMMA NextSilence == TypeOK /\ Control /\ Remembered /\ Silence /\ Next => Silence'
<1> SUFFICES ASSUME TypeOK /\ Control /\ Remembered /\ Silence, Next PROVE Silence'
  OBVIOUS
<1>0. op \in DOMAIN Path /\ UnitsTyped
  BY DEF TypeOK, UnitsTyped
<1> USE <1>0
<1>1. CASE LowerPortFloor
  BY <1>1, GoesOnWith, Operations DEF LowerPortFloor, NoteChange, FailPrepare, Goto, Silence,
         Silent, BehindQuiesce, BehindMdns, Part, DNSPart, UnitsTyped, Nothing,
         mdnsDaemonUnits, Remembered, units, context, history, Control, PartOf
<1>2. CASE ReleaseStock
  BY <1>2, GoesOnWith, Operations DEF ReleaseStock, FailPrepare, Masked, conflictDaemonUnits,
         Silence, Silent, BehindQuiesce, BehindMdns, Part, DNSPart, UnitsTyped, Nothing,
         mdnsDaemonUnits, Remembered, units, context, history, Control, PartOf
<1>3. CASE DisableStub
  BY <1>3, GoesOnWith, Operations DEF DisableStub, NoteChange, FailPrepare, Silence, Silent,
         BehindQuiesce, BehindMdns, Part, DNSPart, UnitsTyped, Nothing, mdnsDaemonUnits,
         Remembered, units, context, history, Control, PartOf
<1>4. CASE LinkUplink
  BY <1>4, GoesOnWith, Operations DEF LinkUplink, FailRestored, Restored, RestoreFails,
         FailPrepare, Silence, Silent, BehindQuiesce, BehindMdns, Part, DNSPart, UnitsTyped,
         Nothing, mdnsDaemonUnits, Remembered, units, context, history, Control, PartOf
<1>5. CASE AwaitPort
  BY <1>5, GoesOnWith, Operations DEF AwaitPort, FailRestored, Restored, RestoreFails,
         FailPrepare, Masked, conflictDaemonUnits, Silence, Silent, BehindQuiesce, BehindMdns,
         Part, DNSPart, UnitsTyped, Nothing, mdnsDaemonUnits, Remembered, units, context,
         history, Control, PartOf
<1>6. CASE WriteHosts
  BY <1>6, GoesOnWith, Operations DEF WriteHosts, NoteChange, FailRestored, Restored,
         RestoreFails, FailPrepare, Silence, Silent, BehindQuiesce, BehindMdns, Part, DNSPart,
         UnitsTyped, Nothing, mdnsDaemonUnits, Remembered, units, context, history, Control,
         PartOf
<1>7. CASE Preflight
  BY <1>7, GoesOnWith, Operations DEF Preflight, Fail, Silence, Silent, BehindQuiesce, BehindMdns,
         Part, DNSPart, UnitsTyped, Nothing, mdnsDaemonUnits, Remembered, units, context,
         history, Control, PartOf
<1>8. CASE InstallPackages
  <2>1. /\ pc = "packages" /\ op \in {"install", "upgrade"} /\ "packages" \notin armed
        /\ UNCHANGED <<masked, receipt, op, target, armed, errs, intact>>
    BY <1>8, Operations
    DEF InstallPackages, Unpacked, Fail, history, Control, PartOf, context, Remembered, BehindMdns,
        DNSPart
  <2>2. before' = before \/ before'.running = ("avahi" \in active)
    BY <1>8 DEF InstallPackages, Fail
  <2>3. pc' \in {"quiesce", "rollback"}
    BY <1>8 DEF InstallPackages, Fail
  <2>4. ASSUME receipt # {}, "lan" \notin receipt, intact, ~errs
        PROVE  Silent /\ ~before.running /\ "avahi" \notin active
    BY <2>1, <2>4 DEF Silence, Silent, UnitsTyped, mdnsDaemonUnits
  <2> QED
    BY <2>1, <2>2, <2>3, <2>4 DEF Silence, Silent, BehindMdns, DNSPart
<1>9. CASE QuiesceConflicting
  BY <1>9, GoesOnWith, Operations DEF QuiesceConflicting, Fail, Quiesced, QuiesceFails, Masked,
         conflictDaemonUnits, Arm, Silence, Silent, BehindQuiesce, BehindMdns, Part, DNSPart,
         UnitsTyped, Nothing, mdnsDaemonUnits, Remembered, units, context, history, Control,
         PartOf
<1>10. CASE SettleMdns
  BY <1>10, GoesOnWith, Operations DEF SettleMdns, Fail, Quiesced, QuiesceFails, Masked,
         conflictDaemonUnits, Arm, FeatureRunning, FeatureFails, Silence, Silent,
         BehindQuiesce, BehindMdns, Part, DNSPart, UnitsTyped, Nothing, mdnsDaemonUnits,
         Remembered, units, context, history, Control, PartOf
<1>11. CASE StartK3s
  BY <1>11, GoesOnWith, Operations DEF StartK3s, Fail, Arm, LeaveBehind, Return, Silence, Silent,
         BehindQuiesce, BehindMdns, Part, DNSPart, UnitsTyped, Nothing, mdnsDaemonUnits,
         Remembered, units, context, history, Control, PartOf
<1>12. CASE InstallHostAgent
  <2>1. /\ pc = "agent" /\ op \in {"install", "upgrade"}
        /\ UNCHANGED <<units, receipt, op, target>>
    BY <1>12, Operations DEF InstallHostAgent, Control, PartOf, context
  <2>2. "packages" \in armed' <=> "packages" \in armed
    <3>1. armed' = armed \cup {"agent"} \/ armed' = armed
      BY <1>12, Zenon DEF InstallHostAgent, Arm
    <3> QED
      BY <3>1
  <2>3. CASE Done
    BY <2>1, <2>2, <2>3, GoesOnWith
    DEF Silence, Silent, BehindMdns, DNSPart, units
  <2>4. CASE Fail("failed")
    BY <2>1, <2>2, <2>4
    DEF Fail, Silence, Silent, BehindMdns, DNSPart, units
  <2> QED
    BY <1>12, <2>3, <2>4 DEF InstallHostAgent
<1>13. CASE DisableDay2
  BY <1>13, GoesOnWith, Operations DEF DisableDay2, Fail, Mdns, Silence, Silent, BehindQuiesce,
         BehindMdns, Part, DNSPart, UnitsTyped, Nothing, mdnsDaemonUnits, Remembered, units,
         context, history, Control, PartOf
<1>14. CASE AnnounceMdns
  BY <1>14, GoesOnWith, Operations DEF AnnounceMdns, Fail, Mdns, Silence, Silent, BehindQuiesce,
         BehindMdns, Part, DNSPart, UnitsTyped, Nothing, mdnsDaemonUnits, Remembered, units,
         context, history, Control, PartOf
<1>15. CASE ApplyDNS
  BY <1>15, GoesOnWith, Operations DEF ApplyDNS, Fail, Quiesced, QuiesceFails, Masked,
         conflictDaemonUnits, Silence, Silent, BehindQuiesce, BehindMdns, Part, DNSPart,
         UnitsTyped, Nothing, mdnsDaemonUnits, Remembered, units, context, history, Control,
         PartOf
<1>16. CASE AwaitDNS
  BY <1>16, GoesOnWith, Operations DEF AwaitDNS, Fail, Silence, Silent, BehindQuiesce, BehindMdns,
         Part, DNSPart, UnitsTyped, Nothing, mdnsDaemonUnits, Remembered, units, context,
         history, Control, PartOf
<1>17. CASE SaveReceipt
  BY <1>17, Operations DEF SaveReceipt, Fail, Return, Silence, Silent, BehindQuiesce, BehindMdns,
         Part, DNSPart, UnitsTyped, Nothing, mdnsDaemonUnits, Remembered, units, context,
         history, Control, PartOf
<1>18. CASE StopK3s
  BY <1>18, GoesOnWith, Operations DEF StopK3s, LeaveBehind, Return, Abandoned, Silence, Silent,
         BehindQuiesce, BehindMdns, Part, DNSPart, UnitsTyped, Nothing, mdnsDaemonUnits,
         Remembered, units, context, history, Control, PartOf
<1>19. CASE KillPods
  BY <1>19, GoesOnWith, Operations DEF KillPods, LeaveBehind, Return, Silence, Silent,
         BehindQuiesce, BehindMdns, Part, DNSPart, UnitsTyped, Nothing, mdnsDaemonUnits,
         Remembered, units, context, history, Control, PartOf
<1>20. CASE DropReceipt
  BY <1>20, GoesOnWith, Operations DEF DropReceipt, Silence, Silent, BehindQuiesce, BehindMdns,
         Part, DNSPart, UnitsTyped, Nothing, mdnsDaemonUnits, Remembered, units, context,
         history, Control, PartOf
<1>21. CASE RestoreHostDNS
  BY <1>21, GoesOnWith, Operations DEF RestoreHostDNS, Restored, RestoreFails, LeaveBehind, Return,
         Silence, Silent, BehindQuiesce, BehindMdns, Part, DNSPart, UnitsTyped, Nothing,
         mdnsDaemonUnits, Remembered, units, context, history, Control, PartOf
<1>22. CASE RemoveHostAgent
  BY <1>22, Operations DEF RemoveHostAgent, LeaveBehind, Return, Silence, Silent, BehindQuiesce,
         BehindMdns, Part, DNSPart, UnitsTyped, Nothing, mdnsDaemonUnits, Remembered, units,
         context, history, Control, PartOf
<1>23. CASE UndoNext
  BY <1>23, Operations DEF UndoNext, PutBack, PutBackFails, UndoPackages, UnitsOf, Restored,
         RestoreFails, Abandoned, CannotEnable, Silence, Silent, BehindQuiesce, BehindMdns,
         Part, DNSPart, UnitsTyped, Nothing, mdnsDaemonUnits, Remembered, units, context,
         history, Control, PartOf
<1>24. CASE RollbackDone
  BY <1>24, Operations DEF RollbackDone, Return, Silence, Silent, BehindQuiesce, BehindMdns, Part,
         DNSPart, UnitsTyped, Nothing, mdnsDaemonUnits, Remembered, units, context, history,
         Control, PartOf
<1>25. CASE StartCoreDNS
  BY <1>25, Operations DEF StartCoreDNS, environment, operation, history, Silence, Silent,
         BehindQuiesce, BehindMdns, Part, DNSPart, UnitsTyped, Nothing, mdnsDaemonUnits,
         Remembered, units, context, history, Control, PartOf
<1>26. CASE StopCoreDNS
  BY <1>26, Operations DEF StopCoreDNS, environment, operation, history, Silence, Silent,
         BehindQuiesce, BehindMdns, Part, DNSPart, UnitsTyped, Nothing, mdnsDaemonUnits,
         Remembered, units, context, history, Control, PartOf
<1>27. CASE ActivateBySocket
  BY <1>27, Operations DEF ActivateBySocket, environment, operation, history, Silence, Silent,
         BehindQuiesce, BehindMdns, Part, DNSPart, UnitsTyped, Nothing, mdnsDaemonUnits,
         Remembered, units, context, history, Control, PartOf
<1>28. CASE Reboot
  BY <1>28, Operations DEF Reboot, environment, operation, history, Silence, Silent, BehindQuiesce,
         BehindMdns, Part, DNSPart, UnitsTyped, Nothing, mdnsDaemonUnits, Remembered, units,
         context, history, Control, PartOf
<1>29. CASE Crash
  BY <1>29, Operations DEF Crash, LeaveBehind, Return, Silence, Silent, BehindQuiesce, BehindMdns,
         Part, DNSPart, UnitsTyped, Nothing, mdnsDaemonUnits, Remembered, units, context,
         history, Control, PartOf
<1>30. ASSUME NEW o \in DOMAIN Path, NEW t \in SUBSET Feature, Begin(o, t) PROVE Silence'
  BY <1>30, BeginsWith, Operations DEF Begin, Silence, Silent, BehindQuiesce, BehindMdns, Part, DNSPart, UnitsTyped, Nothing, mdnsDaemonUnits, units, context, history, Control, PartOf
<1> QED
  BY <1>1, <1>2, <1>3, <1>4, <1>5, <1>6, <1>7, <1>8, <1>9, <1>10, <1>11, <1>12, <1>13, <1>14,
     <1>15, <1>16, <1>17, <1>18, <1>19, <1>20, <1>21, <1>22, <1>23, <1>24, <1>25, <1>26, <1>27,
     <1>28, <1>29, <1>30 DEF Next, Operation

\* An operation that left everything behind remembers nothing.
LEMMA LeftBehind ==
    ASSUME Remembered, UNCHANGED units, op' \in DOMAIN Path,
           pc' = "idle", before' = Nothing, armed' = {}
    PROVE  Remembered'
BY Operations
DEF Nothing, Remembered, BehindPackages, BehindQuiesce, BehindMdns, Part, DNSPart, units

\* The rollback of the packages gives mDNS back as it was found.
LEMMA UndoneUnits ==
    ASSUME UnitsTyped, Remembered, UndoPackages
    PROVE  /\ (active' \cup enabled') \cap mdnsDaemonUnits # {} => "avahi" \in packages'
           /\ "lan" \in target =>
                 IF before.running THEN "avahi" \in active' ELSE "avahi" \notin active' /\ Silent'
<1> DEFINE asked == IF "lan" \in target THEN mdnsDaemonUnits ELSE {}
           started == IF before.running THEN asked ELSE {}
           quiet == asked \ started
           gone == {u \in Unit : \E p \in packages \ before.packages : u \in UnitsOf(p)}
<1>1. /\ packages' = before.packages
      /\ active' = (active \cup started) \ (quiet \cup gone)
      /\ masked' = (masked \cup quiet) \ started
      /\ enabled' = IF before.enabled THEN (enabled \cup started) \ (quiet \cup gone)
                    ELSE enabled \ (asked \cup gone)
  BY DEF UndoPackages
<1>2. before.running => "avahi" \in before.packages
  BY DEF Remembered
<1>3. ASSUME "avahi" \in before.packages PROVE "avahi" \notin gone
  BY <1>3 DEF UnitsOf, conflictDaemonUnits
<1>4. ASSUME "avahi" \in packages, "avahi" \notin before.packages
      PROVE  mdnsDaemonUnits \subseteq gone
  BY <1>4 DEF UnitsOf, Unit
<1>5. (active \cup enabled) \cap mdnsDaemonUnits # {} => "avahi" \in packages
  BY DEF Remembered
<1> HIDE DEF gone
<1>6. ASSUME "avahi" \notin before.packages
      PROVE  (active' \cup enabled') \cap mdnsDaemonUnits = {}
  BY <1>1, <1>2, <1>4, <1>5, <1>6
<1>7. ASSUME "lan" \in target, before.running PROVE "avahi" \in active'
  BY <1>1, <1>2, <1>3, <1>7 DEF mdnsDaemonUnits
<1>8. ASSUME "lan" \in target, ~before.running PROVE "avahi" \notin active' /\ Silent'
  BY <1>1, <1>8 DEF mdnsDaemonUnits, Silent
<1> QED
  BY <1>1, <1>6, <1>7, <1>8

\* Every step keeps what the rollback of the packages relies on.
LEMMA NextRemembered == TypeOK /\ Control /\ Remembered /\ Next => Remembered'
<1> SUFFICES ASSUME TypeOK /\ Control /\ Remembered, Next PROVE Remembered'
  OBVIOUS
<1>0. op \in DOMAIN Path /\ UnitsTyped
  BY DEF TypeOK, UnitsTyped
<1> USE <1>0
<1>1. CASE LowerPortFloor
  BY <1>1, GoesOnWith, Operations DEF LowerPortFloor, NoteChange, FailPrepare, Goto, Remembered,
         Silent, BehindPackages, BehindQuiesce, BehindMdns, Part, DNSPart, UnitsTyped, Nothing,
         Package, mdnsDaemonUnits, units, context, history, Control, PartOf
<1>2. CASE ReleaseStock
  BY <1>2, GoesOnWith, Operations DEF ReleaseStock, FailPrepare, Masked, conflictDaemonUnits,
         Remembered, Silent, BehindPackages, BehindQuiesce, BehindMdns, Part, DNSPart,
         UnitsTyped, Nothing, Package, mdnsDaemonUnits, units, context, history, Control,
         PartOf
<1>3. CASE DisableStub
  BY <1>3, GoesOnWith, Operations DEF DisableStub, NoteChange, FailPrepare, Remembered, Silent,
         BehindPackages, BehindQuiesce, BehindMdns, Part, DNSPart, UnitsTyped, Nothing,
         Package, mdnsDaemonUnits, units, context, history, Control, PartOf
<1>4. CASE LinkUplink
  BY <1>4, GoesOnWith, Operations DEF LinkUplink, FailRestored, Restored, RestoreFails,
         FailPrepare, Remembered, Silent, BehindPackages, BehindQuiesce, BehindMdns, Part,
         DNSPart, UnitsTyped, Nothing, Package, mdnsDaemonUnits, units, context, history,
         Control, PartOf
<1>5. CASE AwaitPort
  BY <1>5, GoesOnWith, Operations DEF AwaitPort, FailRestored, Restored, RestoreFails,
         FailPrepare, Masked, conflictDaemonUnits, Remembered, Silent, BehindPackages,
         BehindQuiesce, BehindMdns, Part, DNSPart, UnitsTyped, Nothing, Package,
         mdnsDaemonUnits, units, context, history, Control, PartOf
<1>6. CASE WriteHosts
  BY <1>6, GoesOnWith, Operations DEF WriteHosts, NoteChange, FailRestored, Restored,
         RestoreFails, FailPrepare, Remembered, Silent, BehindPackages, BehindQuiesce,
         BehindMdns, Part, DNSPart, UnitsTyped, Nothing, Package, mdnsDaemonUnits, units,
         context, history, Control, PartOf
<1>7. CASE Preflight
  BY <1>7, GoesOnWith, Operations DEF Preflight, Fail, Remembered, Silent, BehindPackages,
         BehindQuiesce, BehindMdns, Part, DNSPart, UnitsTyped, Nothing, Package,
         mdnsDaemonUnits, units, context, history, Control, PartOf
<1>8. CASE InstallPackages
  <2>1. /\ pc = "packages" /\ op \in {"install", "upgrade"} /\ "packages" \notin armed
        /\ ~before.noted /\ UNCHANGED <<op, armed>>
    BY <1>8, Operations
    DEF InstallPackages, Control, PartOf, context, Remembered, BehindPackages, BehindQuiesce,
        BehindMdns, DNSPart
  <2>2. (active' \cup enabled') \cap mdnsDaemonUnits # {} => "avahi" \in packages'
    <3>1. PICK new \in SUBSET Package : Unpacked(new)
      BY <1>8 DEF InstallPackages
    <3>2. packages' = packages \cup new
      BY <3>1 DEF Unpacked
    <3>3. \A u \in active' \cup enabled' :
             u \in active \cup enabled \/ \E p \in new : u \in UnitsOf(p)
      BY <3>1 DEF Unpacked
    <3>4. \A u \in mdnsDaemonUnits, p \in Package : u \in UnitsOf(p) => p = "avahi"
      BY DEF UnitsOf, mdnsDaemonUnits, conflictDaemonUnits
    <3> QED
      BY <3>2, <3>3, <3>4 DEF Remembered
  <2>3. CASE /\ packages' = packages \cup (Package \ packages)
             /\ before' = [noted |-> TRUE, packages |-> packages, agent |-> agent,
                           running |-> "avahi" \in active, enabled |-> "avahi" \in enabled]
             /\ pc' = "quiesce"
    BY <2>1, <2>2, <2>3
    DEF Remembered, BehindPackages, BehindQuiesce, BehindMdns, DNSPart, UnitsTyped, mdnsDaemonUnits
  <2>4. CASE Fail("failed")
    BY <2>1, <2>2, <2>4
    DEF Fail, Remembered, BehindPackages, BehindQuiesce, BehindMdns, DNSPart
  <2> QED
    BY <1>8, <2>3, <2>4 DEF InstallPackages, Unpacked
<1>9. CASE QuiesceConflicting
  BY <1>9, GoesOnWith, Operations DEF QuiesceConflicting, Fail, Quiesced, QuiesceFails, Masked,
         conflictDaemonUnits, Arm, Remembered, Silent, BehindPackages, BehindQuiesce,
         BehindMdns, Part, DNSPart, UnitsTyped, Nothing, Package, mdnsDaemonUnits, units,
         context, history, Control, PartOf
<1>10. CASE SettleMdns
  BY <1>10, GoesOnWith, Operations DEF SettleMdns, Fail, Quiesced, QuiesceFails, Masked,
         conflictDaemonUnits, Arm, FeatureRunning, FeatureFails, Remembered, Silent,
         BehindPackages, BehindQuiesce, BehindMdns, Part, DNSPart, UnitsTyped, Nothing,
         Package, mdnsDaemonUnits, units, context, history, Control, PartOf
<1>11. CASE StartK3s
  <2>1. /\ pc = "k3s" /\ op = "install" /\ "packages" \in armed /\ packages = Package
        /\ UNCHANGED <<units, op>>
    BY <1>11, Operations
    DEF StartK3s, Control, PartOf, context, Remembered, BehindPackages, BehindQuiesce, BehindMdns
  <2>2. CASE Done
    <3>1. "packages" \in armed'
      BY <1>11, <2>1, <2>2, GoesOnWith DEF StartK3s, Arm, Fail, LeaveBehind, Return
    <3> QED
      BY <2>1, <2>2, <3>1, GoesOnWith
      DEF Remembered, BehindPackages, BehindQuiesce, BehindMdns, DNSPart, units
  <2>3. CASE Fail("failed") /\ UNCHANGED armed
    BY <2>1, <2>3 DEF Fail, Remembered, BehindPackages, BehindQuiesce, BehindMdns, DNSPart, units
  <2>4. CASE LeaveBehind("failed")
    BY <2>1, <2>4, LeftBehind DEF LeaveBehind, Return
  <2> QED
    BY <1>11, <2>2, <2>3, <2>4 DEF StartK3s
<1>12. CASE InstallHostAgent
  <2>1. /\ pc = "agent" /\ op \in {"install", "upgrade"}
        /\ UNCHANGED <<units, receipt, op, target>>
    BY <1>12, Operations DEF InstallHostAgent, Control, PartOf, context
  <2>2. "packages" \in armed' <=> "packages" \in armed
    <3>1. armed' = armed \cup {"agent"} \/ armed' = armed
      BY <1>12, Zenon DEF InstallHostAgent, Arm
    <3> QED
      BY <3>1
  <2>3. CASE Done
    BY <2>1, <2>2, <2>3, GoesOnWith
    DEF Remembered, BehindPackages, BehindQuiesce, BehindMdns, DNSPart,
        units
  <2>4. CASE Fail("failed")
    BY <2>1, <2>2, <2>4
    DEF Fail, Remembered, BehindPackages, BehindQuiesce, BehindMdns, DNSPart,
        units
  <2> QED
    BY <1>12, <2>3, <2>4 DEF InstallHostAgent
<1>13. CASE DisableDay2
  BY <1>13, GoesOnWith, Operations DEF DisableDay2, Fail, Mdns, Remembered, Silent, BehindPackages,
         BehindQuiesce, BehindMdns, Part, DNSPart, UnitsTyped, Nothing, Package,
         mdnsDaemonUnits, units, context, history, Control, PartOf
<1>14. CASE AnnounceMdns
  BY <1>14, GoesOnWith, Operations DEF AnnounceMdns, Fail, Mdns, Remembered, Silent,
         BehindPackages, BehindQuiesce, BehindMdns, Part, DNSPart, UnitsTyped, Nothing,
         Package, mdnsDaemonUnits, units, context, history, Control, PartOf
<1>15. CASE ApplyDNS
  BY <1>15, GoesOnWith, Operations DEF ApplyDNS, Fail, Quiesced, QuiesceFails, Masked,
         conflictDaemonUnits, Remembered, Silent, BehindPackages, BehindQuiesce, BehindMdns,
         Part, DNSPart, UnitsTyped, Nothing, Package, mdnsDaemonUnits, units, context, history,
         Control, PartOf
<1>16. CASE AwaitDNS
  BY <1>16, GoesOnWith, Operations DEF AwaitDNS, Fail, Remembered, Silent, BehindPackages,
         BehindQuiesce, BehindMdns, Part, DNSPart, UnitsTyped, Nothing, Package,
         mdnsDaemonUnits, units, context, history, Control, PartOf
<1>17. CASE SaveReceipt
  BY <1>17, Operations DEF SaveReceipt, Fail, Return, Remembered, Silent, BehindPackages,
         BehindQuiesce, BehindMdns, Part, DNSPart, UnitsTyped, Nothing, Package,
         mdnsDaemonUnits, units, context, history, Control, PartOf
<1>18. CASE StopK3s
  BY <1>18, GoesOnWith, Operations DEF StopK3s, LeaveBehind, Return, Abandoned, Remembered, Silent,
         BehindPackages, BehindQuiesce, BehindMdns, Part, DNSPart, UnitsTyped, Nothing,
         Package, mdnsDaemonUnits, units, context, history, Control, PartOf
<1>19. CASE KillPods
  BY <1>19, GoesOnWith, Operations DEF KillPods, LeaveBehind, Return, Remembered, Silent,
         BehindPackages, BehindQuiesce, BehindMdns, Part, DNSPart, UnitsTyped, Nothing,
         Package, mdnsDaemonUnits, units, context, history, Control, PartOf
<1>20. CASE DropReceipt
  BY <1>20, GoesOnWith, Operations DEF DropReceipt, Remembered, Silent, BehindPackages,
         BehindQuiesce, BehindMdns, Part, DNSPart, UnitsTyped, Nothing, Package,
         mdnsDaemonUnits, units, context, history, Control, PartOf
<1>21. CASE RestoreHostDNS
  BY <1>21, GoesOnWith, Operations DEF RestoreHostDNS, Restored, RestoreFails, LeaveBehind, Return,
         Remembered, Silent, BehindPackages, BehindQuiesce, BehindMdns, Part, DNSPart,
         UnitsTyped, Nothing, Package, mdnsDaemonUnits, units, context, history, Control,
         PartOf
<1>22. CASE RemoveHostAgent
  BY <1>22, LeftBehind DEF RemoveHostAgent, LeaveBehind, Return, context
<1>23. CASE UndoNext
  <2>1. PICK piece \in armed : /\ armed' = armed \ {piece}
                               /\ \/ PutBack(piece) /\ errs' = (errs \/ (piece = "packages" /\ CannotEnable))
                                  \/ PutBackFails(piece) /\ errs' = TRUE
    BY <1>23, NextPiece DEF UndoNext
  <2>2. pc = "rollback" /\ UNCHANGED <<op, target, pc, before>>
    BY <1>23 DEF UndoNext, context
  <2>3. CASE UNCHANGED units /\ (errs' \/ piece # "packages")
    <3>1. ~errs' => ~errs
      BY <2>1
    <3>2. ~errs' /\ "packages" \notin armed' => "packages" \notin armed
      BY <2>1, <2>3
    <3> QED
      BY <2>2, <2>3, <3>1, <3>2, Operations
      DEF Remembered, BehindPackages, BehindQuiesce, BehindMdns, Silent, DNSPart, units
  <2>4. CASE piece = "packages" /\ UndoPackages
    BY <2>2, <2>4, UndoneUnits, Operations
    DEF Remembered, BehindPackages, BehindQuiesce, BehindMdns, DNSPart
  <2> QED
    BY <2>1, <2>3, <2>4 DEF PutBack, PutBackFails
<1>24. CASE RollbackDone
  BY <1>24, Operations DEF RollbackDone, Return, Remembered, Silent, BehindPackages, BehindQuiesce,
         BehindMdns, Part, DNSPart, UnitsTyped, Nothing, Package, mdnsDaemonUnits, units,
         context, history, Control, PartOf
<1>25. CASE StartCoreDNS
  BY <1>25, Operations DEF StartCoreDNS, environment, operation, history, Remembered, Silent,
         BehindPackages, BehindQuiesce, BehindMdns, Part, DNSPart, UnitsTyped, Nothing,
         Package, mdnsDaemonUnits, units, context, history, Control, PartOf
<1>26. CASE StopCoreDNS
  BY <1>26, Operations DEF StopCoreDNS, environment, operation, history, Remembered, Silent,
         BehindPackages, BehindQuiesce, BehindMdns, Part, DNSPart, UnitsTyped, Nothing,
         Package, mdnsDaemonUnits, units, context, history, Control, PartOf
<1>27. CASE ActivateBySocket
  BY <1>27, Operations DEF ActivateBySocket, environment, operation, history, Remembered, Silent,
         BehindPackages, BehindQuiesce, BehindMdns, Part, DNSPart, UnitsTyped, Nothing,
         Package, mdnsDaemonUnits, units, context, history, Control, PartOf
<1>28. CASE Reboot
  BY <1>28, Operations DEF Reboot, environment, operation, history, Remembered, Silent,
         BehindPackages, BehindQuiesce, BehindMdns, Part, DNSPart, UnitsTyped, Nothing,
         Package, mdnsDaemonUnits, units, context, history, Control, PartOf
<1>29. CASE Crash
  BY <1>29, Operations DEF Crash, LeaveBehind, Return, Remembered, Silent, BehindPackages,
         BehindQuiesce, BehindMdns, Part, DNSPart, UnitsTyped, Nothing, Package,
         mdnsDaemonUnits, units, context, history, Control, PartOf
<1>30. ASSUME NEW o \in DOMAIN Path, NEW t \in SUBSET Feature, Begin(o, t) PROVE Remembered'
  BY <1>30, BeginsWith, Operations DEF Begin, Remembered, Silent, BehindPackages, BehindQuiesce, BehindMdns, Part, DNSPart, UnitsTyped, Nothing, Package, mdnsDaemonUnits, units, context, history, Control, PartOf
<1> QED
  BY <1>1, <1>2, <1>3, <1>4, <1>5, <1>6, <1>7, <1>8, <1>9, <1>10, <1>11, <1>12, <1>13, <1>14,
     <1>15, <1>16, <1>17, <1>18, <1>19, <1>20, <1>21, <1>22, <1>23, <1>24, <1>25, <1>26, <1>27,
     <1>28, <1>29, <1>30 DEF Next, Operation

\* Every step leaves the stock dnsmasq masked once it is.
LEMMA StaysMasked == TypeOK /\ Control /\ Next /\ "dnsmasq" \in masked => "dnsmasq" \in masked'
<1> SUFFICES ASSUME TypeOK /\ Control, Next, "dnsmasq" \in masked PROVE "dnsmasq" \in masked'
  OBVIOUS
<1> USE DEF units, Masked, Quiesced, QuiesceFails
<1>1. CASE LowerPortFloor \/ ReleaseStock \/ DisableStub \/ LinkUplink \/ AwaitPort \/ WriteHosts
  BY <1>1 DEF LowerPortFloor, ReleaseStock, DisableStub, LinkUplink, AwaitPort, WriteHosts
<1>2. CASE Preflight \/ InstallPackages \/ QuiesceConflicting
  BY <1>2 DEF Preflight, InstallPackages, Unpacked, QuiesceConflicting
<1>3. CASE SettleMdns
  BY <1>3 DEF SettleMdns, FeatureRunning, FeatureFails, mdnsDaemonUnits
<1>4. CASE StartK3s \/ InstallHostAgent \/ DisableDay2 \/ AnnounceMdns
  BY <1>4 DEF StartK3s, InstallHostAgent, DisableDay2, AnnounceMdns, Mdns, mdnsDaemonUnits
<1>5. CASE ApplyDNS \/ AwaitDNS \/ SaveReceipt \/ RollbackDone
  BY <1>5 DEF ApplyDNS, AwaitDNS, SaveReceipt, RollbackDone
<1>6. CASE StopK3s \/ KillPods \/ DropReceipt \/ RestoreHostDNS \/ RemoveHostAgent
  BY <1>6 DEF StopK3s, KillPods, DropReceipt, RestoreHostDNS, RemoveHostAgent
<1>7. CASE UndoNext
  <2>1. PICK piece \in armed : PutBack(piece) \/ PutBackFails(piece)
    BY <1>7, NextPiece DEF UndoNext
  <2> QED
    BY <2>1 DEF PutBack, PutBackFails, UndoPackages, mdnsDaemonUnits
<1>8. CASE StartCoreDNS \/ StopCoreDNS \/ ActivateBySocket \/ Reboot \/ Crash
  BY <1>8 DEF StartCoreDNS, StopCoreDNS, ActivateBySocket, Reboot, Crash
<1>9. CASE \E o \in DOMAIN Path, t \in SUBSET Feature : Begin(o, t)
  BY <1>9 DEF Begin
<1> QED
  BY <1>1, <1>2, <1>3, <1>4, <1>5, <1>6, <1>7, <1>8, <1>9 DEF Next, Operation

\* Over a free mask the stub has the port: no drop-in, no CoreDNS, no dnsmasq.
StubReigns ==
    /\ stub /\ "dropin" \notin files /\ coredns = "none"
    /\ "dnsmasq" \notin active /\ pc # "dropin"

\* Every step keeps the stock dnsmasq from running.
LEMMA NextQuiet == TypeOK /\ Control /\ Quiet /\ Next => Quiet'
<1> SUFFICES ASSUME TypeOK /\ Control /\ Quiet, Next PROVE Quiet'
  OBVIOUS
<1>0. op \in DOMAIN Path /\ TypeOK'
  BY NextTypes DEF TypeOK
<1> USE <1>0
<1>1. CASE "dnsmasq" \in masked'
  BY <1>1 DEF TypeOK, Quiet
<1>2. CASE "dnsmasq" \notin masked'
  <2>1. "dnsmasq" \notin masked /\ StubReigns
    BY <1>2, StaysMasked DEF Quiet, StubReigns
  <2> SUFFICES StubReigns'
    BY DEF Quiet, StubReigns
  <2> USE <1>2, <2>1 DEF StubReigns, units, resolver, cluster, context
  <2>2. CASE LowerPortFloor
    BY <2>2, GoesOnWith DEF LowerPortFloor, Goto, FailPrepare
  <2>3. CASE ReleaseStock
    BY <2>3 DEF ReleaseStock, Masked, conflictDaemonUnits, FailPrepare
  <2>4. CASE DisableStub
    BY <2>4 DEF DisableStub, FailPrepare
  <2>5. CASE LinkUplink
    BY <2>5, GoesOnWith DEF LinkUplink, FailRestored, Restored, RestoreFails, StubMayListen,
           FailPrepare
  <2>6. CASE AwaitPort
    BY <2>6 DEF AwaitPort, Masked, conflictDaemonUnits, portConflictOnWildcard53
  <2>7. CASE WriteHosts
    <3>1. CASE Done /\ files' = files \cup {"hosts"} /\ UNCHANGED stub
      BY <2>7, <3>1, GoesOnWith DEF WriteHosts
    <3>2. CASE FailRestored
      BY <2>7, <3>2 DEF WriteHosts, FailRestored, Restored, RestoreFails, StubMayListen, FailPrepare
    <3> QED
      BY <2>7, <3>1, <3>2 DEF WriteHosts
  <2>8. CASE Preflight
    BY <2>8, GoesOnWith DEF Preflight, Fail
  <2>9. CASE InstallPackages
    BY <2>9 DEF InstallPackages, Fail, Unpacked, portConflictOnWildcard53
  <2>10. CASE QuiesceConflicting
    BY <2>10, GoesOnWith DEF QuiesceConflicting, Fail, Quiesced, QuiesceFails, Masked
  <2>11. CASE SettleMdns
    BY <2>11, GoesOnWith, Operations DEF SettleMdns, Fail, FeatureRunning, FeatureFails, Quiesced,
           QuiesceFails, Masked, mdnsDaemonUnits
  <2>12. CASE StartK3s
    BY <2>12, GoesOnWith DEF StartK3s, Fail, LeaveBehind, Return
  <2>13. CASE InstallHostAgent
    BY <2>13, GoesOnWith, Operations DEF InstallHostAgent, Fail
  <2>14. CASE DisableDay2
    BY <2>14, GoesOnWith, Operations DEF DisableDay2, Fail, Mdns, mdnsDaemonUnits
  <2>15. CASE AnnounceMdns
    BY <2>15, GoesOnWith, Operations DEF AnnounceMdns, Fail, Mdns, mdnsDaemonUnits
  <2>16. CASE ApplyDNS
    BY <2>16, GoesOnWith DEF ApplyDNS, Fail, Quiesced, QuiesceFails, Masked
  <2>17. CASE AwaitDNS
    BY <2>17, GoesOnWith DEF AwaitDNS, Fail
  <2>18. CASE SaveReceipt
    BY <2>18 DEF SaveReceipt, Fail, Return
  <2>19. CASE StopK3s
    BY <2>19, GoesOnWith DEF StopK3s, LeaveBehind, Return, Abandoned
  <2>20. CASE KillPods
    BY <2>20, GoesOnWith DEF KillPods, LeaveBehind, Return
  <2>21. CASE DropReceipt
    BY <2>21, GoesOnWith DEF DropReceipt
  <2>22. CASE RestoreHostDNS
    BY <2>22, GoesOnWith DEF RestoreHostDNS, Restored, RestoreFails, StubMayListen, LeaveBehind, Return
  <2>23. CASE RemoveHostAgent
    BY <2>23 DEF RemoveHostAgent, LeaveBehind, Return
  <2>24. CASE UndoNext
    <3>1. PICK piece \in armed : PutBack(piece) \/ PutBackFails(piece)
      BY <2>24, NextPiece DEF UndoNext
    <3>2. pc' = "rollback"
      BY <2>24 DEF UndoNext
    <3>3. "dnsmasq" \notin active'
      BY <3>1 DEF PutBack, PutBackFails, UndoPackages, mdnsDaemonUnits
    <3>4. stub' /\ "dropin" \notin files' /\ coredns' = "none"
      BY <3>1 DEF PutBack, PutBackFails, Restored, RestoreFails, StubMayListen, Abandoned
    <3> QED
      BY <3>2, <3>3, <3>4
  <2>25. CASE RollbackDone
    BY <2>25 DEF RollbackDone, Return
  <2>26. CASE StartCoreDNS
    BY <2>26 DEF StartCoreDNS, portConflictOnWildcard53
  <2>27. CASE StopCoreDNS
    BY <2>27 DEF StopCoreDNS
  <2>28. CASE ActivateBySocket
    BY <2>28 DEF ActivateBySocket, operation
  <2>29. CASE Reboot
    BY <2>29 DEF Reboot, operation
  <2>30. CASE Crash
    BY <2>30 DEF Crash, LeaveBehind, Return
  <2>31. ASSUME NEW o \in DOMAIN Path, NEW t \in SUBSET Feature, Begin(o, t) PROVE StubReigns'
    BY <2>31, BeginsWith, Operations DEF Begin
  <2> QED
    BY <2>2, <2>3, <2>4, <2>5, <2>6, <2>7, <2>8, <2>9, <2>10, <2>11, <2>12, <2>13, <2>14, <2>15,
       <2>16, <2>17, <2>18, <2>19, <2>20, <2>21, <2>22, <2>23, <2>24, <2>25, <2>26, <2>27, <2>28,
       <2>29, <2>30, <2>31 DEF Next, Operation
<1> QED
  BY <1>1, <1>2

\* Every step keeps what an uninstall has done.
LEMMA NextLeft == TypeOK /\ Control /\ Quiet /\ Left /\ Next => Left'
<1> SUFFICES ASSUME TypeOK /\ Control /\ Quiet /\ Left, Next PROVE Left'
  OBVIOUS
<1>0. op \in DOMAIN Path /\ UnitsTyped
  BY DEF TypeOK, UnitsTyped
<1> USE <1>0
<1>1. CASE LowerPortFloor
  BY <1>1, GoesOnWith, Operations DEF LowerPortFloor, NoteChange, FailPrepare, Goto, Left, Given,
         Part, units, resolver, cluster, context, history, Control, PartOf
<1>2. CASE ReleaseStock
  BY <1>2, GoesOnWith, Operations DEF ReleaseStock, FailPrepare, Masked, conflictDaemonUnits,
         Left, Given, Part, units, resolver, cluster, context, history, Control, PartOf
<1>3. CASE DisableStub
  BY <1>3, GoesOnWith, Operations DEF DisableStub, NoteChange, FailPrepare, Left, Given, Part,
         units, resolver, cluster, context, history, Control, PartOf
<1>4. CASE LinkUplink
  BY <1>4, GoesOnWith, Operations DEF LinkUplink, FailRestored, Restored, RestoreFails,
         FailPrepare, Left, Given, Part, units, resolver, cluster, context, history, Control,
         PartOf
<1>5. CASE AwaitPort
  BY <1>5, GoesOnWith, Operations DEF AwaitPort, FailRestored, Restored, RestoreFails,
         FailPrepare, Masked, conflictDaemonUnits, Left, Given, Part, units, resolver, cluster,
         context, history, Control, PartOf
<1>6. CASE WriteHosts
  BY <1>6, GoesOnWith, Operations DEF WriteHosts, NoteChange, FailRestored, Restored,
         RestoreFails, FailPrepare, Left, Given, Part, units, resolver, cluster, context,
         history, Control, PartOf
<1>7. CASE Preflight
  BY <1>7, GoesOnWith, Operations DEF Preflight, Fail, Left, Given, Part, units, resolver,
         cluster, context, history, Control, PartOf
<1>8. CASE InstallPackages
  BY <1>8, Operations DEF InstallPackages, Fail, Unpacked, UnitsOf, Left, Given, Part, units,
         resolver, cluster, context, history, Control, PartOf
<1>9. CASE QuiesceConflicting
  BY <1>9, GoesOnWith, Operations DEF QuiesceConflicting, Fail, Quiesced, QuiesceFails, Masked,
         conflictDaemonUnits, Arm, Left, Given, Part, units, resolver, cluster, context,
         history, Control, PartOf
<1>10. CASE SettleMdns
  BY <1>10, GoesOnWith, Operations DEF SettleMdns, Fail, Quiesced, QuiesceFails, Masked,
         conflictDaemonUnits, Arm, FeatureRunning, FeatureFails, Left, Given, Part, units,
         resolver, cluster, context, history, Control, PartOf
<1>11. CASE StartK3s
  BY <1>11, GoesOnWith, Operations DEF StartK3s, Fail, Arm, LeaveBehind, Return, Left, Given, Part,
         units, resolver, cluster, context, history, Control, PartOf
<1>12. CASE InstallHostAgent
  BY <1>12, GoesOnWith, Operations DEF InstallHostAgent, Fail, Arm, Left, Given, Part, units,
         resolver, cluster, context, history, Control, PartOf
<1>13. CASE DisableDay2
  <2>1. pc = "day2" /\ UNCHANGED <<files, link, stub, op>>
    BY <1>13 DEF DisableDay2, resolver, context
  <2>2. CASE op = "uninstall"
    BY <1>13, <2>1, <2>2, GoesOnWith, Operations DEF DisableDay2, Left, Given
  <2> QED
    BY <2>1, <2>2 DEF Left
<1>14. CASE AnnounceMdns
  BY <1>14, GoesOnWith, Operations DEF AnnounceMdns, Fail, Mdns, Left, Given, Part, units,
         resolver, cluster, context, history, Control, PartOf
<1>15. CASE ApplyDNS
  BY <1>15, GoesOnWith, Operations DEF ApplyDNS, Fail, Quiesced, QuiesceFails, Masked,
         conflictDaemonUnits, Left, Given, Part, units, resolver, cluster, context, history,
         Control, PartOf
<1>16. CASE AwaitDNS
  BY <1>16, GoesOnWith, Operations DEF AwaitDNS, Fail, Left, Given, Part, units, resolver, cluster,
         context, history, Control, PartOf
<1>17. CASE SaveReceipt
  BY <1>17, Operations DEF SaveReceipt, Fail, Return, Left, Given, Part, units, resolver, cluster,
         context, history, Control, PartOf
<1>18. CASE StopK3s
  BY <1>18, GoesOnWith, Operations DEF StopK3s, LeaveBehind, Return, Abandoned, Left, Given, Part,
         units, resolver, cluster, context, history, Control, PartOf
<1>19. CASE KillPods
  BY <1>19, GoesOnWith, Operations DEF KillPods, LeaveBehind, Return, Left, Given, Part, units,
         resolver, cluster, context, history, Control, PartOf
<1>20. CASE DropReceipt
  BY <1>20, GoesOnWith, Operations DEF DropReceipt, Left, Given, Part, units, resolver, cluster,
         context, history, Control, PartOf
<1>21. CASE RestoreHostDNS
  <2>1. pc = "restore" /\ UNCHANGED <<units, coredns, op>>
    BY <1>21 DEF RestoreHostDNS, cluster, context
  <2>2. ASSUME op = "uninstall", Restored PROVE Given'
    BY <2>1, <2>2 DEF Restored, StubMayListen, Left, Given, Quiet
  <2>3. CASE Restored /\ Done
    BY <2>1, <2>2, <2>3, GoesOnWith DEF Left
  <2>4. CASE LeaveBehind("failed")
    BY <2>1, <2>4 DEF LeaveBehind, Return, Left
  <2> QED
    BY <1>21, <2>3, <2>4 DEF RestoreHostDNS
<1>22. CASE RemoveHostAgent
  BY <1>22, Operations DEF RemoveHostAgent, LeaveBehind, Return, Left, Given, Part, units,
         resolver, cluster, context, history, Control, PartOf
<1>23. CASE UndoNext
  BY <1>23, Operations DEF UndoNext, PutBack, PutBackFails, UndoPackages, UnitsOf, Restored,
         RestoreFails, Abandoned, CannotEnable, Left, Given, Part, units, resolver, cluster,
         context, history, Control, PartOf
<1>24. CASE RollbackDone
  BY <1>24, Operations DEF RollbackDone, Return, Left, Given, Part, units, resolver, cluster,
         context, history, Control, PartOf
<1>25. CASE StartCoreDNS
  BY <1>25, Operations DEF StartCoreDNS, environment, operation, history, Left, Given, Part, units,
         resolver, cluster, context, history, Control, PartOf
<1>26. CASE StopCoreDNS
  BY <1>26, Operations DEF StopCoreDNS, environment, operation, history, Left, Given, Part, units,
         resolver, cluster, context, history, Control, PartOf
<1>27. CASE ActivateBySocket
  BY <1>27, Operations DEF ActivateBySocket, environment, operation, history, Left, Given, Part,
         units, resolver, cluster, context, history, Control, PartOf
<1>28. CASE Reboot
  BY <1>28, Operations DEF Reboot, environment, operation, history, Left, Given, Part, units,
         resolver, cluster, context, history, Control, PartOf
<1>29. CASE Crash
  BY <1>29, Operations DEF Crash, LeaveBehind, Return, Left, Given, Part, units, resolver, cluster,
         context, history, Control, PartOf
<1>30. ASSUME NEW o \in DOMAIN Path, NEW t \in SUBSET Feature, Begin(o, t) PROVE Left'
  BY <1>30, BeginsWith, Operations DEF Begin, Left, Given, Part, units, resolver, cluster, context, history, Control, PartOf
<1> QED
  BY <1>1, <1>2, <1>3, <1>4, <1>5, <1>6, <1>7, <1>8, <1>9, <1>10, <1>11, <1>12, <1>13, <1>14,
     <1>15, <1>16, <1>17, <1>18, <1>19, <1>20, <1>21, <1>22, <1>23, <1>24, <1>25, <1>26, <1>27,
     <1>28, <1>29, <1>30 DEF Next, Operation

-----------------------------------------------------------------------------
(* The theorems.                                                           *)

\* A host as it was before anything ran satisfies the invariant.
LEMMA HostBegins == Init => HostInv
<1> SUFFICES ASSUME Init PROVE HostInv
  OBVIOUS
<1>1. TypeOK
  <2>1. UnitsTyped
    BY DEF Init, UnitsTyped, Package, Unit
  <2>2. HostTyped /\ NoteTyped
    BY NothingTyped DEF Init, HostTyped, NoteTyped
  <2>3. OperationTyped
    <3>1. op \in DOMAIN Path /\ runs \in 0..MaxRuns /\ boots \in 0..MaxBoots
      BY BoundAssumption, Operations DEF Init
    <3> QED
      BY <3>1 DEF Init, OperationTyped
  <2>4. pc \in Label
    BY DEF Init, Label
  <2> QED
    BY <2>1, <2>2, <2>3, <2>4, TypesOfGroups
<1>2. Control
  BY DEF Init, Control, DNSPart
<1>3. Ground /\ Silence
  BY DEF Init, Ground, Silence, BehindDropin, BehindQuiesce, BehindMdns, DNSPart
<1>4. Remembered
  BY DEF Init, Remembered, BehindPackages, BehindQuiesce, BehindMdns, Nothing
<1>5. Left
  BY DEF Init, Left, Given
<1>6. Quiet
  BY DEF Init, Quiet, mdnsDaemonUnits
<1> QED
  BY <1>1, <1>2, <1>3, <1>4, <1>5, <1>6 DEF HostInv

\* Nothing the invariant speaks of changes in a stuttering step.
LEMMA HostStutters == HostInv /\ UNCHANGED vars => HostInv'
<1> SUFFICES ASSUME HostInv, UNCHANGED vars PROVE HostInv'
  OBVIOUS
<1> USE DEF vars, units, resolver, cluster, context
<1>1. TypeOK'
  BY DEF HostInv, TypeOK
<1>2. Control'
  BY DEF HostInv, Control
<1>3. Ground'
  BY DEF HostInv, Ground, Laid, BehindDropin, BehindQuiesce, BehindMdns
<1>4. Silence'
  BY DEF HostInv, Silence, Silent, BehindMdns
<1>5. Remembered'
  BY DEF HostInv, Remembered, Silent, BehindPackages, BehindQuiesce, BehindMdns
<1>6. Left'
  BY DEF HostInv, Left, Given
<1>7. Quiet'
  BY DEF HostInv, Quiet
<1> QED
  BY <1>1, <1>2, <1>3, <1>4, <1>5, <1>6, <1>7 DEF HostInv

\* Whatever fails, dies or reboots: every state is typed, has its ground for LAN
\* DNS, the masks of mDNS and what its rollback needs.
THEOREM HostInvariant == Spec => []HostInv
<1>1. HostInv /\ Next => HostInv'
  BY NextTypes, NextControl, NextGround, NextSilence, NextRemembered, NextLeft, NextQuiet
     DEF HostInv
<1>2. HostInv /\ [Next]_vars => HostInv'
  BY <1>1, HostStutters
<1> QED
  BY HostBegins, <1>2, PTL DEF Spec

\* The variables keep their types, and a masked unit does not run.
THEOREM TypeCorrect == Spec => []TypeOK
<1>1. HostInv => TypeOK
  BY DEF HostInv
<1> QED
  BY <1>1, HostInvariant, PTL

\* On an appliance with LAN DNS neither the stub of resolved nor a stock daemon
\* takes the port of CoreDNS, unless a Prepare that failed gave it away.
THEOREM DNSPortTheorem == Spec => []DNSKeepsItsPort
<1>1. HostInv => DNSKeepsItsPort
  BY DEF HostInv, Ground, Laid, TypeOK, DNSKeepsItsPort
<1> QED
  BY <1>1, HostInvariant, PTL

\* An appliance without lan-discovery runs no mDNS between two operations.
THEOREM MdnsOffTheorem == Spec => []MdnsOffStaysOff
<1>1. HostInv => MdnsOffStaysOff
  BY DEF HostInv, Control, Silence, Silent, TypeOK, MdnsOffStaysOff
<1> QED
  BY <1>1, HostInvariant, PTL

\* An uninstall that succeeded leaves the host asking the stub of resolved, which
\* is served.
THEOREM DNSBackTheorem == Spec => []UninstallGivesDNSBack
<1>1. HostInv => UninstallGivesDNSBack
  BY DEF HostInv, Left, Given, UninstallGivesDNSBack
<1> QED
  BY <1>1, HostInvariant, PTL

\* A rollback without errors ends with mDNS running exactly if it ran before dpkg.
THEOREM RestoresMdnsTheorem == Spec => RollbackRestoresMdns
<1>1. HostInv /\ [Next]_vars =>
        [RollbackDone /\ ~errs /\ "lan" \in target /\ before.noted =>
            ("avahi" \in active) = before.running]_vars
  <2> SUFFICES ASSUME HostInv, RollbackDone, ~errs, "lan" \in target, before.noted
               PROVE  ("avahi" \in active) = before.running
    OBVIOUS
  <2>1. before.running \in BOOLEAN
    BY DEF HostInv, TypeOK
  <2>2. IF before.running THEN "avahi" \in active ELSE "avahi" \notin active
    BY DEF HostInv, Remembered, RollbackDone
  <2> QED
    BY <2>1, <2>2
<1> QED
  BY <1>1, HostInvariant, PTL DEF Spec, RollbackRestoresMdns

=============================================================================
