--------------------------- MODULE InstallProofs ---------------------------
(***************************************************************************)
(* Theorems about the fresh install, for every profile, every set of       *)
(* stubborn rollbacks and any number of attempts.                          *)
(*                                                                         *)
(*   TypeCorrect: the types of every variable.  Its strengthening says     *)
(*     that a goroutine of a rollout set always has work left, so that     *)
(*     Head and Tail are defined.                                          *)
(*   DatabaseKeptTheorem: an install never loses an older database.        *)
(*   ForeignIsAskedTheorem: foreign workloads are taken over only by force.*)
(*   OrderlyUndoTheorem: a rollback that needs K3s finds it running.       *)
(*   InstalledTheorem: an install reported as done is complete.            *)
(*   CleanFailureTheorem: one reported as rolled back has left nothing.    *)
(*                                                                         *)
(* The two about the gate rest on what it lets through (DatabaseInv and    *)
(* ForeignInv); the next on the order of the stack (StackInv); the next on *)
(* what the labels of the way forward stand for (Forward); the last on     *)
(* every piece having its rollback (ArmedInv) and on that of K3s lying     *)
(* above that of the database directory (StartedInv).                      *)
(***************************************************************************)
EXTENDS Install, SequenceTheorems, TLAPS

\* The pieces below K3s, in it, and the two other rollbacks are apart.
LEMMA Apart ==
    /\ InCluster \cap OnHost = {}
    /\ "k3s" \notin Piece /\ "database" \notin Piece
    /\ Chart \subseteq InCluster
    /\ "database" \notin InCluster /\ "k3s" \notin InCluster
BY DEF InCluster, OnHost, Piece, Chart, Optional

\* The steps of an install, of a teardown and the rest have different names.
LEMMA Labels ==
    /\ DOMAIN Barrier = {"logs", "features"}
    /\ DOMAIN Duty = {"packages", "images", "pullsecrets", "agent", "replicas", "tls", "keys",
                      "zonctl"}
    /\ DOMAIN After = {"system", "apps"}
    /\ DOMAIN Rollout = {"infra", "sets"}
BY DEF Barrier, Duty, After, Rollout

\* The steps of an install and of a teardown, in full.
LEMMA Steps ==
    /\ Install = {"logs", "features", "packages", "images", "pullsecrets", "agent", "replicas",
                  "tls", "keys", "zonctl", "system", "apps", "infra", "sets",
                  "gate", "dns", "wipe", "config", "unit", "binary", "start", "restart",
                  "network", "enter infra", "enter sets", "receipt", "rollback"}
    /\ "idle" \notin Install \cup Teardown
    /\ Install \cap Teardown = {}
BY Labels DEF Install, Teardown

\* Each table entry leads to a step of an install and leaves through a door.
LEMMA Successors ==
    /\ \A p \in DOMAIN Barrier : Barrier[p].next \in {"agent", "enter infra"}
                                 /\ Barrier[p].door \in {"return", "eager"}
    /\ \A p \in DOMAIN Duty : Duty[p].next \in {"network", "pullsecrets", "logs", "features",
                                                "tls", "system", "apps", "receipt"}
                              /\ Duty[p].door \in {"eager", "cleanup"}
    /\ \A p \in DOMAIN After : After[p] \in {"keys", "enter sets"}
<1>1. \A p \in DOMAIN Barrier : Barrier[p].next \in {"agent", "enter infra"}
                                /\ Barrier[p].door \in {"return", "eager"}
  <2>1. /\ Barrier["logs"].next = "agent" /\ Barrier["logs"].door = "return"
        /\ Barrier["features"].next = "enter infra" /\ Barrier["features"].door = "eager"
    BY DEF Barrier
  <2> QED
    BY <2>1, Labels
<1>2. \A p \in DOMAIN Duty : Duty[p].next \in {"network", "pullsecrets", "logs", "features",
                                               "tls", "system", "apps", "receipt"}
                             /\ Duty[p].door \in {"eager", "cleanup"}
  BY Labels DEF Duty
<1>3. \A p \in DOMAIN After : After[p] \in {"keys", "enter sets"}
  <2>1. After["system"] = "keys" /\ After["apps"] = "enter sets"
    BY DEF After
  <2> QED
    BY <2>1, Labels
<1> QED
  BY <1>1, <1>2, <1>3

\* The goroutines of a set apply releases, each at least one.
LEMMA Goroutines ==
    \A set \in DOMAIN Rollout : \A w \in Rollout[set] : w \in Seq(Chart) /\ w # <<>>
<1>1. \A c \in Optional : Wanted(c) \in Seq(Optional)
  BY DEF Wanted
<1>2. Platform \in Seq(Optional)
  BY <1>1 DEF Platform, Optional
<1>3. Platform \in Seq(Chart)
  BY <1>2 DEF Chart
<1>4. \A c \in Chart : <<c>> \in Seq(Chart) /\ <<c>> # <<>>
  OBVIOUS
<1>5. {"infra", "broker", "support", "workflows"} \subseteq Chart
  BY DEF Chart, Optional
<1>6. \A w \in Rollout.infra : w \in Seq(Chart) /\ w # <<>>
  <2>1. Rollout.infra = {<<"infra">>, <<"broker">>}
    BY DEF Rollout
  <2> QED
    BY <1>4, <1>5, <2>1
<1>7. \A w \in Rollout.sets : w \in Seq(Chart) /\ w # <<>>
  <2>1. \A w \in Rollout.sets : w = <<"support">> \/ w = <<"workflows">>
                                \/ (w = Platform /\ Platform # <<>>)
    BY DEF Rollout
  <2> QED
    BY <1>3, <1>4, <1>5, <2>1
<1> QED
  BY <1>6, <1>7, Labels

-----------------------------------------------------------------------------
(* Types.                                                                  *)

\* A goroutine has something to do.
Work == \A w \in running : w.todo # <<>>

TypeInv == TypeOK /\ Work

\* Where a failure leads, whatever its door.
LEMMA Doors ==
    ASSUME TypeOK
    PROVE  /\ Eager => pc' = "rollback" /\ UNCHANGED <<outcome, errs>>
           /\ Cleanup => pc' \in {"idle", "rollback"} /\ outcome' \in Outcome /\ UNCHANGED errs
           /\ \A door \in {"return", "eager", "cleanup"} :
                 Fail(door) => pc' \in {"idle", "rollback"} /\ outcome' \in Outcome
                               /\ UNCHANGED errs
BY DEF TypeOK, Outcome, Eager, Cleanup, Fail, Goto, Return

\* The rollbacks of a piece are added to a stack of rollbacks.
LEMMA Pushed ==
    ASSUME stack \in Seq(Undoable), NEW p \in Undoable, Push(p) \/ Arm(p)
    PROVE  stack' \in Seq(Undoable)
BY DEF Push, Arm

\* What a goroutine may carry can be put on the stack.
LEMMA ChartsAreUndoable ==
    /\ Chart \subseteq Piece /\ Piece \subseteq Undoable
    /\ \A u \in Seq(Chart) : u \in Seq(Undoable)
BY DEF Piece, Undoable, InCluster

\* Outside the parallel steps no goroutine runs.
LEMMA NothingRuns ==
    ASSUME TypeOK, pc \notin {"infra", "sets"}
    PROVE  running = {}
BY Labels DEF TypeOK

\* An install starts typed.
LEMMA BeginTyped == TypeInv /\ Begin => TypeInv'
<1> SUFFICES ASSUME TypeInv, Begin PROVE TypeInv'
  OBVIOUS
<1>1. stack' \in Seq(Undoable) /\ running' = {} /\ pc' \in Install
  <2>1. stack' = <<>> /\ running' = {} /\ pc' = "gate"
    BY DEF Begin
  <2> QED
    <3>1. <<>> \in Seq(Undoable)
      OBVIOUS
    <3> QED
      BY <2>1, <3>1, Steps
<1>2. attempts' \in 0..MaxAttempts
  BY BoundAssumption DEF TypeInv, TypeOK, Begin
<1>3. preserve' \in BOOLEAN /\ database' \in {"empty", "older", "this"} /\ outcome' \in Outcome
  BY OptionAssumption DEF TypeInv, TypeOK, Begin, Outcome
<1> QED
  BY <1>1, <1>2, <1>3 DEF TypeInv, TypeOK, Work, Begin, k3s

\* The gate keeps the types.
LEMMA GateTyped == TypeInv /\ Gate => TypeInv'
<1> SUFFICES ASSUME TypeInv, Gate PROVE TypeInv'
  OBVIOUS
<1>1. pc = "gate" /\ pc' \in {"idle", "dns"}
  BY DEF Gate, Return, Goto
<1>2. stack' \in Seq(Undoable)
  <2>1. stack' = stack \/ Push("database")
    BY DEF Gate
  <2> QED
    BY <2>1, Pushed DEF TypeInv, TypeOK, Undoable
<1>3. receipt' \in BOOLEAN /\ fresh' \in BOOLEAN /\ forced' \in BOOLEAN
  BY DEF TypeInv, TypeOK, Gate, Kept
<1>4. outcome' \in Outcome /\ UNCHANGED errs
  BY DEF TypeInv, TypeOK, Gate, Return, Goto, Outcome
<1>5. UNCHANGED <<k3s, workloads, preserve, attempts, before, resetting, interrupted,
                  present, database, sets, started>>
  BY DEF Gate
<1>6. running' = {} /\ pc' \in {"idle"} \cup Install
  BY <1>1, <1>5, NothingRuns, Steps DEF TypeInv, sets
<1> QED
  BY <1>2, <1>3, <1>4, <1>5, <1>6 DEF TypeInv, TypeOK, Work, k3s, sets

\* So do the steps below K3s,
LEMMA HostTyped ==
    TypeInv /\ (PrepareHostDNS \/ Check \/ CleanNetwork \/ Wipe) => TypeInv'
<1> SUFFICES ASSUME TypeInv, PrepareHostDNS \/ Check \/ CleanNetwork \/ Wipe PROVE TypeInv'
  OBVIOUS
<1>1. CASE PrepareHostDNS
  <2>1. pc' \in {"idle", "packages"} /\ outcome' \in Outcome /\ UNCHANGED errs
    BY <1>1 DEF TypeInv, TypeOK, PrepareHostDNS, Return, Goto, Outcome
  <2>2. stack' \in Seq(Undoable) /\ present' \subseteq Piece
    <3>1. "dns" \in Piece /\ "dns" \in Undoable
      BY DEF Undoable, Piece, OnHost
    <3>2. stack' \in {stack, Append(stack, "dns")} /\ present' \in {present, present \cup {"dns"}}
      BY <1>1 DEF PrepareHostDNS
    <3> QED
      BY <3>1, <3>2 DEF TypeInv, TypeOK
  <2>3. running' = {} /\ running = {} /\ pc' \in {"idle"} \cup Install
    BY <1>1, <2>1, NothingRuns, Steps, Labels DEF TypeInv, PrepareHostDNS, sets
  <2> QED
    BY <1>1, <2>1, <2>2, <2>3 DEF TypeInv, TypeOK, Work, PrepareHostDNS, k3s, flags, sets
<1>2. CASE Check
  <2>1. pc' \in {"idle", "rollback", "agent", "enter infra"} /\ outcome' \in Outcome
        /\ UNCHANGED errs
    BY <1>2, Successors, Doors DEF TypeInv, TypeOK, Check, Goto
  <2>2. running' = {} /\ running = {} /\ pc' \in {"idle"} \cup Install
    BY <1>2, <2>1, NothingRuns, Steps, Labels DEF TypeInv, Check, sets
  <2>3. UNCHANGED <<k3s, flags, present, database, receipt, fresh, stack, sets, started>>
    BY <1>2 DEF Check
  <2> QED
    <3>1. UNCHANGED <<files, process, cluster, workloads, preserve, forced, attempts, before>>
          /\ UNCHANGED <<resetting, interrupted, present, database, receipt, fresh, stack>>
          /\ UNCHANGED <<broken, started>>
      BY <2>3 DEF k3s, flags, sets
    <3>2. Work'
      BY <2>2 DEF Work
    <3>3. running' \subseteq [todo : Seq(Chart), undo : Seq(Chart)]
      BY <2>2
    <3>4. files' \in [File -> Owner \cup {"same"}] /\ stack' \in Seq(Undoable)
          /\ process' \in Owner \cup {"same"} /\ cluster' \in Owner
          /\ present' \subseteq Piece /\ before' \subseteq Piece
          /\ attempts' \in 0..MaxAttempts
      BY <3>1 DEF TypeInv, TypeOK
    <3>5. workloads' \in BOOLEAN /\ receipt' \in BOOLEAN /\ preserve' \in BOOLEAN
          /\ forced' \in BOOLEAN /\ fresh' \in BOOLEAN /\ broken' \in BOOLEAN
          /\ started' \in BOOLEAN /\ resetting' \in BOOLEAN /\ interrupted' \in BOOLEAN
      BY <3>1 DEF TypeInv, TypeOK
    <3>6. errs' \in BOOLEAN
      BY <2>1 DEF TypeInv, TypeOK
    <3>7. database' \in {"empty", "older", "this"}
      BY <3>1 DEF TypeInv, TypeOK
    <3> QED
      BY <2>1, <2>2, <3>2, <3>3, <3>4, <3>5, <3>6, <3>7 DEF TypeInv, TypeOK
<1>3. CASE CleanNetwork
  <2>1. pc' \in {"idle", "restart", "wipe", "config"} /\ outcome' \in Outcome
        /\ UNCHANGED errs
    BY <1>3 DEF TypeInv, TypeOK, CleanNetwork, Goto, Return, Outcome
  <2>2. running' = {} /\ running = {} /\ pc' \in {"idle"} \cup Install
    BY <1>3, <2>1, NothingRuns, Steps, Labels DEF TypeInv, CleanNetwork, sets
  <2> QED
    BY <1>3, <2>1, <2>2 DEF TypeInv, TypeOK, Work, CleanNetwork, k3s, flags, sets
<1>4. CASE Wipe
  <2>1. pc' \in {"config", "rollback"} /\ outcome' \in Outcome /\ UNCHANGED errs
    BY <1>4 DEF TypeInv, TypeOK, Wipe, Goto, Eager
  <2>2. cluster' \in Owner /\ workloads' \in BOOLEAN /\ present' \subseteq Piece
    BY <1>4 DEF TypeInv, TypeOK, Wipe, Owner
  <2>3. running' = {} /\ running = {} /\ pc' \in {"idle"} \cup Install
    BY <1>4, <2>1, NothingRuns, Steps, Labels DEF TypeInv, Wipe, sets
  <2> QED
    BY <1>4, <2>1, <2>2, <2>3 DEF TypeInv, TypeOK, Work, Wipe, sets
<1> QED
  BY <1>1, <1>2, <1>3, <1>4

\* those that put K3s on the host,
LEMMA K3sTyped == TypeInv /\ (WriteFile \/ StartK3s \/ RestartK3s) => TypeInv'
<1> SUFFICES ASSUME TypeInv, WriteFile \/ StartK3s \/ RestartK3s PROVE TypeInv'
  OBVIOUS
<1>1. CASE WriteFile
  <2>1. pc' \in {"idle", "unit", "binary", "start"} /\ outcome' \in Outcome /\ UNCHANGED errs
    BY <1>1 DEF TypeInv, TypeOK, WriteFile, Goto, Return, Outcome, File
  <2>2. files' \in [File -> Owner \cup {"same"}]
    BY <1>1 DEF TypeInv, TypeOK, WriteFile, Owner
  <2>3. pc \notin DOMAIN Rollout /\ pc' \in {"idle"} \cup Install
    BY <1>1, <2>1, Steps, Labels DEF WriteFile, File
  <2> QED
    BY <1>1, <2>1, <2>2, <2>3
       DEF TypeInv, TypeOK, Work, WriteFile, flags, sets
<1>2. CASE StartK3s
  <2>1. pc' \in {"idle", "images"} /\ outcome' \in Outcome /\ UNCHANGED errs
    BY <1>2 DEF TypeInv, TypeOK, StartK3s, Goto, Return, Outcome
  <2>2. process' \in Owner \cup {"same"} /\ cluster' \in Owner /\ started' \in BOOLEAN
    BY <1>2 DEF TypeInv, TypeOK, StartK3s, Owner
  <2>3. stack' \in Seq(Undoable)
    BY <1>2 DEF TypeInv, TypeOK, StartK3s, Push, Undoable
  <2>4. running' = {} /\ running = {} /\ pc' \in {"idle"} \cup Install
    BY <1>2, <2>1, NothingRuns, Steps, Labels DEF TypeInv, StartK3s, sets
  <2> QED
    BY <1>2, <2>1, <2>2, <2>3, <2>4 DEF TypeInv, TypeOK, Work, StartK3s, flags, sets
<1>3. CASE RestartK3s
  <2>1. pc' \in {"idle", "images"} /\ outcome' \in Outcome /\ UNCHANGED errs
    BY <1>3 DEF TypeInv, TypeOK, RestartK3s, Goto, Return, Outcome
  <2>2. process' \in Owner \cup {"same"}
    BY <1>3 DEF TypeInv, TypeOK, RestartK3s, Owner, File
  <2>3. running' = {} /\ running = {} /\ pc' \in {"idle"} \cup Install
    BY <1>3, <2>1, NothingRuns, Steps, Labels DEF TypeInv, RestartK3s, sets
  <2> QED
    BY <1>3, <2>1, <2>2, <2>3 DEF TypeInv, TypeOK, Work, RestartK3s, flags, sets
<1> QED
  BY <1>1, <1>2, <1>3

\* those that add one piece,
LEMMA ApplianceTyped == TypeInv /\ (Add \/ ApplyRelease \/ SaveReceipt) => TypeInv'
<1> SUFFICES ASSUME TypeInv, Add \/ ApplyRelease \/ SaveReceipt PROVE TypeInv'
  OBVIOUS
<1>1. CASE Add
  <2>1. pc \in DOMAIN Duty /\ pc \in Piece /\ pc \in Undoable
    BY <1>1, Labels DEF Add, Piece, Undoable, InCluster, OnHost
  <2>2. pc' \in {"idle"} \cup Install /\ outcome' \in Outcome /\ UNCHANGED errs
    <3>1. Goto(Duty[pc].next) \/ Fail(Duty[pc].door)
      BY <1>1 DEF Add
    <3>2. outcome' \in Outcome /\ UNCHANGED errs
          /\ pc' \in {"idle", "rollback", "network", "pullsecrets", "logs", "features", "tls",
                     "system", "apps", "receipt"}
      BY <2>1, <3>1, Successors, Doors DEF TypeInv, TypeOK, Goto
    <3> QED
      BY <3>2, Steps
  <2>3. stack' \in Seq(Undoable)
    <3>1. stack' = stack \/ Arm(pc)
      BY <1>1 DEF Add
    <3> QED
      BY <2>1, <3>1, Pushed DEF TypeInv, TypeOK
  <2>4. present' \subseteq Piece
    BY <1>1, <2>1 DEF TypeInv, TypeOK, Add
  <2>5. UNCHANGED <<k3s, flags, database, receipt, fresh, sets, started>>
    BY <1>1 DEF Add
  <2>6. running' = {}
    BY <2>1, <2>5, NothingRuns, Labels DEF TypeInv, sets
  <2> QED
    BY <2>2, <2>3, <2>4, <2>5, <2>6 DEF TypeInv, TypeOK, Work, k3s, flags, sets
<1>2. CASE ApplyRelease
  <2>1. pc \in DOMAIN After /\ pc \in Piece /\ pc \in Undoable
    BY <1>2, Labels DEF ApplyRelease, Piece, Undoable, InCluster, Chart
  <2>2. pc' \in {"idle"} \cup Install /\ outcome' \in Outcome /\ UNCHANGED errs
        /\ interrupted' \in BOOLEAN
    <3>1. /\ Goto(After[pc]) \/ Cleanup \/ Return(IF preserve THEN "preserved" ELSE "panicked")
          /\ interrupted' \in {interrupted, ~preserve}
      BY <1>2 DEF ApplyRelease
    <3>2. outcome' \in Outcome /\ UNCHANGED errs
          /\ pc' \in {"idle", "rollback", "keys", "enter sets"}
      BY <2>1, <3>1, Successors, Doors DEF TypeInv, TypeOK, Goto, Return, Outcome
    <3> QED
      BY <3>1, <3>2, Steps DEF TypeInv, TypeOK
  <2>3. stack' \in Seq(Undoable)
    <3>1. stack' = stack \/ Push(pc)
      BY <1>2 DEF ApplyRelease
    <3> QED
      BY <2>1, <3>1, Pushed DEF TypeInv, TypeOK
  <2>4. present' \subseteq Piece
    BY <1>2, <2>1 DEF TypeInv, TypeOK, ApplyRelease
  <2>5. UNCHANGED <<k3s, workloads, preserve, forced, attempts, before, resetting, database,
                    receipt, fresh, sets, started>>
    BY <1>2 DEF ApplyRelease
  <2>6. running' = {}
    BY <2>1, <2>5, NothingRuns, Labels DEF TypeInv, sets
  <2> QED
    BY <2>2, <2>3, <2>4, <2>5, <2>6 DEF TypeInv, TypeOK, Work, k3s, sets
<1>3. CASE SaveReceipt
  <2>1. pc = "receipt" /\ pc' \in {"idle", "rollback"} /\ outcome' \in Outcome
        /\ UNCHANGED errs /\ receipt' \in BOOLEAN
    BY <1>3, Doors DEF TypeInv, TypeOK, SaveReceipt, Return, Outcome
  <2>2. UNCHANGED <<k3s, flags, present, database, fresh, stack, sets, started>>
    BY <1>3 DEF SaveReceipt
  <2>3. running' = {} /\ pc' \in {"idle"} \cup Install
    BY <2>1, <2>2, NothingRuns, Steps DEF TypeInv, sets
  <2> QED
    BY <2>1, <2>2, <2>3 DEF TypeInv, TypeOK, Work, k3s, flags, sets
<1> QED
  BY <1>1, <1>2, <1>3

\* A goroutine with its next release applied.
LEMMA NextRelease ==
    ASSUME NEW w \in [todo : Seq(Chart), undo : Seq(Chart)], w.todo # <<>>
    PROVE  /\ Head(w.todo) \in Chart
           /\ Append(w.undo, Head(w.todo)) \in Seq(Chart)
           /\ Tail(w.todo) \in Seq(Chart)
           /\ Len(w.todo) # 1 => Tail(w.todo) # <<>>
<1>1. w.todo \in Seq(Chart) /\ w.undo \in Seq(Chart)
  OBVIOUS
<1>2. Head(w.todo) \in Chart /\ Tail(w.todo) \in Seq(Chart)
      /\ Len(Tail(w.todo)) = Len(w.todo) - 1
  BY <1>1, HeadTailProperties
<1>3. Len(w.todo) # 1 => Tail(w.todo) # <<>>
  <2>1. Len(w.todo) \in Nat /\ Len(w.todo) # 0
    BY <1>1, EmptySeq
  <2>2. SUFFICES ASSUME Len(w.todo) # 1, Tail(w.todo) = <<>> PROVE FALSE
    OBVIOUS
  <2>3. Len(Tail(w.todo)) = 0
    <3>1. Len(<<>>) = 0
      OBVIOUS
    <3> QED
      BY <2>2, <3>1
  <2> QED
    BY <1>2, <2>1, <2>2, <2>3
<1>4. Append(w.undo, Head(w.todo)) \in Seq(Chart)
  BY <1>1, <1>2, AppendProperties
<1> QED
  BY <1>2, <1>3, <1>4

\* the parallel steps,
LEMMA SetsTyped == TypeInv /\ (EnterSet \/ ApplyNext \/ JoinSet) => TypeInv'
<1> SUFFICES ASSUME TypeInv, EnterSet \/ ApplyNext \/ JoinSet PROVE TypeInv'
  OBVIOUS
<1>1. CASE EnterSet
  <2>1. UNCHANGED <<k3s, flags, present, database, receipt, fresh, stack, started>>
    BY <1>1 DEF EnterSet
  <2>2. CASE \E set \in {"infra", "sets"} : Spawn(set)
    <3>1. PICK set \in {"infra", "sets"} : Spawn(set)
      BY <2>2
    <3>2. /\ running' = {[todo |-> w, undo |-> <<>>] : w \in Rollout[set]}
          /\ broken' = FALSE /\ pc' = set /\ UNCHANGED <<outcome, errs>>
      BY <3>1 DEF Spawn, Goto
    <3>3. <<>> \in Seq(Chart)
      OBVIOUS
    <3>4. /\ running' \subseteq [todo : Seq(Chart), undo : Seq(Chart)]
          /\ \A v \in running' : v.todo # <<>>
      <4> SUFFICES ASSUME NEW v \in running'
                   PROVE  v \in [todo : Seq(Chart), undo : Seq(Chart)] /\ v.todo # <<>>
        OBVIOUS
      <4>1. PICK w \in Rollout[set] : v = [todo |-> w, undo |-> <<>>]
        BY <3>2
      <4>2. w \in Seq(Chart) /\ w # <<>>
        BY Goroutines, Labels
      <4> QED
        BY <3>3, <4>1, <4>2
    <3>5. pc' \in Install /\ pc' \in DOMAIN Rollout
      BY <3>2, Steps, Labels
    <3>6. UNCHANGED <<files, process, cluster, workloads, preserve, forced, attempts, before>>
          /\ UNCHANGED <<resetting, interrupted, present, database, receipt, fresh, stack>>
          /\ UNCHANGED started
      BY <2>1 DEF k3s, flags
    <3>7. Work'
      BY <3>4 DEF Work
    <3>8. broken' \in BOOLEAN
      BY <3>2
    <3>9. TypeOK'
      BY <3>2, <3>4, <3>5, <3>6, <3>8 DEF TypeInv, TypeOK
    <3> QED
      BY <3>7, <3>9 DEF TypeInv
  <2>3. CASE pc = "enter sets" /\ Cleanup /\ UNCHANGED sets
    <3>1. pc' \in {"idle", "rollback"} /\ outcome' \in Outcome /\ UNCHANGED errs
      BY <2>3, Doors DEF TypeInv
    <3>2. running' = {} /\ pc' \in {"idle"} \cup Install
      BY <2>3, <3>1, NothingRuns, Steps DEF TypeInv, sets
    <3>3. UNCHANGED broken
      BY <2>3 DEF sets
    <3> QED
      BY <2>1, <3>1, <3>2, <3>3 DEF TypeInv, TypeOK, Work, k3s, flags
  <2> QED
    BY <1>1, <2>2, <2>3 DEF EnterSet
<1>2. CASE ApplyNext
  <2>1. /\ pc \in DOMAIN Rollout
        /\ UNCHANGED <<k3s, flags, database, receipt, fresh, started, pc, outcome, errs>>
    BY <1>2 DEF ApplyNext
  <2>2. PICK w \in running :
          LET c == Head(w.todo)
              undo == Append(w.undo, c)
          IN  \/ /\ present' = present \cup {c} /\ UNCHANGED broken
                 /\ IF Len(w.todo) = 1 THEN Send(w, undo)
                    ELSE /\ running' = (running \ {w})
                                       \cup {[todo |-> Tail(w.todo), undo |-> undo]}
                         /\ UNCHANGED stack
              \/ present' \in {present, present \cup {c}} /\ broken' = TRUE /\ Send(w, undo)
              \/ UNCHANGED present /\ broken' = TRUE /\ Send(w, w.undo)
    BY <1>2 DEF ApplyNext
  <2> DEFINE c == Head(w.todo)
             undo == Append(w.undo, c)
  <2>3. w \in [todo : Seq(Chart), undo : Seq(Chart)] /\ w.todo # <<>>
    BY <2>2 DEF TypeInv, TypeOK, Work
  <2>4. /\ c \in Chart /\ undo \in Seq(Chart) /\ w.undo \in Seq(Chart)
        /\ Tail(w.todo) \in Seq(Chart) /\ (Len(w.todo) # 1 => Tail(w.todo) # <<>>)
    BY <2>3, NextRelease
  <2>5. present' \subseteq Piece /\ broken' \in BOOLEAN
    BY <2>2, <2>4, ChartsAreUndoable DEF TypeInv, TypeOK
  <2>6. \/ \E u \in Seq(Chart) : Send(w, u)
        \/ /\ Len(w.todo) # 1 /\ UNCHANGED stack
           /\ running' = (running \ {w}) \cup {[todo |-> Tail(w.todo), undo |-> undo]}
    BY <2>2, <2>4
  <2>7. stack' \in Seq(Undoable)
    <3>1. CASE \E u \in Seq(Chart) : Send(w, u)
      <4>1. PICK u \in Seq(Chart) : stack' = stack \o u
        BY <3>1 DEF Send
      <4>2. u \in Seq(Undoable) /\ stack \in Seq(Undoable)
        BY ChartsAreUndoable DEF TypeInv, TypeOK
      <4> QED
        BY <4>1, <4>2, ConcatProperties
    <3> QED
      BY <2>6, <3>1 DEF TypeInv, TypeOK
  <2>8. /\ running' \subseteq [todo : Seq(Chart), undo : Seq(Chart)]
        /\ \A v \in running' : v.todo # <<>>
    <3>1. /\ running \subseteq [todo : Seq(Chart), undo : Seq(Chart)]
          /\ \A v \in running : v.todo # <<>>
      BY DEF TypeInv, TypeOK, Work
    <3>2. CASE \E u \in Seq(Chart) : Send(w, u)
      BY <3>1, <3>2 DEF Send
    <3>3. CASE Len(w.todo) # 1 /\ running' = (running \ {w})
                                              \cup {[todo |-> Tail(w.todo), undo |-> undo]}
      <4> DEFINE more == [todo |-> Tail(w.todo), undo |-> undo]
      <4>1. more \in [todo : Seq(Chart), undo : Seq(Chart)] /\ more.todo # <<>>
        BY <2>4, <3>3
      <4> HIDE DEF more
      <4> QED
        BY <3>1, <3>3, <4>1 DEF more
    <3> QED
      BY <2>6, <3>2, <3>3
  <2> QED
    BY <2>1, <2>5, <2>7, <2>8 DEF TypeInv, TypeOK, Work, k3s, flags
<1>3. CASE JoinSet
  <2>1. UNCHANGED <<k3s, flags, present, database, receipt, fresh, stack, sets, started>>
    BY <1>3 DEF JoinSet
  <2>2. running' = {} /\ pc' \in {"idle", "rollback", "replicas", "zonctl"}
        /\ outcome' \in Outcome /\ UNCHANGED errs
    BY <1>3, Doors DEF TypeInv, TypeOK, JoinSet, Goto, sets
  <2>3. pc' \in {"idle"} \cup Install
    BY <2>2, Steps
  <2> QED
    BY <2>1, <2>2, <2>3 DEF TypeInv, TypeOK, Work, k3s, flags, sets
<1> QED
  BY <1>1, <1>2, <1>3

\* The rollback to be run next, and those that stay behind.
LEMMA NextRollback ==
    ASSUME stack \in Seq(Undoable), stack # <<>>
    PROVE  /\ Last(stack) = stack[Len(stack)] /\ Last(stack) \in Undoable
           /\ Front(stack) \in Seq(Undoable) /\ Len(Front(stack)) = Len(stack) - 1
           /\ \A i \in 1..Len(Front(stack)) : Front(stack)[i] = stack[i]
<1>1. Len(stack) \in Nat \ {0}
  BY EmptySeq
<1>2. Last(stack) = stack[Len(stack)] /\ Last(stack) \in Undoable
  BY <1>1, ElementOfSeq DEF Last
<1>3. Front(stack) = SubSeq(stack, 1, Len(stack) - 1)
  BY DEF Front
<1>4. Len(stack) - 1 \in Int /\ \A i \in 1..(Len(stack) - 1) : stack[i] \in Undoable
  BY <1>1, ElementOfSeq
<1>5. /\ Front(stack) \in Seq(Undoable)
      /\ Len(Front(stack)) = IF 1 <= Len(stack) - 1 THEN (Len(stack) - 1) - 1 + 1 ELSE 0
      /\ \A i \in 1..((Len(stack) - 1) - 1 + 1) : Front(stack)[i] = stack[1 + i - 1]
  <2>1. 1 \in Int
    OBVIOUS
  <2> QED
    BY <1>3, <1>4, <2>1, SubSeqProperties
<1>6. Len(Front(stack)) = Len(stack) - 1
  <2>1. \A n \in Nat \ {0} : (IF 1 <= n - 1 THEN (n - 1) - 1 + 1 ELSE 0) = n - 1
    OBVIOUS
  <2> QED
    BY <1>1, <1>5, <2>1
<1>7. ASSUME NEW i \in 1..Len(Front(stack)) PROVE Front(stack)[i] = stack[i]
  <2>1. i \in 1..((Len(stack) - 1) - 1 + 1) /\ 1 + i - 1 = i
    BY <1>1, <1>6
  <2> QED
    BY <1>5, <2>1
<1> QED
  BY <1>2, <1>5, <1>6, <1>7

\* the rollbacks,
LEMMA UndoTyped == TypeInv /\ (Undo \/ RollbackDone) => TypeInv'
<1> SUFFICES ASSUME TypeInv, Undo \/ RollbackDone PROVE TypeInv'
  OBVIOUS
<1>1. pc = "rollback" /\ running = {}
  BY NothingRuns DEF TypeInv, Undo, RollbackDone
<1>2. CASE Undo
  <2> DEFINE p == Last(stack)
  <2>1. /\ stack # <<>> /\ UndoOne(p, Front(stack))
        /\ UNCHANGED <<cluster, flags, receipt, fresh, sets, started, pc, outcome>>
    BY <1>2 DEF Undo, UndoOne
  <2>2. stack' \in Seq(Undoable)
    BY <2>1, NextRollback DEF TypeInv, TypeOK, UndoOne
  <2>3. \/ UndoK3s /\ UNCHANGED errs
        \/ UndoDatabase /\ UNCHANGED errs
        \/ UndoPiece(p) /\ UNCHANGED errs
        \/ UndoFails(p)
    BY <2>1 DEF UndoOne
  <2>4. /\ files' \in [File -> Owner \cup {"same"}] /\ process' \in Owner \cup {"same"}
        /\ present' \subseteq Piece /\ database' \in {"empty", "older", "this"}
        /\ errs' \in BOOLEAN
    <3>1. CASE UndoK3s /\ UNCHANGED errs
      BY <3>1 DEF UndoK3s, TypeInv, TypeOK, Owner
    <3>2. CASE UndoDatabase /\ UNCHANGED errs
      BY <3>2 DEF UndoDatabase, TypeInv, TypeOK
    <3>3. CASE UndoPiece(p) /\ UNCHANGED errs
      BY <3>3 DEF UndoPiece, TypeInv, TypeOK
    <3>4. CASE UndoFails(p)
      BY <3>4 DEF UndoFails, TypeInv, TypeOK, Owner
    <3> QED
      BY <2>3, <3>1, <3>2, <3>3, <3>4
  <2>5. running' = {}
    BY <1>1, <2>1 DEF sets
  <2> QED
    BY <2>1, <2>2, <2>4, <2>5 DEF TypeInv, TypeOK, Work, flags, sets
<1>3. CASE RollbackDone
  <2>1. UNCHANGED <<k3s, flags, present, database, receipt, fresh, stack, sets, started>>
    BY <1>3 DEF RollbackDone
  <2>2. pc' = "idle" /\ outcome' \in Outcome /\ UNCHANGED errs
    BY <1>3 DEF RollbackDone, Return, Outcome
  <2>3. running' = {}
    BY <1>1, <2>1 DEF sets
  <2> QED
    BY <2>1, <2>2, <2>3 DEF TypeInv, TypeOK, Work, k3s, flags, sets
<1> QED
  BY <1>2, <1>3

\* What an operation forgets is typed.
LEMMA Forgotten ==
    ASSUME Forget
    PROVE  /\ preserve' = FALSE /\ forced' = FALSE /\ fresh' = FALSE /\ broken' = FALSE
           /\ started' = FALSE /\ errs' = FALSE /\ before' = {} /\ running' = {}
           /\ stack' = <<>> /\ stack' \in Seq(Undoable)
<1>1. <<>> \in Seq(Undoable)
  OBVIOUS
<1> QED
  BY <1>1 DEF Forget

\* and the teardown, which changes nothing an install remembers.
LEMMA TeardownTyped == TypeInv /\ TearingDown => TypeInv'
<1> SUFFICES ASSUME TypeInv, TearingDown PROVE TypeInv'
  OBVIOUS
<1>1. pc \in Teardown /\ running = {}
  <2>1. pc \in Teardown
    BY DEF TearingDown, TeardownFails, StopK3s, Unlink, DropReceipt, WipeData, WipeDatabase,
           WipeState, DropZonctl, RestoreHostDNS, DropAgent, TeardownStep, Teardown
  <2> QED
    BY <2>1, NothingRuns DEF TypeInv, Teardown
<1>2. UNCHANGED <<attempts, memory, interrupted>>
  BY DEF TearingDown, TeardownFails, StopK3s, Unlink, DropReceipt, WipeData, WipeDatabase,
         WipeState, DropZonctl, RestoreHostDNS, DropAgent, TeardownStep, rest
<1>3. pc' \in {"idle"} \cup Teardown /\ outcome' \in Outcome
  BY DEF TypeInv, TypeOK, Outcome, TearingDown, TeardownFails, StopK3s, Unlink, DropReceipt,
         WipeData, WipeDatabase, WipeState, DropZonctl, RestoreHostDNS, DropAgent,
         TeardownStep, Teardown
<1>4. resetting' \in BOOLEAN /\ workloads' \in BOOLEAN /\ receipt' \in BOOLEAN
  BY DEF TypeInv, TypeOK, TearingDown, TeardownFails, StopK3s, Unlink, DropReceipt,
         WipeData, WipeDatabase, WipeState, DropZonctl, RestoreHostDNS, DropAgent,
         TeardownStep, rest
<1>5. /\ files' \in [File -> Owner \cup {"same"}] /\ process' \in Owner \cup {"same"}
      /\ cluster' \in Owner
  BY DEF TypeInv, TypeOK, Owner, k3s, TearingDown, TeardownFails, StopK3s, Unlink, DropReceipt,
         WipeData, WipeDatabase, WipeState, DropZonctl, RestoreHostDNS, DropAgent,
         TeardownStep
<1>6. present' \subseteq Piece /\ database' \in {"empty", "older", "this"}
  BY DEF TypeInv, TypeOK, TearingDown, TeardownFails, StopK3s, Unlink, DropReceipt,
         WipeData, WipeDatabase, WipeState, DropZonctl, RestoreHostDNS, DropAgent,
         TeardownStep
<1> QED
  BY <1>1, <1>2, <1>3, <1>4, <1>5, <1>6 DEF TypeInv, TypeOK, Work, memory

\* The operations around an install and the database are typed as well.
LEMMA AroundTyped ==
    TypeInv /\ (BeginTeardown \/ PostgresWrites \/ Crash \/ Repair) => TypeInv'
<1> SUFFICES ASSUME TypeInv, BeginTeardown \/ PostgresWrites \/ Crash \/ Repair PROVE TypeInv'
  OBVIOUS
<1>1. CASE BeginTeardown
  <2>1. pc' = "stop" /\ outcome' \in Outcome /\ interrupted' = FALSE /\ resetting' \in BOOLEAN
        /\ pc' \in Teardown
    BY <1>1, OptionAssumption DEF BeginTeardown, Outcome, Teardown
  <2>2. Forget /\ UNCHANGED <<k3s, workloads, attempts, present, database, receipt>>
    BY <1>1 DEF BeginTeardown
  <2> QED
    BY <2>1, <2>2, Forgotten DEF TypeInv, TypeOK, Work, k3s
<1>2. CASE PostgresWrites
  <2>1. UNCHANGED <<k3s, flags, present, receipt, pc, fresh, stack, sets, started, errs, outcome>>
        /\ database' = "this"
    BY <1>2 DEF PostgresWrites
  <2> QED
    BY <2>1 DEF TypeInv, TypeOK, Work, k3s, flags, sets
<1>3. CASE Crash
  <2>1. pc' = "idle" /\ outcome' \in Outcome /\ interrupted' = TRUE /\ resetting' = FALSE
    BY <1>3 DEF Crash, Outcome
  <2>2. Forget /\ UNCHANGED <<k3s, workloads, attempts, present, database, receipt>>
    BY <1>3 DEF Crash
  <2> QED
    BY <2>1, <2>2, Forgotten DEF TypeInv, TypeOK, Work, k3s
<1>4. CASE Repair
  <2>1. pc' = pc /\ pc = "idle" /\ outcome' \in Outcome /\ interrupted' = FALSE
    BY <1>4 DEF Repair, Outcome
  <2>2. Forget /\ UNCHANGED <<files, cluster, workloads, attempts, resetting, present, database,
                              receipt>>
    BY <1>4 DEF Repair
  <2>3. process' \in Owner \cup {"same"}
    BY <1>4 DEF TypeInv, TypeOK, Repair, File
  <2> QED
    BY <2>1, <2>2, <2>3, Forgotten DEF TypeInv, TypeOK, Work
<1> QED
  BY <1>1, <1>2, <1>3, <1>4

\* The initial states are typed.
LEMMA InitTyped == Init => TypeInv
<1> SUFFICES ASSUME Init PROVE TypeInv
  OBVIOUS
<1>1. files \in [File -> Owner \cup {"same"}]
  BY DEF Init, File, Owner
<1>2. process \in Owner \cup {"same"} /\ cluster \in Owner /\ workloads \in BOOLEAN
  <2>1. CASE files = [f \in File |-> "none"] /\ cluster = "none" /\ process = "none"
             /\ workloads = FALSE
    BY <2>1 DEF Owner
  <2>2. CASE /\ \E binary \in {"foreign", "same"} :
                   files = [unit |-> "foreign", binary |-> binary, config |-> "foreign"]
             /\ cluster = "foreign" /\ process \in {"none", files["binary"]}
             /\ workloads \in BOOLEAN
    BY <2>2 DEF Owner
  <2> QED
    BY <2>1, <2>2 DEF Init
<1>3. <<>> \in Seq(Undoable) /\ stack = <<>>
  BY DEF Init
<1>4. attempts \in 0..MaxAttempts
  BY BoundAssumption DEF Init
<1>5. running = {} /\ Work
  BY DEF Init, Work
<1> QED
  BY <1>1, <1>2, <1>3, <1>4, <1>5 DEF Init, TypeInv, TypeOK, Outcome

\* So is every step.
LEMMA TypedStep == TypeInv /\ [Next]_vars => TypeInv'
<1> SUFFICES ASSUME TypeInv, [Next]_vars PROVE TypeInv'
  OBVIOUS
<1>1. CASE UNCHANGED vars
  BY <1>1 DEF TypeInv, TypeOK, Work, vars
<1>2. CASE Begin
  BY <1>2, BeginTyped
<1>3. CASE Installing
  BY <1>3, GateTyped, HostTyped, K3sTyped, ApplianceTyped, SetsTyped, UndoTyped DEF Installing
<1>4. CASE BeginTeardown \/ TearingDown \/ PostgresWrites \/ Crash \/ Repair
  BY <1>4, TeardownTyped, AroundTyped
<1> QED
  BY <1>1, <1>2, <1>3, <1>4 DEF Next

\* Every state is typed (Install, its rollbacks, and the operations around them).
THEOREM TypeCorrect == Spec => []TypeOK
<1>1. TypeInv => TypeOK
  BY DEF TypeInv
<1> QED
  BY InitTyped, TypedStep, <1>1, PTL DEF Spec

-----------------------------------------------------------------------------
(* What an install may not lose or take.                                   *)

\* Past the gate the database directory holds nothing from before.
DatabaseInv == pc \in Install \ {"gate"} => database # "older"

\* Past the gate a foreign K3s with workloads is there only by force.
ForeignInv == pc \in Install \ {"gate"} /\ files["unit"] = "foreign" /\ workloads => forced

\* The actions of an install that follow the gate.
Underway ==
    \/ PrepareHostDNS \/ Check \/ CleanNetwork \/ Wipe \/ WriteFile \/ StartK3s
    \/ RestartK3s \/ Add \/ ApplyRelease \/ EnterSet \/ ApplyNext \/ JoinSet \/ SaveReceipt
    \/ Undo \/ RollbackDone

\* Each of them is past the gate, and does not change what the gate decided.
LEMMA UnderwayPast ==
    ASSUME Underway
    PROVE  pc \in Install \ {"gate"} /\ UNCHANGED <<forced, attempts, before, resetting>>
<1>1. pc \in Install \ {"gate"}
  BY Steps, Labels
     DEF Underway, PrepareHostDNS, Check, CleanNetwork, Wipe, WriteFile, StartK3s, RestartK3s,
         Add, ApplyRelease, EnterSet, ApplyNext, JoinSet, SaveReceipt, Undo, RollbackDone, File
<1>2. UNCHANGED <<forced, attempts, before, resetting>>
  BY DEF Underway, PrepareHostDNS, Check, CleanNetwork, Wipe, WriteFile, StartK3s, RestartK3s,
         Add, ApplyRelease, EnterSet, ApplyNext, JoinSet, SaveReceipt, Undo, UndoOne,
         RollbackDone, flags
<1> QED
  BY <1>1, <1>2

\* Only a rollback changes the database directory, and it empties it.
LEMMA UnderwayDatabase ==
    ASSUME Underway
    PROVE  database' = database \/ database' = "empty"
BY DEF Underway, PrepareHostDNS, Check, CleanNetwork, Wipe, WriteFile, StartK3s, RestartK3s,
       Add, ApplyRelease, EnterSet, ApplyNext, JoinSet, SaveReceipt, Undo, UndoOne, UndoK3s,
       UndoDatabase, UndoPiece, UndoFails, RollbackDone

\* None of them brings foreign files or workloads.
LEMMA UnderwayForeign ==
    ASSUME TypeOK, Underway, files'["unit"] = "foreign", workloads'
    PROVE  files["unit"] = "foreign" /\ workloads
<1>1. workloads
  BY DEF Underway, PrepareHostDNS, Check, CleanNetwork, Wipe, WriteFile, StartK3s, RestartK3s,
         Add, ApplyRelease, EnterSet, ApplyNext, JoinSet, SaveReceipt, Undo, UndoOne,
         RollbackDone, flags
<1>2. files["unit"] = "foreign"
  <2>1. CASE WriteFile
    BY <2>1 DEF TypeOK, WriteFile, File
  <2>2. CASE Undo
    <3>1. files' = files \/ \E gone \in SUBSET File :
                                files' = [f \in File |-> IF f \in gone THEN "none" ELSE files[f]]
      <4>1. files' = files \/ (files' = [f \in File |-> "none"])
            \/ \E gone \in SUBSET File :
                  files' = [f \in File |-> IF f \in gone THEN "none" ELSE files[f]]
        BY <2>2 DEF Undo, UndoOne, UndoK3s, UndoDatabase, UndoPiece, UndoFails
      <4> QED
        BY <4>1 DEF File
    <3> QED
      BY <3>1 DEF File
  <2>3. CASE Underway /\ ~WriteFile /\ ~Undo
    BY <2>3 DEF Underway, PrepareHostDNS, Check, CleanNetwork, Wipe, StartK3s, RestartK3s,
                Add, ApplyRelease, EnterSet, ApplyNext, JoinSet, SaveReceipt, RollbackDone, k3s
  <2> QED
    BY <2>1, <2>2, <2>3
<1> QED
  BY <1>1, <1>2

\* Every other step ends outside the install, at its gate, or where it was.
LEMMA Elsewhere ==
    ASSUME [Next]_vars, ~Underway, ~Gate, pc' \in Install \ {"gate"}
    PROVE  pc' = pc /\ UNCHANGED <<files, workloads, forced>>
           /\ (database' = database \/ database' = "this")
<1>1. CASE UNCHANGED vars
  BY <1>1 DEF vars
<1>2. CASE PostgresWrites
  BY <1>2 DEF PostgresWrites, k3s, flags
<1>3. CASE Begin
  BY <1>3 DEF Begin
<1>4. CASE Crash \/ Repair \/ BeginTeardown
  BY <1>4, Steps DEF Crash, Repair, BeginTeardown
<1>5. CASE TearingDown
  <2>1. pc' \in {"idle"} \cup Teardown
    BY <1>5 DEF TearingDown, TeardownFails, StopK3s, Unlink, DropReceipt, WipeData,
                WipeDatabase, WipeState, DropZonctl, RestoreHostDNS, DropAgent, TeardownStep,
                Teardown
  <2> QED
    BY <2>1, Steps
<1> QED
  BY <1>1, <1>2, <1>3, <1>4, <1>5 DEF Next, Installing, Underway

\* The gate lets no older database through, and no foreign workloads unasked.
LEMMA GateDecides ==
    ASSUME TypeOK, Gate, pc' \in Install
    PROVE  /\ database = "empty" /\ UNCHANGED <<database, files, workloads>>
           /\ files["unit"] = "foreign" /\ workloads => forced'
<1>1. PICK healthy \in {FALSE, Active}, force \in ForceAdopt :
          LET decision == DecideOwnership(Kept, healthy, force)
          IN  /\ database = "empty"
              /\ decision \in {"fresh", "adopt"}
              /\ fresh' = (decision = "fresh")
              /\ forced' = (~fresh' /\ ~SafeToAdopt(healthy))
              /\ Push("database") /\ Goto("dns")
  BY Steps DEF Gate, Return
<1>2. UNCHANGED <<database, files, workloads>>
  BY DEF Gate, k3s
<1>3. ASSUME files["unit"] = "foreign", workloads PROVE forced'
  <2>1. Detected /\ ~SafeToAdopt(healthy)
    BY <1>3 DEF Detected, SafeToAdopt, ForeignSeen
  <2>2. DecideOwnership(Kept, healthy, force) # "fresh"
    BY <2>1 DEF DecideOwnership
  <2> QED
    BY <1>1, <2>1, <2>2
<1> QED
  BY <1>1, <1>2, <1>3

\* Both invariants survive every step.
LEMMA GuardedStep ==
    TypeInv /\ DatabaseInv /\ ForeignInv /\ [Next]_vars => DatabaseInv' /\ ForeignInv'
<1> SUFFICES ASSUME TypeInv, DatabaseInv, ForeignInv, [Next]_vars, pc' \in Install \ {"gate"}
             PROVE  /\ database' # "older"
                    /\ files'["unit"] = "foreign" /\ workloads' => forced'
  BY DEF DatabaseInv, ForeignInv, Install, Barrier, Duty, After, Rollout
<1>1. CASE Underway
  BY <1>1, UnderwayPast, UnderwayDatabase, UnderwayForeign DEF TypeInv, DatabaseInv, ForeignInv
<1>2. CASE Gate
  BY <1>2, GateDecides DEF TypeInv
<1>3. CASE ~Underway /\ ~Gate
  BY <1>3, Elsewhere DEF DatabaseInv, ForeignInv
<1> QED
  BY <1>1, <1>2, <1>3

\* What the theorems about the gate rest on.
LEMMA Guarded == Spec => [](TypeInv /\ DatabaseInv /\ ForeignInv)
<1>1. Init => DatabaseInv /\ ForeignInv
  BY Steps DEF Init, DatabaseInv, ForeignInv
<1>2. TypeInv /\ [Next]_vars => TypeInv'
  BY TypedStep
<1> QED
  BY InitTyped, <1>1, <1>2, GuardedStep, PTL DEF Spec

\* PostgreSQL data from before an install survives it and its rollbacks: the
\* gate wants the directory empty, and every rollback is armed behind the gate.
THEOREM DatabaseKeptTheorem == Spec => DatabaseKept
<1>1. TypeInv /\ DatabaseInv /\ ForeignInv /\ [Next]_vars
      => [database = "older" /\ pc \in Install => database' = "older"]_vars
  <2> SUFFICES ASSUME TypeInv, DatabaseInv, Next, database = "older", pc \in Install
               PROVE  database' = "older"
    OBVIOUS
  <2>1. pc = "gate"
    BY DEF DatabaseInv
  <2>2. ~Underway
    BY <2>1, UnderwayPast
  <2>3. CASE Gate
    BY <2>3 DEF Gate
  <2>4. CASE Crash
    BY <2>4 DEF Crash
  <2>5. CASE PostgresWrites
    BY <2>5 DEF PostgresWrites
  <2>6. CASE Begin \/ Repair \/ BeginTeardown
    BY <2>1, <2>6 DEF Begin, Repair, BeginTeardown
  <2>7. CASE TearingDown
    BY <2>1, <2>7 DEF TearingDown, TeardownFails, StopK3s, Unlink, DropReceipt, WipeData,
                WipeDatabase, WipeState, DropZonctl, RestoreHostDNS, DropAgent, TeardownStep,
                Teardown
  <2> QED
    BY <2>2, <2>3, <2>4, <2>5, <2>6, <2>7 DEF Next, Installing, Underway
<1> QED
  BY Guarded, <1>1, PTL DEF DatabaseKept, Spec

\* Somebody's K3s with workloads on it keeps its files unless the operator
\* forced the adoption (k3s.DecideOwnership).
THEOREM ForeignIsAskedTheorem == Spec => ForeignIsAsked
<1>1. TypeInv /\ DatabaseInv /\ ForeignInv /\ [Next]_vars
      => [files["unit"] = "foreign" /\ workloads /\ pc \in Install /\ files' # files
          => forced]_vars
  <2> SUFFICES ASSUME ForeignInv, Next, files["unit"] = "foreign", workloads, pc \in Install,
                      files' # files
               PROVE  forced
    OBVIOUS
  <2>1. CASE pc # "gate"
    BY <2>1 DEF ForeignInv
  <2>2. CASE pc = "gate"
    <3>1. ~Underway
      BY <2>2, UnderwayPast
    <3>2. ~TearingDown
      BY <2>2 DEF TearingDown, TeardownFails, StopK3s, Unlink, DropReceipt, WipeData,
                WipeDatabase, WipeState, DropZonctl, RestoreHostDNS, DropAgent, TeardownStep,
                Teardown
    <3>3. CASE Gate \/ Crash \/ PostgresWrites
      BY <3>3 DEF Gate, Crash, PostgresWrites, k3s
    <3>4. CASE Begin \/ Repair \/ BeginTeardown
      BY <2>2, <3>4 DEF Begin, Repair, BeginTeardown
    <3> QED
      BY <3>1, <3>2, <3>3, <3>4 DEF Next, Installing, Underway
  <2> QED
    BY <2>1, <2>2
<1> QED
  BY Guarded, <1>1, PTL DEF ForeignIsAsked, Spec

-----------------------------------------------------------------------------
(* The order of the rollbacks.                                             *)

\* The steps during which K3s may be down, and those during which it runs.
Early == {"gate", "dns", "packages", "network", "wipe", "config", "unit", "binary", "start",
          "restart"}
Late == {"images", "pullsecrets", "logs", "agent", "features", "enter infra", "infra",
         "replicas", "tls", "system", "keys", "apps", "enter sets", "sets", "zonctl", "receipt"}

\* Nothing on the stack is removed through the cluster.
NoCluster(s) == \A i \in 1..Len(s) : s[i] \notin InCluster

\* Nothing below K3s itself is.
Ordered(s) == \A i, j \in 1..Len(s) : i < j /\ s[j] = "k3s" => s[i] \notin InCluster

\* Whatever is to be removed through the cluster was put on the stack with
\* K3s up and above the rollback that stops it.
StackInv ==
    /\ Ordered(stack)
    /\ pc \in Early => NoCluster(stack)
    /\ pc \in Late => Active
    /\ pc = "rollback" => (Active \/ NoCluster(stack))
    /\ pc = "restart" => files["binary"] # "none"

\* The steps are early, late, or rollbacks.
LEMMA Phases ==
    /\ Install = Early \cup Late \cup {"rollback"}
    /\ Early \cap Late = {} /\ "rollback" \notin Early \cup Late
    /\ (Early \cup Late) \cap ({"idle"} \cup Teardown) = {}
    /\ "rollback" \notin {"idle"} \cup Teardown
<1>1. Install = Early \cup Late \cup {"rollback"}
  <2>1. ASSUME NEW p PROVE p \in Install <=> p \in Early \cup Late \cup {"rollback"}
    BY Steps DEF Early, Late
  <2> QED
    BY <2>1
<1>2. Early \cap Late = {} /\ "rollback" \notin Early \cup Late
  BY DEF Early, Late
<1>3. (Early \cup Late) \cap ({"idle"} \cup Teardown) = {}
  BY DEF Early, Late, Teardown
<1> QED
  BY <1>1, <1>2, <1>3 DEF Teardown

\* A stack without such pieces is in order, whatever it is given on top.
LEMMA OrderedBase ==
    ASSUME NEW s \in Seq(Undoable), NEW p \in Undoable, NoCluster(s)
    PROVE  /\ Ordered(s) /\ Ordered(Append(s, p))
           /\ p \notin InCluster => NoCluster(Append(s, p))
<1>1. /\ Len(s) \in Nat /\ Len(Append(s, p)) = Len(s) + 1
      /\ \A i \in 1..Len(s) : Append(s, p)[i] = s[i]
      /\ Append(s, p)[Len(s) + 1] = p
  BY AppendProperties
<1>2. \A i \in 1..Len(Append(s, p)) : i \in 1..Len(s) \/ i = Len(s) + 1
  BY <1>1
<1>3. Ordered(s)
  BY DEF Ordered, NoCluster
<1>4. Ordered(Append(s, p))
  <2> SUFFICES ASSUME NEW i \in 1..Len(Append(s, p)), NEW j \in 1..Len(Append(s, p)), i < j
               PROVE  Append(s, p)[i] \notin InCluster
    BY DEF Ordered
  <2>1. i \in 1..Len(s)
    BY <1>1
  <2> QED
    BY <1>1, <2>1 DEF NoCluster
<1>5. p \notin InCluster => NoCluster(Append(s, p))
  BY <1>1, <1>2 DEF NoCluster
<1> QED
  BY <1>3, <1>4, <1>5

\* Anything but K3s can be put on a stack in order.
LEMMA OrderedAppend ==
    ASSUME NEW s \in Seq(Undoable), NEW p \in Undoable, Ordered(s), p # "k3s"
    PROVE  Ordered(Append(s, p))
<1>1. /\ Len(s) \in Nat /\ Len(Append(s, p)) = Len(s) + 1
      /\ \A i \in 1..Len(s) : Append(s, p)[i] = s[i]
      /\ Append(s, p)[Len(s) + 1] = p
  BY AppendProperties
<1> SUFFICES ASSUME NEW i \in 1..Len(Append(s, p)), NEW j \in 1..Len(Append(s, p)), i < j,
                    Append(s, p)[j] = "k3s"
             PROVE  Append(s, p)[i] \notin InCluster
  BY DEF Ordered
<1>2. j # Len(s) + 1
  BY <1>1
<1>3. i \in 1..Len(s) /\ j \in 1..Len(s)
  BY <1>1, <1>2
<1> QED
  BY <1>1, <1>3 DEF Ordered

\* So can the rollbacks of a goroutine.
LEMMA OrderedConcat ==
    ASSUME NEW s \in Seq(Undoable), NEW u \in Seq(Chart), Ordered(s)
    PROVE  Ordered(s \o u)
<1>1. u \in Seq(Undoable)
  BY ChartsAreUndoable
<1>2. /\ Len(s) \in Nat /\ Len(u) \in Nat /\ Len(s \o u) = Len(s) + Len(u)
      /\ \A i \in 1..Len(s \o u) : (s \o u)[i] = IF i <= Len(s) THEN s[i] ELSE u[i - Len(s)]
  BY <1>1, ConcatProperties
<1> SUFFICES ASSUME NEW i \in 1..Len(s \o u), NEW j \in 1..Len(s \o u), i < j,
                    (s \o u)[j] = "k3s"
             PROVE  (s \o u)[i] \notin InCluster
  BY DEF Ordered
<1>3. j <= Len(s)
  <2> SUFFICES ASSUME ~(j <= Len(s)) PROVE FALSE
    OBVIOUS
  <2>1. j - Len(s) \in 1..Len(u)
    BY <1>2
  <2>2. u[j - Len(s)] \in Chart
    BY <2>1, ElementOfSeq
  <2>3. u[j - Len(s)] = "k3s"
    BY <1>2
  <2> QED
    BY <2>2, <2>3, Apart
<1>4. i \in 1..Len(s) /\ j \in 1..Len(s)
  BY <1>2, <1>3
<1>5. (s \o u)[i] = s[i] /\ (s \o u)[j] = s[j]
  BY <1>2, <1>4
<1> QED
  BY <1>4, <1>5 DEF Ordered

\* What stays behind a rollback is in order, and once K3s has been stopped
\* nothing that needs it is left.
LEMMA OrderedFront ==
    ASSUME stack \in Seq(Undoable), stack # <<>>, Ordered(stack)
    PROVE  /\ Ordered(Front(stack))
           /\ NoCluster(stack) => NoCluster(Front(stack))
           /\ Last(stack) = "k3s" => NoCluster(Front(stack))
<1>1. /\ Last(stack) = stack[Len(stack)] /\ Len(Front(stack)) = Len(stack) - 1
      /\ \A i \in 1..Len(Front(stack)) : Front(stack)[i] = stack[i]
  BY NextRollback
<1>2. Len(stack) \in Nat \ {0}
  BY EmptySeq
<1>3. \A i \in 1..Len(Front(stack)) : i \in 1..Len(stack) /\ i < Len(stack)
  BY <1>1, <1>2
<1>4. Len(stack) \in 1..Len(stack)
  BY <1>2
<1>5. Ordered(Front(stack))
  BY <1>1, <1>3 DEF Ordered
<1>6. NoCluster(stack) => NoCluster(Front(stack))
  BY <1>1, <1>3 DEF NoCluster
<1>7. Last(stack) = "k3s" => NoCluster(Front(stack))
  BY <1>1, <1>3, <1>4 DEF Ordered, NoCluster
<1> QED
  BY <1>5, <1>6, <1>7

\* A step with K3s still to come adds no rollback that needs it.
LEMMA EarlyToEarly ==
    ASSUME TypeOK, StackInv, pc \in Early,
           pc' \in Early \cup {"idle", "rollback"},
           pc' = "restart" => files'["binary"] # "none",
           stack' = stack \/ \E p \in Undoable \ InCluster : stack' = Append(stack, p)
    PROVE  StackInv'
<1>1. NoCluster(stack) /\ stack \in Seq(Undoable)
  BY DEF StackInv, TypeOK
<1>2. Ordered(stack) /\ Ordered(stack')
  <2>1. Ordered(stack)
    BY DEF StackInv
  <2> QED
    BY <1>1, <2>1, OrderedBase
<1>3. NoCluster(stack')
  <2>1. CASE stack' = stack
    BY <1>1, <2>1
  <2>2. CASE \E p \in Undoable \ InCluster : stack' = Append(stack, p)
    BY <1>1, <2>2, OrderedBase
  <2> QED
    BY <2>1, <2>2
<1>4. pc' \notin Late
  BY Phases
<1> QED
  BY <1>2, <1>3, <1>4 DEF StackInv, Ordered, NoCluster

\* A step with K3s up leaves it up, and stops at most at the rollbacks.
LEMMA LateToLate ==
    ASSUME TypeOK, StackInv, pc \in Late,
           pc' \in Late \cup {"idle", "rollback"},
           UNCHANGED process,
           \/ stack' = stack
           \/ \E p \in Undoable \ {"k3s"} : stack' = Append(stack, p)
           \/ \E u \in Seq(Chart) : stack' = stack \o u
    PROVE  StackInv'
<1>1. Ordered(stack) /\ stack \in Seq(Undoable) /\ Active'
  BY DEF StackInv, TypeOK, Active
<1>2. Ordered(stack')
  BY <1>1, OrderedAppend, OrderedConcat
<1>3. pc' \notin Early /\ pc' # "restart"
  BY Phases DEF Early
<1> QED
  BY <1>1, <1>2, <1>3 DEF StackInv, Ordered

\* The steps before K3s is started keep the stack in order,
LEMMA HostStacked ==
    TypeInv /\ StackInv /\ (Gate \/ PrepareHostDNS \/ CleanNetwork \/ Wipe \/ WriteFile)
        => StackInv'
<1> SUFFICES ASSUME TypeInv, StackInv, Gate \/ PrepareHostDNS \/ CleanNetwork \/ Wipe \/ WriteFile
             PROVE  StackInv'
  OBVIOUS
<1>1. {"database", "dns"} \subseteq Undoable \ InCluster
  BY Apart DEF Undoable, Piece, OnHost
<1>2. CASE Gate
  <2>1. pc \in Early /\ pc' \in {"idle", "dns"} /\ (stack' = stack \/ Push("database"))
    BY <1>2 DEF Gate, Return, Goto, Early
  <2>2. pc' \in Early \cup {"idle", "rollback"} /\ pc' # "restart"
    BY <2>1 DEF Early
  <2> QED
    BY <1>1, <2>1, <2>2, EarlyToEarly DEF TypeInv, Push
<1>3. CASE PrepareHostDNS
  <2>1. pc \in Early /\ pc' \in {"idle", "packages"}
        /\ (stack' = stack \/ stack' = Append(stack, "dns"))
    BY <1>3 DEF PrepareHostDNS, Return, Goto, Early
  <2>2. pc' \in Early \cup {"idle", "rollback"} /\ pc' # "restart"
    BY <2>1 DEF Early
  <2> QED
    BY <1>1, <2>1, <2>2, EarlyToEarly DEF TypeInv
<1>4. CASE CleanNetwork
  <2>1. pc \in Early /\ pc' \in {"idle", "restart", "wipe", "config"} /\ stack' = stack
    BY <1>4 DEF CleanNetwork, Return, Goto, Early
  <2>2. pc' \in Early \cup {"idle", "rollback"}
    BY <2>1 DEF Early
  <2>3. pc' = "restart" => files'["binary"] # "none"
    BY <1>4 DEF CleanNetwork, Return, Goto, VersionMatches, k3s
  <2> QED
    BY <2>1, <2>2, <2>3, EarlyToEarly DEF TypeInv
<1>5. CASE Wipe
  <2>1. pc \in Early /\ pc' \in {"rollback", "config"} /\ stack' = stack
    BY <1>5 DEF Wipe, Eager, Goto, Early
  <2>2. pc' \in Early \cup {"idle", "rollback"} /\ pc' # "restart"
    BY <2>1 DEF Early
  <2> QED
    BY <2>1, <2>2, EarlyToEarly DEF TypeInv
<1>6. CASE WriteFile
  <2>1. pc \in Early /\ pc' \in {"idle", "unit", "binary", "start"} /\ stack' = stack
    BY <1>6 DEF WriteFile, Return, Goto, Early, File
  <2>2. pc' \in Early \cup {"idle", "rollback"} /\ pc' # "restart"
    BY <2>1 DEF Early
  <2> QED
    BY <2>1, <2>2, EarlyToEarly DEF TypeInv
<1> QED
  BY <1>2, <1>3, <1>4, <1>5, <1>6

\* so do those that start it,
LEMMA K3sStacked == TypeInv /\ StackInv /\ (StartK3s \/ RestartK3s) => StackInv'
<1> SUFFICES ASSUME TypeInv, StackInv, StartK3s \/ RestartK3s PROVE StackInv'
  OBVIOUS
<1>1. /\ pc \in Early /\ NoCluster(stack) /\ Ordered(stack) /\ stack \in Seq(Undoable)
      /\ "k3s" \in Undoable
  BY DEF StackInv, TypeInv, TypeOK, StartK3s, RestartK3s, Early, Undoable
<1>2. Ordered(stack')
  <2>1. stack' = stack \/ stack' = Append(stack, "k3s")
    BY DEF StartK3s, RestartK3s, Push
  <2> QED
    BY <1>1, <2>1, OrderedBase
<1>3. pc' = "idle" \/ (pc' = "images" /\ Active')
  BY DEF StartK3s, RestartK3s, Goto, Return, Active, StackInv
<1>4. "idle" \notin Early \cup Late /\ "images" \notin Early
  BY DEF Early, Late
<1> QED
  BY <1>2, <1>3, <1>4 DEF StackInv, Ordered

\* those that add one piece,
LEMMA ApplianceStacked ==
    TypeInv /\ StackInv /\ (Check \/ Add \/ ApplyRelease \/ SaveReceipt) => StackInv'
<1> SUFFICES ASSUME TypeInv, StackInv, Check \/ Add \/ ApplyRelease \/ SaveReceipt
             PROVE  StackInv'
  OBVIOUS
<1>1. CASE Check
  <2>1. pc \in Late /\ pc' \in {"idle", "rollback", "agent", "enter infra"}
        /\ stack' = stack /\ UNCHANGED process
    BY <1>1, Labels, Successors, Doors DEF TypeInv, Check, Goto, Late, k3s
  <2>2. pc' \in Late \cup {"idle", "rollback"}
    BY <2>1 DEF Late
  <2> QED
    BY <2>1, <2>2, LateToLate DEF TypeInv
<1>2. CASE Add
  <2>1. pc \in Undoable \ {"k3s"} /\ (stack' = stack \/ stack' = Append(stack, pc))
        /\ UNCHANGED <<process, files>>
    <3>1. pc \in Undoable \ {"k3s"}
      BY <1>2, Labels, Apart DEF Add, Piece, Undoable, InCluster, OnHost
    <3> QED
      BY <1>2, <3>1 DEF Add, Arm, k3s
  <2>2. CASE pc = "packages"
    <3>1. pc \in Early /\ pc \notin InCluster
      BY <2>2, Apart DEF Early, OnHost
    <3>2. pc' \in {"network", "idle", "rollback"}
      <4>1. Duty[pc].next = "network" /\ Duty[pc].door = "eager"
        BY <2>2 DEF Duty
      <4> QED
        BY <1>2, <4>1, Doors DEF TypeInv, Add, Goto
    <3>3. pc' \in Early \cup {"idle", "rollback"} /\ pc' # "restart"
      BY <3>2 DEF Early
    <3> QED
      BY <2>1, <3>1, <3>3, EarlyToEarly DEF TypeInv
  <2>3. CASE pc # "packages"
    <3>1. pc \in Late
      BY <1>2, <2>3, Labels DEF Add, Late
    <3>2. Duty[pc].next \in {"pullsecrets", "logs", "features", "tls", "system", "apps",
                             "receipt"}
      BY <1>2, <2>3, Labels DEF Add, Duty
    <3>3. pc' \in {"pullsecrets", "logs", "features", "tls", "system", "apps", "receipt",
                   "idle", "rollback"}
      BY <1>2, <3>2, Successors, Doors DEF TypeInv, Add, Goto
    <3>4. pc' \in Late \cup {"idle", "rollback"}
      BY <3>3 DEF Late
    <3> QED
      BY <2>1, <3>1, <3>4, LateToLate DEF TypeInv
  <2> QED
    BY <2>2, <2>3
<1>3. CASE ApplyRelease
  <2>1. pc \in Undoable \ {"k3s"} /\ pc \in Late
    BY <1>3, Labels DEF ApplyRelease, Piece, Undoable, InCluster, Chart, Late
  <2>2. (stack' = stack \/ stack' = Append(stack, pc)) /\ UNCHANGED process
    BY <1>3 DEF ApplyRelease, Push, k3s
  <2>3. pc' \in {"keys", "enter sets", "idle", "rollback"}
    BY <1>3, Successors, Doors DEF TypeInv, ApplyRelease, Goto, Return
  <2>4. pc' \in Late \cup {"idle", "rollback"}
    BY <2>3 DEF Late
  <2> QED
    BY <2>1, <2>2, <2>4, LateToLate DEF TypeInv
<1>4. CASE SaveReceipt
  <2>1. pc \in Late /\ stack' = stack /\ UNCHANGED process /\ pc' \in {"idle", "rollback"}
    BY <1>4, Doors DEF TypeInv, SaveReceipt, Return, Late, k3s
  <2> QED
    BY <2>1, LateToLate DEF TypeInv
<1> QED
  BY <1>1, <1>2, <1>3, <1>4

\* the parallel steps,
LEMMA SetsStacked == TypeInv /\ StackInv /\ (EnterSet \/ ApplyNext \/ JoinSet) => StackInv'
<1> SUFFICES ASSUME TypeInv, StackInv, EnterSet \/ ApplyNext \/ JoinSet PROVE StackInv'
  OBVIOUS
<1>1. pc \in Late
  BY Labels DEF EnterSet, ApplyNext, JoinSet, Late
<1>2. CASE EnterSet
  <2>1. stack' = stack /\ UNCHANGED process /\ pc' \in {"infra", "sets", "idle", "rollback"}
    BY <1>2, Doors DEF TypeInv, EnterSet, Spawn, Goto, k3s
  <2>2. pc' \in Late \cup {"idle", "rollback"}
    BY <2>1 DEF Late
  <2> QED
    BY <1>1, <2>1, <2>2, LateToLate DEF TypeInv
<1>3. CASE ApplyNext
  <2>1. UNCHANGED <<pc, process>>
    BY <1>3 DEF ApplyNext, k3s
  <2>2. stack' = stack \/ \E u \in Seq(Chart) : stack' = stack \o u
    <3>1. PICK w \in running :
              \/ stack' = stack
              \/ stack' = stack \o Append(w.undo, Head(w.todo))
              \/ stack' = stack \o w.undo
      BY <1>3 DEF ApplyNext, Send
    <3>2. w \in [todo : Seq(Chart), undo : Seq(Chart)] /\ w.todo # <<>>
      BY DEF TypeInv, TypeOK, Work
    <3>3. Append(w.undo, Head(w.todo)) \in Seq(Chart) /\ w.undo \in Seq(Chart)
      BY <3>2, NextRelease
    <3> QED
      BY <3>1, <3>3
  <2> QED
    BY <1>1, <2>1, <2>2, LateToLate DEF TypeInv
<1>4. CASE JoinSet
  <2>1. stack' = stack /\ UNCHANGED process
        /\ pc' \in {"replicas", "zonctl", "idle", "rollback"}
    BY <1>4, Doors DEF TypeInv, JoinSet, Goto, k3s
  <2>2. pc' \in Late \cup {"idle", "rollback"}
    BY <2>1 DEF Late
  <2> QED
    BY <1>1, <2>1, <2>2, LateToLate DEF TypeInv
<1> QED
  BY <1>2, <1>3, <1>4

\* the rollbacks,
LEMMA UndoStacked == TypeInv /\ StackInv /\ (Undo \/ RollbackDone) => StackInv'
<1> SUFFICES ASSUME TypeInv, StackInv, Undo \/ RollbackDone PROVE StackInv'
  OBVIOUS
<1>1. CASE Undo
  <2>1. /\ pc = "rollback" /\ pc' = "rollback" /\ stack # <<>>
        /\ UndoOne(Last(stack), Front(stack)) /\ stack' = Front(stack)
    BY <1>1 DEF Undo, UndoOne
  <2>2. /\ Ordered(Front(stack)) /\ (NoCluster(stack) => NoCluster(Front(stack)))
        /\ (Last(stack) = "k3s" => NoCluster(Front(stack)))
    BY <2>1, OrderedFront DEF TypeInv, TypeOK, StackInv
  <2>3. Last(stack) = "k3s" \/ UNCHANGED process
    BY <2>1 DEF UndoOne, UndoK3s, UndoDatabase, UndoPiece, UndoFails
  <2>4. Ordered(stack')
    BY <2>1, <2>2
  <2>5. Active' \/ NoCluster(stack')
    BY <2>1, <2>2, <2>3 DEF StackInv, Active
  <2> QED
    BY <2>1, <2>4, <2>5, Phases DEF StackInv, Ordered, NoCluster
<1>2. CASE RollbackDone
  <2>1. pc' = "idle" /\ stack' = stack
    BY <1>2 DEF RollbackDone, Return
  <2> QED
    BY <2>1, Phases DEF StackInv, Ordered
<1> QED
  BY <1>1, <1>2

\* and whatever is not a step of the install.
LEMMA AroundStacked ==
    TypeInv /\ StackInv /\ [Next]_vars /\ ~Installing => StackInv'
<1> SUFFICES ASSUME TypeInv, StackInv, [Next]_vars, ~Installing PROVE StackInv'
  OBVIOUS
<1>1. CASE UNCHANGED <<pc, stack, process, files>>
  BY <1>1 DEF StackInv, Ordered, NoCluster, Active
<1>2. CASE stack' = <<>> /\ pc' \in {"idle", "stop", "gate"}
  <2>1. Ordered(stack') /\ NoCluster(stack')
    BY <1>2 DEF Ordered, NoCluster
  <2>2. pc' \notin Late /\ pc' # "rollback" /\ pc' # "restart"
    BY <1>2 DEF Late
  <2> QED
    BY <2>1, <2>2 DEF StackInv
<1>3. CASE stack' = stack /\ pc' \in {"idle"} \cup Teardown
  BY <1>3, Phases DEF StackInv, Ordered, Early
<1>4. UNCHANGED vars \/ PostgresWrites => UNCHANGED <<pc, stack, process, files>>
  BY DEF vars, PostgresWrites, k3s
<1>5. Begin \/ BeginTeardown \/ Crash \/ Repair
      => stack' = <<>> /\ pc' \in {"idle", "stop", "gate"}
  BY DEF Begin, BeginTeardown, Crash, Repair, Forget
<1>6. TearingDown => stack' = stack /\ pc' \in {"idle"} \cup Teardown
  BY DEF TearingDown, TeardownFails, StopK3s, Unlink, DropReceipt, WipeData, WipeDatabase,
         WipeState, DropZonctl, RestoreHostDNS, DropAgent, TeardownStep, Teardown, rest, memory
<1> QED
  BY <1>1, <1>2, <1>3, <1>4, <1>5, <1>6 DEF Next

\* So the stack is in order in every state.
LEMMA Stacked == Spec => [](TypeInv /\ StackInv)
<1>1. Init => StackInv
  <2>1. ASSUME Init PROVE Ordered(stack) /\ pc = "idle"
    BY <2>1 DEF Init, Ordered
  <2> QED
    BY <2>1, Phases DEF StackInv, Early
<1>2. TypeInv /\ StackInv /\ [Next]_vars => StackInv'
  BY HostStacked, K3sStacked, ApplianceStacked, SetsStacked, UndoStacked, AroundStacked
     DEF Installing
<1> QED
  BY InitTyped, TypedStep, <1>1, <1>2, PTL DEF Spec

\* A rollback that goes through the cluster finds K3s up: the rollback that
\* stops it lies below every piece the install put into the cluster, and no
\* step on the way to the stack's unwinding brings K3s down.
THEOREM OrderlyUndoTheorem == Spec => []OrderlyUndo
<1>1. TypeInv /\ StackInv => OrderlyUndo
  <2> SUFFICES ASSUME TypeInv, StackInv, pc = "rollback", stack # <<>>, Last(stack) \in InCluster
               PROVE  Active
    BY DEF OrderlyUndo
  <2>1. Last(stack) = stack[Len(stack)] /\ Len(stack) \in 1..Len(stack)
    BY NextRollback, EmptySeq DEF TypeInv, TypeOK
  <2> QED
    BY <2>1 DEF StackInv, NoCluster
<1> QED
  BY Stacked, <1>1, PTL

-----------------------------------------------------------------------------
(* A finished install is complete.                                         *)

\* p occurs on the stack, or among the releases, s.
On(p, s) == \E i \in 1..Len(s) : s[i] = p

\* The pieces of the steps behind a label are there.
Built ==
    /\ pc \in (Early \cup Late) \ {"gate", "dns"} /\ "coredns" \in Capability => "dns" \in present
    /\ pc \in (Early \cup Late) \ {"gate", "dns", "packages"} => "packages" \in present
    /\ pc \in Late \ {"images"} => "images" \in present
    /\ pc \in Late \ {"images", "pullsecrets"} => "pullsecrets" \in present
    /\ pc \in Late \ {"images", "pullsecrets", "logs", "agent"} => "agent" \in present
    /\ pc \in {"replicas", "tls", "system", "keys", "apps", "enter sets", "sets", "zonctl", "receipt"}
          => {"infra", "broker"} \subseteq present
    /\ pc \in {"tls", "system", "keys", "apps", "enter sets", "sets", "zonctl", "receipt"}
          => "replicas" \in present
    /\ pc \in {"system", "keys", "apps", "enter sets", "sets", "zonctl", "receipt"}
          => "tls" \in present
    /\ pc \in {"keys", "apps", "enter sets", "sets", "zonctl", "receipt"} => "system" \in present
    /\ pc \in {"apps", "enter sets", "sets", "zonctl", "receipt"} => "keys" \in present
    /\ pc \in {"enter sets", "sets", "zonctl", "receipt"} => "apps" \in present
    /\ pc \in {"zonctl", "receipt"} => \A w \in Rollout.sets : \A i \in 1..Len(w) : w[i] \in present
    /\ pc = "receipt" => "zonctl" \in present

\* A release of a set is there, or a goroutine has it left, unless one failed.
Rolling ==
    pc \in {"infra", "sets"} /\ ~broken =>
        \A w \in Rollout[pc] : \A i \in 1..Len(w) :
            w[i] \in present \/ \E v \in running : On(w[i], v.todo)

\* K3s has its unit as soon as an adoption is decided or the unit is written.
UnitThere ==
    /\ pc \in Early \ {"gate"} /\ ~fresh => Detected
    /\ pc \in {"binary", "start"} \cup Late => Detected
    /\ pc = "restart" => ~fresh

\* What the labels of the way forward stand for.
Forward == Built /\ Rolling /\ UnitThere

\* They say nothing about the labels outside of the way forward.
LEMMA Outside ==
    ASSUME pc' \in {"idle", "gate", "rollback"} \cup Teardown
    PROVE  Forward'
<1>1. pc' \notin (Early \cup Late) \ {"gate"}
  BY Phases
<1> QED
  BY <1>1 DEF Forward, Built, Rolling, UnitThere, Early, Late

\* The tables, entry by entry.
LEMMA Entries ==
    /\ Barrier["logs"].next = "agent" /\ Barrier["features"].next = "enter infra"
    /\ Duty["packages"].next = "network" /\ Duty["images"].next = "pullsecrets"
    /\ Duty["pullsecrets"].next = "logs" /\ Duty["agent"].next = "features"
    /\ Duty["replicas"].next = "tls" /\ Duty["tls"].next = "system"
    /\ Duty["keys"].next = "apps" /\ Duty["zonctl"].next = "receipt"
    /\ After["system"] = "keys" /\ After["apps"] = "enter sets"
BY DEF Barrier, Duty, After

\* The steps up to the files of K3s,
LEMMA HostForward ==
    TypeInv /\ Forward /\ (Gate \/ PrepareHostDNS \/ CleanNetwork \/ Wipe \/ WriteFile) => Forward'
<1> SUFFICES ASSUME TypeInv, Forward, Gate \/ PrepareHostDNS \/ CleanNetwork \/ Wipe \/ WriteFile
             PROVE  Forward'
  OBVIOUS
<1>1. CASE Gate
  <2>1. pc' = "idle" \/ (pc' = "dns" /\ (~fresh' => Detected) /\ files' = files)
    <3>1. CASE pc' \in Install
      <4>1. PICK healthy \in {FALSE, Active}, force \in ForceAdopt :
              LET decision == DecideOwnership(Kept, healthy, force)
              IN  /\ database = "empty"
                  /\ decision \in {"fresh", "adopt"}
                  /\ fresh' = (decision = "fresh")
                  /\ forced' = (~fresh' /\ ~SafeToAdopt(healthy))
                  /\ Push("database") /\ Goto("dns")
        BY <1>1, <3>1, Steps DEF Gate, Return
      <4>2. ~fresh' => Detected
        BY <4>1 DEF DecideOwnership
      <4> QED
        BY <1>1, <4>1, <4>2 DEF Goto, Gate, k3s
    <3>2. CASE pc' \notin Install
      BY <1>1, <3>2, Steps DEF Gate, Return, Goto
    <3> QED
      BY <3>1, <3>2
  <2>2. CASE pc' = "dns" /\ (~fresh' => Detected) /\ files' = files
    BY <2>2 DEF Forward, Built, Rolling, UnitThere, Detected, Late
  <2> QED
    BY <2>1, <2>2, Outside
<1>2. CASE PrepareHostDNS
  <2>1. \/ pc' = "idle"
        \/ /\ pc = "dns" /\ pc' = "packages" /\ ("coredns" \in Capability => "dns" \in present')
           /\ UNCHANGED <<files, fresh>>
    BY <1>2 DEF PrepareHostDNS, Return, Goto, k3s
  <2>2. CASE pc' # "idle"
    BY <2>1, <2>2 DEF Forward, Built, Rolling, UnitThere, Detected, Early, Late
  <2> QED
    BY <2>1, <2>2, Outside
<1>3. CASE CleanNetwork
  <2>1. \/ pc' = "idle"
        \/ /\ pc = "network" /\ pc' \in {"restart", "wipe", "config"}
           /\ (pc' = "restart" => ~fresh)
           /\ UNCHANGED <<files, fresh, present>>
    BY <1>3 DEF CleanNetwork, Return, Goto, k3s
  <2>2. CASE pc' # "idle"
    <3>1. Built' /\ Rolling'
      BY <2>1, <2>2 DEF Forward, Built, Rolling, Early, Late
    <3>2. ~fresh => Detected
      BY <2>1, <2>2 DEF Forward, UnitThere, Early
    <3>3. /\ pc' \in {"restart", "wipe", "config"} /\ (pc' = "restart" => ~fresh')
          /\ ~fresh' => Detected'
      BY <2>1, <2>2, <3>2 DEF Detected
    <3>4. pc' \notin {"binary", "start"} \cup Late
      BY <3>3 DEF Late
    <3>5. UnitThere'
      BY <3>3, <3>4 DEF UnitThere
    <3> QED
      BY <3>1, <3>5 DEF Forward
  <2> QED
    BY <2>1, <2>2, Outside
<1>4. CASE Wipe
  <2>0. "dns" \notin InCluster /\ "packages" \notin InCluster
    BY Apart DEF OnHost
  <2>1. \/ pc' = "rollback"
        \/ /\ pc = "wipe" /\ pc' = "config" /\ present' = present \ InCluster
           /\ UNCHANGED <<files, fresh>>
    BY <1>4 DEF Wipe, Eager, Goto
  <2>2. CASE pc' # "rollback"
    BY <2>0, <2>1, <2>2 DEF Forward, Built, Rolling, UnitThere, Detected, Early, Late
  <2> QED
    BY <2>1, <2>2, Outside
<1>5. CASE WriteFile
  <2>0. /\ pc \in {"config", "unit", "binary"} /\ files \in [File -> Owner \cup {"same"}]
        /\ "unit" \in File
    BY <1>5 DEF WriteFile, File, TypeInv, TypeOK
  <2>1. \/ pc' = "idle"
        \/ /\ files' = [files EXCEPT ![pc] = "ours"] /\ UNCHANGED <<fresh, present>>
           /\ \/ pc = "config" /\ pc' = "unit"
              \/ pc = "unit" /\ pc' = "binary"
              \/ pc = "binary" /\ pc' = "start"
    BY <1>5, <2>0 DEF WriteFile, Return, Goto
  <2>2. CASE pc' # "idle"
    <3>1. files'["unit"] \in {files["unit"], "ours"} /\ (pc = "unit" => files'["unit"] = "ours")
      BY <2>0, <2>1, <2>2
    <3> QED
      BY <2>1, <2>2, <3>1 DEF Forward, Built, Rolling, UnitThere, Detected, Early, Late
  <2> QED
    BY <2>1, <2>2, Outside
<1> QED
  BY <1>1, <1>2, <1>3, <1>4, <1>5

\* the start of K3s,
LEMMA K3sForward == TypeInv /\ Forward /\ (StartK3s \/ RestartK3s) => Forward'
<1> SUFFICES ASSUME TypeInv, Forward, StartK3s \/ RestartK3s PROVE Forward'
  OBVIOUS
<1>1. \/ pc' = "idle"
      \/ pc \in {"start", "restart"} /\ pc' = "images" /\ UNCHANGED <<files, present, fresh>>
  BY DEF StartK3s, RestartK3s, Return, Goto
<1>2. CASE pc' # "idle"
  BY <1>1, <1>2 DEF Forward, Built, Rolling, UnitThere, Detected, Early, Late
<1> QED
  BY <1>1, <1>2, Outside

\* the steps that add one piece,
LEMMA ApplianceForward ==
    TypeInv /\ Forward /\ (Check \/ Add \/ ApplyRelease \/ SaveReceipt) => Forward'
<1> SUFFICES ASSUME TypeInv, Forward, Check \/ Add \/ ApplyRelease \/ SaveReceipt PROVE Forward'
  OBVIOUS
<1>1. CASE Check
  <2>1. \/ pc' \in {"idle", "rollback"}
        \/ /\ UNCHANGED <<files, present, fresh>>
           /\ \/ pc = "logs" /\ pc' = "agent"
              \/ pc = "features" /\ pc' = "enter infra"
    <3>1. /\ UNCHANGED <<files, present, fresh>> /\ pc \in {"logs", "features"}
          /\ pc' = Barrier[pc].next \/ Fail(Barrier[pc].door)
      BY <1>1, Labels DEF Check, Goto, k3s
    <3>2. Fail(Barrier[pc].door) => pc' \in {"idle", "rollback"}
      BY <3>1, Labels, Successors, Doors DEF TypeInv
    <3>3. CASE pc = "logs" /\ pc' = Barrier[pc].next
      BY <3>1, <3>3, Entries
    <3>4. CASE pc = "features" /\ pc' = Barrier[pc].next
      BY <3>1, <3>4, Entries
    <3> QED
      BY <3>1, <3>2, <3>3, <3>4
  <2>2. CASE pc' \notin {"idle", "rollback"}
    BY <2>1, <2>2 DEF Forward, Built, Rolling, UnitThere, Detected, Early, Late
  <2> QED
    BY <2>1, <2>2, Outside
<1>2. CASE Add
  <2>1. \/ pc' \in {"idle", "rollback"}
        \/ /\ UNCHANGED <<files, fresh>> /\ pc \in DOMAIN Duty
           /\ present' = present \cup {pc} /\ pc' = Duty[pc].next
    BY <1>2, Successors, Doors DEF TypeInv, Add, Goto, k3s
  <2>2. CASE pc' \notin {"idle", "rollback"}
    <3>1. /\ UNCHANGED <<files, fresh>> /\ present' = present \cup {pc}
          /\ \/ pc = "packages" /\ pc' = "network"
             \/ pc = "images" /\ pc' = "pullsecrets"
             \/ pc = "pullsecrets" /\ pc' = "logs"
             \/ pc = "agent" /\ pc' = "features"
             \/ pc = "replicas" /\ pc' = "tls"
             \/ pc = "tls" /\ pc' = "system"
             \/ pc = "keys" /\ pc' = "apps"
             \/ pc = "zonctl" /\ pc' = "receipt"
      <4>1. /\ UNCHANGED <<files, fresh>> /\ present' = present \cup {pc} /\ pc' = Duty[pc].next
            /\ pc \in {"packages", "images", "pullsecrets", "agent", "replicas", "tls", "keys", "zonctl"}
        BY <2>1, <2>2, Labels
      <4>2. /\ pc = "packages" => pc' = "network"
            /\ pc = "images" => pc' = "pullsecrets"
            /\ pc = "pullsecrets" => pc' = "logs"
            /\ pc = "agent" => pc' = "features"
        BY <4>1, Entries
      <4>3. /\ pc = "replicas" => pc' = "tls"
            /\ pc = "tls" => pc' = "system"
            /\ pc = "keys" => pc' = "apps"
            /\ pc = "zonctl" => pc' = "receipt"
        BY <4>1, Entries
      <4> QED
        BY <4>1, <4>2, <4>3
    <3>2. Built'
      BY <3>1 DEF Forward, Built, Early, Late
    <3>3. Rolling' /\ UnitThere'
      BY <3>1 DEF Forward, Rolling, UnitThere, Detected, Early, Late
    <3> QED
      BY <3>2, <3>3 DEF Forward
  <2> QED
    BY <2>1, <2>2, Outside
<1>3. CASE ApplyRelease
  <2>1. \/ pc' \in {"idle", "rollback"}
        \/ /\ UNCHANGED <<files, fresh>> /\ pc \in DOMAIN After
           /\ present' = present \cup {pc} /\ pc' = After[pc]
    BY <1>3, Doors DEF TypeInv, ApplyRelease, Goto, Return, k3s
  <2>2. CASE pc' \notin {"idle", "rollback"}
    BY <2>1, <2>2, Labels, Entries DEF Forward, Built, Rolling, UnitThere, Detected, Early, Late
  <2> QED
    BY <2>1, <2>2, Outside
<1>4. CASE SaveReceipt
  BY <1>4, Outside, Doors DEF TypeInv, SaveReceipt, Return
<1> QED
  BY <1>1, <1>2, <1>3, <1>4

\* What a goroutine has left after its next release.
LEMMA LeftTodo ==
    ASSUME NEW s \in Seq(Chart), s # <<>>, NEW c, On(c, s)
    PROVE  c = Head(s) \/ (Len(s) # 1 /\ On(c, Tail(s)))
<1>1. /\ Len(s) \in Nat \ {0} /\ Head(s) = s[1] /\ Len(Tail(s)) = Len(s) - 1
      /\ \A i \in 1..Len(Tail(s)) : Tail(s)[i] = s[i + 1]
  BY EmptySeq, HeadTailProperties
<1>2. PICK i \in 1..Len(s) : s[i] = c
  BY DEF On
<1>3. CASE i = 1
  BY <1>1, <1>2, <1>3
<1>4. CASE i # 1
  <2>1. i - 1 \in 1..Len(Tail(s)) /\ (i - 1) + 1 = i /\ Len(s) # 1
    BY <1>1, <1>4
  <2>2. Tail(s)[i - 1] = c
    BY <1>1, <1>2, <2>1
  <2> QED
    BY <2>1, <2>2 DEF On
<1> QED
  BY <1>3, <1>4

\* the parallel ones, and
LEMMA SetsForward == TypeInv /\ Forward /\ (EnterSet \/ ApplyNext \/ JoinSet) => Forward'
<1> SUFFICES ASSUME TypeInv, Forward, EnterSet \/ ApplyNext \/ JoinSet PROVE Forward'
  OBVIOUS
<1>1. CASE EnterSet
  <2>1. CASE \E set \in {"infra", "sets"} : Spawn(set)
    <3>1. PICK set \in {"infra", "sets"} : Spawn(set) /\ pc = (IF set = "infra" THEN "enter infra" ELSE "enter sets")
      BY <1>1, <2>1 DEF EnterSet, Spawn, Goto, Cleanup, Return
    <3>2. pc' = set /\ running' = {[todo |-> w, undo |-> <<>>] : w \in Rollout[set]}
      BY <3>1 DEF Spawn, Goto
    <3>3. Rolling'
      <4>1. ASSUME NEW w \in Rollout[set], NEW i \in 1..Len(w) PROVE \E v \in running' : On(w[i], v.todo)
        <5>1. [todo |-> w, undo |-> <<>>] \in running' /\ On(w[i], w)
          BY <3>2 DEF On
        <5> QED
          BY <5>1
      <4> QED
        BY <3>2, <4>1 DEF Rolling
    <3>4. UNCHANGED <<files, present, fresh>>
      BY <1>1 DEF EnterSet, k3s
    <3>5. Built' /\ UnitThere'
      BY <3>1, <3>2, <3>4 DEF Forward, Built, UnitThere, Detected, Early, Late
    <3> QED
      BY <3>3, <3>5 DEF Forward
  <2>2. CASE Cleanup
    BY <2>2, Outside, Doors DEF TypeInv
  <2> QED
    BY <1>1, <2>1, <2>2 DEF EnterSet
<1>2. CASE ApplyNext
  <2>1. pc \in {"infra", "sets"} /\ UNCHANGED <<pc, files, fresh>>
    BY <1>2, Labels DEF ApplyNext, k3s
  <2>2. PICK w \in running :
          LET c == Head(w.todo)
              undo == Append(w.undo, c)
          IN  \/ /\ present' = present \cup {c} /\ UNCHANGED broken
                 /\ IF Len(w.todo) = 1 THEN Send(w, undo)
                    ELSE /\ running' = (running \ {w})
                                       \cup {[todo |-> Tail(w.todo), undo |-> undo]}
                         /\ UNCHANGED stack
              \/ present' \in {present, present \cup {c}} /\ broken' = TRUE /\ Send(w, undo)
              \/ UNCHANGED present /\ broken' = TRUE /\ Send(w, w.undo)
    BY <1>2 DEF ApplyNext
  <2>3. w.todo \in Seq(Chart) /\ w.todo # <<>>
    BY <2>2 DEF TypeInv, TypeOK, Work
  <2>4. present \subseteq present'
    BY <2>2
  <2>5. Built' /\ UnitThere'
    BY <2>1, <2>4 DEF Forward, Built, UnitThere, Detected, Early, Late
  <2>6. ASSUME NEW x, x \in present \/ \E v \in running : On(x, v.todo), ~broken'
        PROVE  x \in present' \/ \E v \in running' : On(x, v.todo)
    <3>1. /\ present' = present \cup {Head(w.todo)}
          /\ running \ {w} \subseteq running'
          /\ Len(w.todo) # 1 => [todo |-> Tail(w.todo), undo |-> Append(w.undo, Head(w.todo))] \in running'
      BY <2>2, <2>6 DEF Send
    <3>2. CASE On(x, w.todo)
      BY <2>3, <3>1, <3>2, LeftTodo
    <3> QED
      BY <2>6, <3>1, <3>2
  <2>7. Rolling'
    <3>1. ~broken' => ~broken
      BY <2>2
    <3> QED
      BY <2>1, <2>6, <3>1 DEF Forward, Rolling
  <2> QED
    BY <2>5, <2>7 DEF Forward
<1>3. CASE JoinSet
  <2>1. \/ pc' \in {"idle", "rollback"}
        \/ /\ UNCHANGED <<files, present, fresh>> /\ running = {} /\ ~broken
           /\ \/ pc = "infra" /\ pc' = "replicas"
              \/ pc = "sets" /\ pc' = "zonctl"
    BY <1>3, Labels, Doors DEF TypeInv, JoinSet, Goto, k3s
  <2>2. CASE pc = "infra" /\ pc' = "replicas" /\ UNCHANGED <<files, present, fresh>> /\ running = {} /\ ~broken
    <3>1. {"infra", "broker"} \subseteq present
      <4>1. <<"infra">> \in Rollout["infra"] /\ <<"broker">> \in Rollout["infra"]
        BY DEF Rollout
      <4>2. 1 \in 1..Len(<<"infra">>) /\ 1 \in 1..Len(<<"broker">>)
            /\ <<"infra">>[1] = "infra" /\ <<"broker">>[1] = "broker"
        OBVIOUS
      <4> QED
        BY <2>2, <4>1, <4>2 DEF Forward, Rolling
    <3> QED
      BY <2>2, <3>1 DEF Forward, Built, Rolling, UnitThere, Detected, Early, Late
  <2>3. CASE pc = "sets" /\ pc' = "zonctl" /\ UNCHANGED <<files, present, fresh>> /\ running = {} /\ ~broken
    <3>1. \A w \in Rollout.sets : \A i \in 1..Len(w) : w[i] \in present
      BY <2>3 DEF Forward, Rolling
    <3> QED
      BY <2>3, <3>1 DEF Forward, Built, Rolling, UnitThere, Detected, Early, Late
  <2> QED
    BY <2>1, <2>2, <2>3, Outside
<1> QED
  BY <1>1, <1>2, <1>3

\* whatever does not lead forward keep that meaning.
LEMMA AroundForward ==
    TypeInv /\ Forward /\ [Next]_vars
    /\ ~(Installing /\ ~Undo /\ ~RollbackDone) => Forward'
<1> SUFFICES ASSUME TypeInv, Forward, [Next]_vars, ~(Installing /\ ~Undo /\ ~RollbackDone)
             PROVE  Forward'
  OBVIOUS
<1>1. UNCHANGED vars \/ PostgresWrites => UNCHANGED <<pc, present, files, fresh, running, broken>>
  BY DEF vars, PostgresWrites, k3s, sets
<1>2. UNCHANGED <<pc, present, files, fresh, running, broken>> => Forward'
  <2> SUFFICES ASSUME UNCHANGED <<pc, present, files, fresh, running, broken>> PROVE Forward'
    OBVIOUS
  <2>1. UnitThere'
    BY DEF Forward, UnitThere, Detected
  <2>2. Rolling'
    BY DEF Forward, Rolling
  <2>3. Built'
    BY Zenon DEF Forward, Built
  <2> QED
    BY <2>1, <2>2, <2>3 DEF Forward
<1>3. Begin \/ BeginTeardown \/ Crash \/ Repair \/ Undo \/ RollbackDone
      => pc' \in {"idle", "gate", "rollback"} \cup Teardown
  BY DEF Begin, BeginTeardown, Crash, Repair, Undo, UndoOne, RollbackDone, Return, Teardown
<1>4. TearingDown => pc' \in {"idle", "gate", "rollback"} \cup Teardown
  BY DEF TearingDown, TeardownFails, StopK3s, Unlink, DropReceipt, WipeData, WipeDatabase,
         WipeState, DropZonctl, RestoreHostDNS, DropAgent, TeardownStep, Teardown
<1> QED
  BY <1>1, <1>2, <1>3, <1>4, Outside DEF Next, Installing

\* Doors that end an install say neither that it is installed nor rolled back.
LEMMA DoorsEnd ==
    /\ Cleanup => pc' = "rollback" \/ outcome' = "preserved"
    /\ \A door \in {"return", "eager", "cleanup"} :
          Fail(door) => pc' = "rollback" \/ outcome' \in {"failed", "preserved"}
BY DEF Fail, Cleanup, Eager, Return, Goto

\* Of the steps that end an operation, two report a success of their kind.
LEMMA Ends ==
    ASSUME TypeInv, Next, pc' = "idle", outcome' \in {"installed", "rolled back"}
    PROVE  \/ SaveReceipt /\ receipt' /\ outcome' = "installed"
           \/ RollbackDone /\ outcome' = "rolled back"
           \/ PostgresWrites
<1>1. CASE Gate \/ PrepareHostDNS \/ CleanNetwork \/ Wipe \/ WriteFile \/ StartK3s \/ RestartK3s
  <2>1. Gate => outcome' = "failed" \/ pc' = "dns"
    BY DEF Gate, Return, Goto
  <2>2. PrepareHostDNS => outcome' = "failed" \/ pc' = "packages"
    BY DEF PrepareHostDNS, Return, Goto
  <2>3. CleanNetwork => outcome' = "failed" \/ pc' \in {"restart", "wipe", "config"}
    BY DEF CleanNetwork, Return, Goto
  <2>4. Wipe => pc' \in {"config", "rollback"}
    BY DEF Wipe, Eager, Goto
  <2>5. WriteFile => outcome' = "failed" \/ pc' \in {"unit", "binary", "start"}
    BY DEF WriteFile, Return, Goto, File
  <2>6. StartK3s \/ RestartK3s => outcome' = "failed" \/ pc' = "images"
    BY DEF StartK3s, RestartK3s, Return, Goto
  <2> QED
    BY <1>1, <2>1, <2>2, <2>3, <2>4, <2>5, <2>6
<1>2. CASE Check
  <2>1. pc' \in {"agent", "enter infra", "rollback"} \/ outcome' \in {"failed", "preserved"}
    BY <1>2, Successors, DoorsEnd DEF Check, Goto
  <2> QED
    BY <2>1
<1>3. CASE Add
  <2>1. Goto(Duty[pc].next) \/ Fail(Duty[pc].door)
    BY <1>3 DEF Add
  <2>2. pc \in DOMAIN Duty
    BY <1>3 DEF Add
  <2>3. CASE Goto(Duty[pc].next)
    <3>1. Duty[pc].next # "idle"
      BY <2>2, Successors
    <3> QED
      BY <2>3, <3>1 DEF Goto
  <2>4. CASE Fail(Duty[pc].door)
    <3>1. Duty[pc].door \in {"eager", "cleanup"}
      BY <2>2, Successors
    <3> QED
      BY <2>4, <3>1, DoorsEnd
  <2> QED
    BY <2>1, <2>3, <2>4
<1>4. CASE ApplyRelease
  <2>1. pc' \in {"keys", "enter sets", "rollback"} \/ outcome' \in {"preserved", "panicked"}
    BY <1>4, Successors, DoorsEnd DEF ApplyRelease, Goto, Return
  <2> QED
    BY <2>1
<1>5. CASE EnterSet \/ ApplyNext \/ JoinSet
  <2>1. EnterSet => pc' \in {"infra", "sets", "rollback"} \/ outcome' = "preserved"
    BY DoorsEnd DEF EnterSet, Spawn, Goto
  <2>2. ApplyNext => pc' \in DOMAIN Rollout
    BY DEF ApplyNext
  <2>3. JoinSet => pc' \in {"replicas", "zonctl", "rollback"} \/ outcome' = "preserved"
    BY DoorsEnd DEF JoinSet, Goto
  <2> QED
    BY <1>5, <2>1, <2>2, <2>3, Labels
<1>6. CASE SaveReceipt
  BY <1>6, DoorsEnd DEF SaveReceipt, Return
<1>7. CASE Undo
  BY <1>7 DEF Undo, UndoOne
<1>8. CASE RollbackDone
  BY <1>8 DEF RollbackDone, Return
<1>9. CASE Begin \/ BeginTeardown \/ Crash \/ Repair
  BY <1>9 DEF Begin, BeginTeardown, Crash, Repair
<1>10. CASE TearingDown
  <2>1. pc' = "idle" => outcome' \in {"failed", "torn down"}
    BY <1>10 DEF TearingDown, TeardownFails, StopK3s, Unlink, DropReceipt, WipeData, WipeDatabase,
       WipeState, DropZonctl, RestoreHostDNS, DropAgent, TeardownStep
  <2> QED
    BY <2>1
<1>11. CASE PostgresWrites
  BY <1>11
<1> QED
  BY <1>1, <1>2, <1>3, <1>4, <1>5, <1>6, <1>7, <1>8, <1>9, <1>10, <1>11 DEF Next, Installing

\* An install is reported as done only behind its last step.
LEMMA CompleteStep ==
    TypeInv /\ StackInv /\ Forward /\ InstalledIsComplete /\ [Next]_vars => InstalledIsComplete'
<1> SUFFICES ASSUME TypeInv, StackInv, Forward, InstalledIsComplete, [Next]_vars,
                    pc' = "idle", outcome' = "installed"
             PROVE  InstalledIsComplete'
  BY DEF InstalledIsComplete
<1>1. CASE UNCHANGED vars \/ PostgresWrites
  <2>1. UNCHANGED <<pc, outcome, receipt, files, process, present>>
    BY <1>1 DEF vars, PostgresWrites, k3s
  <2> QED
    BY <2>1 DEF InstalledIsComplete, Active, Detected
<1>2. CASE SaveReceipt /\ receipt'
  <2>1. pc = "receipt" /\ UNCHANGED <<files, process, present>>
    BY <1>2 DEF SaveReceipt, k3s
  <2>2. Active' /\ Detected'
    BY <2>1 DEF StackInv, Forward, UnitThere, Active, Detected, Late
  <2>3. /\ {"packages", "images", "pullsecrets", "agent", "replicas", "tls", "keys", "zonctl",
            "system", "apps", "infra", "broker"} \subseteq present
        /\ "coredns" \in Capability => "dns" \in present
        /\ \A w \in Rollout.sets : \A i \in 1..Len(w) : w[i] \in present
    BY <2>1 DEF Forward, Built, Early, Late
  <2>4. DOMAIN Duty \cup DOMAIN After \subseteq present
    BY <2>3, Labels
  <2>5. UNION {{w[i] : i \in 1..Len(w)} : w \in Rollout.infra \cup Rollout.sets} \subseteq present
    <3>1. \A w \in Rollout.infra : \A i \in 1..Len(w) : w[i] \in {"infra", "broker"}
      <4>1. Rollout.infra = {<<"infra">>, <<"broker">>}
        BY DEF Rollout
      <4> QED
        BY <4>1
    <3> QED
      BY <2>3, <3>1
  <2> QED
    BY <1>2, <2>1, <2>2, <2>3, <2>4, <2>5 DEF InstalledIsComplete
<1> QED
  BY <1>1, <1>2, Ends

\* An install that is reported as done has everything of its profile: each
\* label of the way forward stands for the pieces of the steps behind it,
\* and the receipt is the last (Install, state.Save at the end).
THEOREM InstalledTheorem == Spec => []InstalledIsComplete
<1>1. Init => Forward /\ InstalledIsComplete
  <2>1. ASSUME Init PROVE pc = "idle" /\ outcome = "none"
    BY <2>1 DEF Init
  <2> QED
    BY <2>1 DEF Forward, Built, Rolling, UnitThere, InstalledIsComplete, Early, Late
<1>2. TypeInv /\ Forward /\ [Next]_vars => Forward'
  BY HostForward, K3sForward, ApplianceForward, SetsForward, AroundForward DEF Installing
<1> QED
  BY Stacked, <1>1, <1>2, CompleteStep, PTL DEF Spec

-----------------------------------------------------------------------------
(* A clean failure leaves nothing.                                         *)

\* A rollback of p is on the stack or with a goroutine that will send it.
Armed(p) == On(p, stack) \/ \E v \in running : On(p, v.undo)

\* What the install added, and what a failed step does not leave in part, has
\* its rollback as long as none has failed.
ArmedInv ==
    /\ pc = "gate" => present = before
    /\ pc \in Install \ {"gate"} /\ ~errs => \A p \in Left \cap Clean : Armed(p)

\* The rollback of the database directory lies below that of K3s.
K3sAbove(s) ==
    \E i, j \in 1..Len(s) : j < i /\ s[j] = "database" /\ s[i] = "k3s"

\* K3s is gone, and the directory is, or will be once its rollback has run.
Stopped ==
    /\ ~Active /\ \A f \in File : files[f] = "none"
    /\ database = "empty" \/ On("database", stack)

\* An install that started K3s stops it before it empties the directory.
StartedInv ==
    /\ pc \in Early => ~started
    /\ pc \in Early \ {"gate"} => On("database", stack)
    /\ pc \in Install /\ started /\ ~errs => K3sAbove(stack) \/ (pc = "rollback" /\ Stopped)

\* A rollback stays on a stack that grows,
LEMMA OnAppend ==
    ASSUME NEW s \in Seq(Undoable), NEW q \in Undoable
    PROVE  /\ On(q, Append(s, q))
           /\ \A p : On(p, s) => On(p, Append(s, q))
           /\ K3sAbove(s) => K3sAbove(Append(s, q))
           /\ On("database", s) /\ q = "k3s" => K3sAbove(Append(s, q))
<1>1. /\ Len(s) \in Nat /\ Len(Append(s, q)) = Len(s) + 1
      /\ \A i \in 1..Len(s) : Append(s, q)[i] = s[i]
      /\ Append(s, q)[Len(s) + 1] = q
  BY AppendProperties
<1>2. \A i \in 1..Len(s) : i \in 1..Len(Append(s, q)) /\ i < Len(s) + 1
  BY <1>1
<1>3. Len(s) + 1 \in 1..Len(Append(s, q))
  BY <1>1
<1>4. On(q, Append(s, q)) /\ \A p : On(p, s) => On(p, Append(s, q))
  BY <1>1, <1>2, <1>3 DEF On
<1>5. K3sAbove(s) => K3sAbove(Append(s, q))
  BY <1>1, <1>2 DEF K3sAbove
<1>6. On("database", s) /\ q = "k3s" => K3sAbove(Append(s, q))
  BY <1>1, <1>2, <1>3 DEF On, K3sAbove
<1> QED
  BY <1>4, <1>5, <1>6

\* or takes those of a goroutine on top,
LEMMA OnConcat ==
    ASSUME NEW s \in Seq(Undoable), NEW u \in Seq(Undoable)
    PROVE  /\ \A p : On(p, s) \/ On(p, u) => On(p, s \o u)
           /\ K3sAbove(s) => K3sAbove(s \o u)
<1>1. /\ Len(s) \in Nat /\ Len(u) \in Nat /\ Len(s \o u) = Len(s) + Len(u)
      /\ \A i \in 1..Len(s \o u) : (s \o u)[i] = IF i <= Len(s) THEN s[i] ELSE u[i - Len(s)]
  BY ConcatProperties
<1>2. \A i \in 1..Len(s) : i \in 1..Len(s \o u) /\ (s \o u)[i] = s[i]
  BY <1>1
<1>3. \A i \in 1..Len(u) : Len(s) + i \in 1..Len(s \o u) /\ (s \o u)[Len(s) + i] = u[i]
  BY <1>1
<1>4. \A p : On(p, s) \/ On(p, u) => On(p, s \o u)
  BY <1>2, <1>3 DEF On
<1>5. K3sAbove(s) => K3sAbove(s \o u)
  BY <1>2 DEF K3sAbove
<1> QED
  BY <1>4, <1>5

\* and is the next one if it does not stay when the next one is taken.
LEMMA OnFront ==
    ASSUME stack \in Seq(Undoable), stack # <<>>
    PROVE  /\ \A p : On(p, stack) => p = Last(stack) \/ On(p, Front(stack))
           /\ K3sAbove(stack) => \/ K3sAbove(Front(stack))
                                 \/ Last(stack) = "k3s" /\ On("database", Front(stack))
<1>1. /\ Last(stack) = stack[Len(stack)] /\ Len(Front(stack)) = Len(stack) - 1
      /\ \A i \in 1..Len(Front(stack)) : Front(stack)[i] = stack[i]
  BY NextRollback
<1>2. Len(stack) \in Nat \ {0}
  BY EmptySeq
<1>3. \A i \in 1..Len(stack) : i = Len(stack) \/ i \in 1..Len(Front(stack))
  BY <1>1, <1>2
<1>4. \A i, j \in 1..Len(stack) : j < i => j \in 1..Len(Front(stack))
  BY <1>1, <1>2
<1>5. \A p : On(p, stack) => p = Last(stack) \/ On(p, Front(stack))
  BY <1>1, <1>3 DEF On
<1>6. K3sAbove(stack) => \/ K3sAbove(Front(stack))
                         \/ Last(stack) = "k3s" /\ On("database", Front(stack))
  <2> SUFFICES ASSUME NEW i \in 1..Len(stack), NEW j \in 1..Len(stack), j < i,
                      stack[j] = "database", stack[i] = "k3s"
               PROVE  \/ K3sAbove(Front(stack))
                      \/ Last(stack) = "k3s" /\ On("database", Front(stack))
    BY DEF K3sAbove
  <2>1. j \in 1..Len(Front(stack)) /\ Front(stack)[j] = "database"
    BY <1>1, <1>4
  <2>2. CASE i = Len(stack)
    BY <1>1, <2>1, <2>2 DEF On
  <2>3. CASE i # Len(stack)
    <3>1. i \in 1..Len(Front(stack)) /\ Front(stack)[i] = "k3s"
      BY <1>1, <1>3, <2>3
    <3> QED
      BY <2>1, <3>1 DEF K3sAbove
  <2> QED
    BY <2>2, <2>3
<1> QED
  BY <1>5, <1>6

\* Which pieces leave no parts, entry by entry.
LEMMA Parts ==
    /\ Duty["agent"].left = "nothing" /\ Duty["keys"].left = "nothing"
    /\ Duty["zonctl"].left = "nothing" /\ Duty["replicas"].left = "armed"
    /\ \A p \in {"packages", "images", "pullsecrets", "tls"} :
          Duty[p].left = "part" /\ p \notin Clean
BY Labels DEF Duty, Clean

\* A step that adds no piece without its rollback keeps every piece armed.
LEMMA StillArmed ==
    ASSUME ArmedInv, pc \in Install \ {"gate"}, pc' # "gate",
           UNCHANGED <<before, errs>>,
           \A p \in Clean \cap present' : p \in present \/ Armed(p)',
           \A p \in Clean : Armed(p) => Armed(p)'
    PROVE  ArmedInv'
<1> SUFFICES ASSUME ~errs, NEW p \in Left' \cap Clean PROVE Armed(p)'
  BY DEF ArmedInv
<1>1. p \in Clean \cap present' /\ p \notin before
  BY DEF Left
<1>2. CASE p \in present
  BY <1>1, <1>2 DEF ArmedInv, Left
<1> QED
  BY <1>1, <1>2

\* Outside of an install nothing is claimed.
LEMMA NotArmed ==
    ASSUME pc' \in {"idle"} \cup Teardown
    PROVE  ArmedInv' /\ StartedInv'
BY Phases DEF ArmedInv, StartedInv, Early

\* A step that leaves stack and goroutines alone, or pushes onto the stack.
LEMMA PushKeepsArmed ==
    ASSUME TypeOK, UNCHANGED running,
           stack' = stack \/ \E q \in Undoable : stack' = Append(stack, q)
    PROVE  \A p : Armed(p) => Armed(p)'
BY OnAppend DEF TypeOK, Armed

\* The gate lets an install through with nothing of its own on the host.
LEMMA GateArmed == TypeInv /\ ArmedInv /\ Gate => ArmedInv'
<1> SUFFICES ASSUME TypeInv, ArmedInv, Gate, pc' # "idle" PROVE ArmedInv'
  BY NotArmed
<1>1. pc = "gate" /\ pc' = "dns" /\ present' = present /\ before' = before
  BY DEF Gate, Return, Goto
<1> QED
  BY <1>1 DEF ArmedInv, Left

\* The steps on the host put their one piece on the stack.
LEMMA HostArmed ==
    TypeInv /\ ArmedInv /\ (PrepareHostDNS \/ Check \/ CleanNetwork \/ Wipe \/ WriteFile
                            \/ StartK3s \/ RestartK3s \/ EnterSet \/ JoinSet \/ SaveReceipt)
        => ArmedInv'
<1> SUFFICES ASSUME TypeInv, ArmedInv,
                    PrepareHostDNS \/ Check \/ CleanNetwork \/ Wipe \/ WriteFile
                    \/ StartK3s \/ RestartK3s \/ EnterSet \/ JoinSet \/ SaveReceipt,
                    pc' # "idle"
             PROVE  ArmedInv'
  BY NotArmed
<1>1. pc \in Install \ {"gate"} /\ UNCHANGED before
  BY UnderwayPast DEF Underway
<1>2. UNCHANGED errs /\ pc' # "gate"
  <2>1. CASE PrepareHostDNS \/ CleanNetwork \/ Wipe \/ StartK3s \/ RestartK3s
    BY <2>1 DEF PrepareHostDNS, CleanNetwork, Wipe, StartK3s, RestartK3s, Goto, Return, Eager
  <2>4. CASE WriteFile \/ SaveReceipt
    BY <2>4, Doors DEF TypeInv, WriteFile, SaveReceipt, File, Goto, Return
  <2>2. CASE Check
    BY <2>2, Successors, Doors DEF TypeInv, Check, Goto
  <2>3. CASE EnterSet \/ JoinSet
    BY <2>3, Doors DEF TypeInv, EnterSet, JoinSet, Spawn, Goto
  <2> QED
    BY <2>1, <2>2, <2>3, <2>4
<1>3. CASE PrepareHostDNS
  <2>1. /\ UNCHANGED running /\ present' \subseteq present \cup {"dns"}
        /\ \/ present' = present /\ stack' = stack
           \/ stack' = Append(stack, "dns")
    BY <1>3 DEF PrepareHostDNS, Return, sets
  <2>2. "dns" \in Undoable
    BY DEF Undoable, Piece, OnHost
  <2>3. \A p \in Clean \cap present' : p \in present \/ Armed(p)'
    BY <2>1, <2>2, OnAppend DEF Armed, TypeInv, TypeOK
  <2> QED
    BY <1>1, <1>2, <2>1, <2>2, <2>3, PushKeepsArmed, StillArmed DEF TypeInv
<1>4. CASE StartK3s
  <2>1. UNCHANGED <<running, present>> /\ (stack' = stack \/ stack' = Append(stack, "k3s"))
    BY <1>4 DEF StartK3s, Push, flags, sets
  <2>2. "k3s" \in Undoable
    BY DEF Undoable
  <2> QED
    BY <1>1, <1>2, <2>1, <2>2, PushKeepsArmed, StillArmed DEF TypeInv
<1>5. CASE EnterSet
  <2>1. UNCHANGED <<stack, present>>
    BY <1>5 DEF EnterSet
  <2>2. running = {}
    BY <1>5, NothingRuns DEF TypeInv, EnterSet
  <2> QED
    BY <1>1, <1>2, <2>1, <2>2, StillArmed DEF Armed
<1>6. CASE Check \/ CleanNetwork \/ Wipe \/ WriteFile \/ RestartK3s \/ JoinSet \/ SaveReceipt
  <2>1. UNCHANGED <<running, stack>> /\ present' \subseteq present
    BY <1>6 DEF Check, CleanNetwork, Wipe, WriteFile, RestartK3s, JoinSet, SaveReceipt, sets
  <2> QED
    BY <1>1, <1>2, <2>1, PushKeepsArmed, StillArmed DEF TypeInv
<1> QED
  BY <1>3, <1>4, <1>5, <1>6

\* So do those that add a piece to the appliance; what a failed one may have
\* added without its rollback is a part.
LEMMA ApplianceArmed == TypeInv /\ ArmedInv /\ (Add \/ ApplyRelease) => ArmedInv'
<1> SUFFICES ASSUME TypeInv, ArmedInv, Add \/ ApplyRelease, pc' # "idle" PROVE ArmedInv'
  BY NotArmed
<1>1. pc \in Install \ {"gate"} /\ UNCHANGED before
  BY UnderwayPast DEF Underway
<1>2. UNCHANGED running /\ pc \in Undoable
  BY Labels DEF Add, ApplyRelease, sets, Undoable, Piece, InCluster, OnHost, Chart
<1>3. UNCHANGED errs /\ pc' # "gate"
  BY Successors, Doors DEF TypeInv, Add, ApplyRelease, Goto, Return
<1>4. stack' = stack \/ stack' = Append(stack, pc)
  BY DEF Add, ApplyRelease, Arm, Push
<1>5. present' \subseteq present \cup {pc}
  BY DEF Add, ApplyRelease
<1>6. pc \in Clean /\ pc \in present' => pc \in present \/ stack' = Append(stack, pc)
  <2>1. CASE Add
    <3>1. CASE Duty[pc].left = "part"
      <4>1. pc \notin Clean
        BY <2>1, <3>1 DEF Add, Clean
      <4> QED
        BY <4>1
    <3>2. CASE Duty[pc].left # "part"
      <4>1. pc \in DOMAIN Duty => Duty[pc].left \in {"part", "nothing", "armed"}
        BY Labels DEF Duty
      <4> QED
        BY <2>1, <3>2, <4>1 DEF Add, Arm
    <3> QED
      BY <3>1, <3>2
  <2>2. CASE ApplyRelease
    BY <2>2 DEF ApplyRelease, Push
  <2> QED
    BY <2>1, <2>2
<1>7. \A p \in Clean \cap present' : p \in present \/ Armed(p)'
  BY <1>2, <1>4, <1>5, <1>6, OnAppend DEF Armed, TypeInv, TypeOK
<1> QED
  BY <1>1, <1>2, <1>3, <1>4, <1>7, PushKeepsArmed, StillArmed DEF TypeInv

\* A goroutine keeps the rollbacks of its releases until it sends them.
LEMMA SetsArmed == TypeInv /\ ArmedInv /\ ApplyNext => ArmedInv'
<1> SUFFICES ASSUME TypeInv, ArmedInv, ApplyNext PROVE ArmedInv'
  OBVIOUS
<1>1. pc \in Install \ {"gate"} /\ UNCHANGED before
  BY UnderwayPast DEF Underway
<1>2. UNCHANGED <<pc, errs>>
  BY DEF ApplyNext
<1>3. PICK w \in running :
          LET c == Head(w.todo)
              undo == Append(w.undo, c)
          IN  \/ /\ present' = present \cup {c} /\ UNCHANGED broken
                 /\ IF Len(w.todo) = 1 THEN Send(w, undo)
                    ELSE /\ running' = (running \ {w})
                                       \cup {[todo |-> Tail(w.todo), undo |-> undo]}
                         /\ UNCHANGED stack
              \/ present' \in {present, present \cup {c}} /\ broken' = TRUE /\ Send(w, undo)
              \/ UNCHANGED present /\ broken' = TRUE /\ Send(w, w.undo)
  BY DEF ApplyNext
<1> DEFINE c == Head(w.todo)
           undo == Append(w.undo, c)
<1>4. w \in [todo : Seq(Chart), undo : Seq(Chart)] /\ w.todo # <<>>
  BY DEF TypeInv, TypeOK, Work
<1>5. c \in Chart /\ undo \in Seq(Chart) /\ w.undo \in Seq(Chart)
  BY <1>4, NextRelease
<1>6. stack \in Seq(Undoable) /\ undo \in Seq(Undoable) /\ w.undo \in Seq(Undoable)
      /\ c \in Undoable
  BY <1>5, ChartsAreUndoable DEF TypeInv, TypeOK
<1>7. \A p : On(p, w.undo) \/ p = c => On(p, undo)
  BY <1>6, OnAppend
<1> HIDE DEF undo, c
<1>8. \/ /\ \A p : On(p, stack) \/ On(p, undo) => On(p, stack')
         /\ running' = running \ {w} /\ present' \subseteq present \cup {c}
      \/ /\ stack' = stack /\ present' = present \cup {c}
         /\ running' = (running \ {w}) \cup {[todo |-> Tail(w.todo), undo |-> undo]}
      \/ /\ \A p : On(p, stack) \/ On(p, w.undo) => On(p, stack')
         /\ running' = running \ {w} /\ present' = present
  <2>1. /\ \A p : On(p, stack) \/ On(p, undo) => On(p, stack \o undo)
        /\ \A p : On(p, stack) \/ On(p, w.undo) => On(p, stack \o w.undo)
    BY <1>6, OnConcat
  <2>2. \/ Send(w, undo) /\ present' \subseteq present \cup {c}
        \/ /\ stack' = stack /\ present' = present \cup {c}
           /\ running' = (running \ {w}) \cup {[todo |-> Tail(w.todo), undo |-> undo]}
        \/ Send(w, w.undo) /\ present' = present
    BY <1>3 DEF undo, c
  <2> QED
    BY <2>1, <2>2 DEF Send
<1>9. \A p : Armed(p) => Armed(p)'
  <2> SUFFICES ASSUME NEW p, Armed(p) PROVE Armed(p)'
    OBVIOUS
  <2>1. CASE On(p, stack)
    <3>1. On(p, stack')
      BY <1>8, <2>1
    <3> QED
      BY <3>1 DEF Armed
  <2>2. CASE \E v \in running \ {w} : On(p, v.undo)
    <3>1. running \ {w} \subseteq running'
      BY <1>8
    <3> QED
      BY <2>2, <3>1 DEF Armed
  <2>3. CASE On(p, w.undo)
    <3>1. On(p, undo)
      BY <1>7, <2>3
    <3>2. \/ On(p, stack')
          \/ [todo |-> Tail(w.todo), undo |-> undo] \in running'
      BY <1>8, <2>3, <3>1
    <3> QED
      BY <3>1, <3>2 DEF Armed
  <2> QED
    BY <2>1, <2>2, <2>3 DEF Armed
<1>10. \A p \in Clean \cap present' : p \in present \/ Armed(p)'
  <2> SUFFICES ASSUME NEW p \in present', p \notin present PROVE Armed(p)'
    OBVIOUS
  <2>1. p = c /\ On(p, undo)
    BY <1>7, <1>8
  <2>2. On(p, stack') \/ [todo |-> Tail(w.todo), undo |-> undo] \in running'
    BY <1>8, <2>1
  <2> QED
    BY <2>1, <2>2 DEF Armed
<1> QED
  BY <1>1, <1>2, <1>9, <1>10, StillArmed

\* A rollback takes from the host the piece whose rollback it was.
LEMMA UndoArmed == TypeInv /\ ArmedInv /\ (Undo \/ RollbackDone) => ArmedInv'
<1> SUFFICES ASSUME TypeInv, ArmedInv, Undo, ~errs' PROVE ArmedInv'
  <2>1. Undo => pc' = "rollback"
    BY DEF Undo, UndoOne
  <2>2. RollbackDone => pc' = "idle"
    BY DEF RollbackDone, Return
  <2>3. Undo /\ errs' => ArmedInv'
    BY <2>1 DEF ArmedInv
  <2> QED
    BY <2>2, <2>3, NotArmed
<1>1. /\ pc = "rollback" /\ pc' = "rollback" /\ stack # <<>> /\ stack' = Front(stack)
      /\ UNCHANGED <<before, running>>
  BY DEF Undo, UndoOne, flags, sets
<1>2. running = {}
  BY <1>1, NothingRuns DEF TypeInv
<1>3. ~errs /\ pc \in Install \ {"gate"}
  <2>1. ~errs
    BY DEF Undo, UndoOne, UndoFails
  <2> QED
    BY <1>1, <2>1, Steps
<1>4. /\ present' \subseteq present
      /\ Last(stack) \in Piece => Last(stack) \notin present'
  BY <1>3, Apart DEF Undo, UndoOne, UndoK3s, UndoDatabase, UndoPiece, UndoFails
<1> SUFFICES ASSUME NEW p \in Left' \cap Clean PROVE Armed(p)'
  BY <1>1 DEF ArmedInv
<1>5. p \in Left \cap Clean /\ p \in Piece /\ p \in present'
  BY <1>1, <1>4 DEF Left, Clean
<1>6. On(p, stack)
  BY <1>2, <1>3, <1>5 DEF ArmedInv, Armed
<1>7. p # Last(stack)
  BY <1>4, <1>5
<1>8. On(p, Front(stack))
  BY <1>1, <1>6, <1>7, OnFront DEF TypeInv, TypeOK
<1> QED
  BY <1>1, <1>8 DEF Armed

\* Whatever is not a step of the install leaves that to it.
LEMMA AroundArmed ==
    TypeInv /\ ArmedInv /\ [Next]_vars /\ ~Installing => ArmedInv'
<1> SUFFICES ASSUME TypeInv, ArmedInv, [Next]_vars, ~Installing PROVE ArmedInv'
  OBVIOUS
<1>1. CASE UNCHANGED vars \/ PostgresWrites
  <2>1. UNCHANGED <<pc, present, before, errs, stack, running>>
    BY <1>1 DEF vars, PostgresWrites, flags, sets
  <2>2. \A p : Armed(p) => Armed(p)'
    BY <2>1 DEF Armed
  <2> QED
    BY <2>1, <2>2 DEF ArmedInv, Left
<1>2. CASE Begin
  BY <1>2 DEF Begin, ArmedInv
<1>3. CASE BeginTeardown \/ Crash \/ Repair \/ TearingDown
  <2>1. pc' \in {"idle"} \cup Teardown
    BY <1>3 DEF BeginTeardown, Crash, Repair, TearingDown, TeardownFails, StopK3s, Unlink,
       DropReceipt, WipeData, WipeDatabase, WipeState, DropZonctl, RestoreHostDNS, DropAgent,
       TeardownStep, Teardown
  <2> QED
    BY <2>1, NotArmed
<1> QED
  BY <1>1, <1>2, <1>3 DEF Next

\* Before K3s is started the rollback of the database directory is put on the
\* stack, and stays there.
LEMMA HostStarted ==
    TypeInv /\ StartedInv /\ (Gate \/ PrepareHostDNS \/ CleanNetwork \/ Wipe \/ WriteFile
                              \/ StartK3s)
        => StartedInv'
<1> SUFFICES ASSUME TypeInv, StartedInv,
                    Gate \/ PrepareHostDNS \/ CleanNetwork \/ Wipe \/ WriteFile \/ StartK3s,
                    pc' # "idle"
             PROVE  StartedInv'
  BY NotArmed
<1>1. stack \in Seq(Undoable) /\ {"database", "dns", "k3s"} \subseteq Undoable
  BY DEF TypeInv, TypeOK, Undoable, Piece, OnHost
<1>2. CASE Gate
  <2>1. pc = "gate" /\ pc' = "dns" /\ started' = started /\ stack' = Append(stack, "database")
    BY <1>2 DEF Gate, Goto, Return, Push
  <2>2. ~started' /\ On("database", stack')
    BY <1>1, <2>1, OnAppend DEF StartedInv, Early
  <2> QED
    BY <2>1, <2>2 DEF StartedInv
<1>3. CASE PrepareHostDNS \/ CleanNetwork \/ Wipe \/ WriteFile
  <2>1. pc \in Early \ {"gate"} /\ started' = started
        /\ (stack' = stack \/ stack' = Append(stack, "dns"))
    BY <1>3 DEF PrepareHostDNS, CleanNetwork, Wipe, WriteFile, Early, File
  <2>2. ~started' /\ On("database", stack')
    BY <1>1, <2>1, OnAppend DEF StartedInv
  <2> QED
    BY <2>2 DEF StartedInv
<1>4. CASE StartK3s
  <2>1. pc \in Early \ {"gate"} /\ pc' = "images" /\ stack' = Append(stack, "k3s")
    BY <1>4 DEF StartK3s, Goto, Return, Push, Early
  <2>2. K3sAbove(stack')
    BY <1>1, <2>1, OnAppend DEF StartedInv
  <2> QED
    BY <2>1, <2>2 DEF StartedInv, Early
<1> QED
  BY <1>2, <1>3, <1>4

\* Behind the start of K3s the stack only grows.
LEMMA ApplianceStarted ==
    TypeInv /\ StartedInv /\ (Check \/ RestartK3s \/ Add \/ ApplyRelease \/ EnterSet \/ ApplyNext
                              \/ JoinSet \/ SaveReceipt)
        => StartedInv'
<1> SUFFICES ASSUME TypeInv, StartedInv,
                    Check \/ RestartK3s \/ Add \/ ApplyRelease \/ EnterSet \/ ApplyNext
                    \/ JoinSet \/ SaveReceipt,
                    pc' # "idle"
             PROVE  StartedInv'
  BY NotArmed
<1>1. stack \in Seq(Undoable)
  BY DEF TypeInv, TypeOK
<1>2. pc \in Install \ {"gate"} /\ pc # "rollback"
  BY UnderwayPast, Labels DEF Underway, Check, RestartK3s, Add, ApplyRelease, EnterSet, ApplyNext,
     JoinSet, SaveReceipt
<1>3. started' = started /\ errs' = errs
  <2>1. CASE Check \/ Add \/ ApplyRelease
    BY <2>1, Successors, Doors DEF TypeInv, Check, Add, ApplyRelease, Goto, Return
  <2>2. CASE EnterSet \/ ApplyNext \/ JoinSet
    BY <2>2, Doors DEF TypeInv, EnterSet, ApplyNext, JoinSet, Spawn, Goto
  <2>3. CASE RestartK3s \/ SaveReceipt
    BY <2>3, Doors DEF TypeInv, RestartK3s, SaveReceipt, Goto, Return
  <2> QED
    BY <2>1, <2>2, <2>3
<1>4. \/ stack' = stack
      \/ \E q \in Undoable : stack' = Append(stack, q)
      \/ \E u \in Seq(Undoable) : stack' = stack \o u
  <2>1. CASE Check \/ RestartK3s \/ EnterSet \/ JoinSet \/ SaveReceipt
    BY <2>1 DEF Check, RestartK3s, EnterSet, JoinSet, SaveReceipt
  <2>2. CASE Add \/ ApplyRelease
    <3>1. pc \in Undoable
      BY <2>2, Labels DEF Add, ApplyRelease, Undoable, Piece, InCluster, OnHost, Chart
    <3> QED
      BY <2>2, <3>1 DEF Add, ApplyRelease, Arm, Push
  <2>3. CASE ApplyNext
    <3>1. PICK w \in running :
              \/ stack' = stack
              \/ stack' = stack \o Append(w.undo, Head(w.todo))
              \/ stack' = stack \o w.undo
      BY <2>3 DEF ApplyNext, Send
    <3>2. w \in [todo : Seq(Chart), undo : Seq(Chart)] /\ w.todo # <<>>
      BY DEF TypeInv, TypeOK, Work
    <3>3. Append(w.undo, Head(w.todo)) \in Seq(Chart) /\ w.undo \in Seq(Chart)
      BY <3>2, NextRelease
    <3>4. Append(w.undo, Head(w.todo)) \in Seq(Undoable) /\ w.undo \in Seq(Undoable)
      BY <3>3, ChartsAreUndoable
    <3> QED
      BY <3>1, <3>4
  <2> QED
    BY <2>1, <2>2, <2>3
<1>5. /\ On("database", stack) => On("database", stack')
      /\ K3sAbove(stack) => K3sAbove(stack')
  BY <1>1, <1>4, OnAppend, OnConcat
<1>6. pc' \in Early => pc \in Early \ {"gate"}
  <2>1. CASE Check \/ ApplyRelease \/ EnterSet \/ ApplyNext \/ JoinSet \/ RestartK3s \/ SaveReceipt
    <3>1. pc' \notin Early \/ pc' = "idle"
      <4>1. CASE Check \/ ApplyRelease
        <5>1. pc' \in {"agent", "enter infra", "keys", "enter sets", "idle", "rollback"}
          BY <4>1, Successors, Doors DEF TypeInv, Check, ApplyRelease, Goto, Return
        <5> QED
          BY <5>1 DEF Early
      <4>2. CASE EnterSet \/ ApplyNext \/ JoinSet
        <5>1. pc' \in {"infra", "sets", "replicas", "zonctl", "idle", "rollback"}
          BY <4>2, Doors, Labels DEF TypeInv, EnterSet, ApplyNext, JoinSet, Spawn, Goto
        <5> QED
          BY <5>1 DEF Early
      <4>3. CASE RestartK3s \/ SaveReceipt
        <5>1. pc' \in {"images", "idle", "rollback"}
          BY <4>3, Doors DEF TypeInv, RestartK3s, SaveReceipt, Goto, Return
        <5> QED
          BY <5>1 DEF Early
      <4> QED
        BY <2>1, <4>1, <4>2, <4>3
    <3> QED
      BY <3>1
  <2>2. CASE Add
    <3>1. CASE pc = "packages"
      BY <1>2, <3>1 DEF Early
    <3>2. CASE pc # "packages"
      <4>1. pc' \in {"pullsecrets", "logs", "features", "tls", "system", "apps", "receipt",
                     "idle", "rollback"}
        <5>1. Duty[pc].next \in {"pullsecrets", "logs", "features", "tls", "system", "apps",
                                 "receipt"}
          BY <2>2, <3>2, Labels DEF Add, Duty
        <5> QED
          BY <2>2, <5>1, Successors, Doors DEF TypeInv, Add, Goto
      <4> QED
        BY <4>1 DEF Early
    <3> QED
      BY <3>1, <3>2
  <2> QED
    BY <2>1, <2>2
<1>7. CASE pc' \in Early
  BY <1>3, <1>5, <1>6, <1>7 DEF StartedInv
<1>8. CASE pc' \notin Early
  BY <1>2, <1>3, <1>5, <1>8 DEF StartedInv
<1> QED
  BY <1>7, <1>8

\* The rollback of K3s comes first and leaves only that of the directory.
LEMMA UndoStarted == TypeInv /\ StartedInv /\ (Undo \/ RollbackDone) => StartedInv'
<1>1. RollbackDone => pc' = "idle"
  BY DEF RollbackDone, Return
<1> SUFFICES ASSUME TypeInv, StartedInv, Undo, started', ~errs'
             PROVE  K3sAbove(stack') \/ Stopped'
  <2>1. Undo => pc' = "rollback"
    BY DEF Undo, UndoOne
  <2> QED
    BY <1>1, <2>1, NotArmed, Phases DEF StartedInv
<1>2. /\ pc = "rollback" /\ stack # <<>> /\ stack' = Front(stack) /\ started
  BY DEF Undo, UndoOne
<1>3. ~errs /\ pc \in Install
  <2>1. ~errs
    BY DEF Undo, UndoOne, UndoFails
  <2> QED
    BY <1>2, <2>1, Steps
<1>4. CASE /\ Last(stack) = "k3s" => UndoK3s
           /\ Last(stack) = "database" => UndoDatabase
           /\ Last(stack) \notin {"k3s", "database"} => UndoPiece(Last(stack))
  <2>1. CASE K3sAbove(stack)
    <3>1. K3sAbove(stack') \/ (Last(stack) = "k3s" /\ On("database", stack'))
      BY <1>2, <2>1, OnFront DEF TypeInv, TypeOK
    <3> QED
      BY <1>4, <3>1 DEF UndoK3s, Stopped, Active
  <2>2. CASE Stopped
    <3>1. process' = "none" /\ \A f \in File : files'[f] = "none"
      BY <1>4, <2>2 DEF Stopped, Active, UndoK3s, UndoDatabase, UndoPiece
    <3>2. database' = "empty" \/ On("database", stack')
      <4>1. CASE Last(stack) = "database"
        BY <1>4, <4>1 DEF UndoDatabase
      <4>2. CASE Last(stack) # "database"
        <5>1. database' = database
          BY <1>4, <4>2 DEF UndoK3s, UndoPiece
        <5>2. On("database", stack) => On("database", stack')
          BY <1>2, <4>2, OnFront DEF TypeInv, TypeOK
        <5> QED
          BY <2>2, <5>1, <5>2 DEF Stopped
      <4> QED
        BY <4>1, <4>2
    <3> QED
      BY <3>1, <3>2 DEF Stopped, Active
  <2> QED
    BY <1>2, <1>3, <2>1, <2>2 DEF StartedInv
<1>5. CASE UndoFails(Last(stack))
  BY <1>5 DEF UndoFails
<1> QED
  BY <1>4, <1>5 DEF Undo, UndoOne

\* Whatever is not a step of the install leaves that to it.
LEMMA AroundStarted ==
    TypeInv /\ StartedInv /\ [Next]_vars /\ ~Installing => StartedInv'
<1> SUFFICES ASSUME TypeInv, StartedInv, [Next]_vars, ~Installing PROVE StartedInv'
  OBVIOUS
<1>1. CASE UNCHANGED vars \/ PostgresWrites
  <2>1. UNCHANGED <<pc, started, errs, stack, process, files>>
    BY <1>1 DEF vars, PostgresWrites, k3s
  <2>2. Stopped => UNCHANGED database
    BY <1>1 DEF vars, PostgresWrites, Stopped
  <2> QED
    BY <2>1, <2>2 DEF StartedInv, Stopped, Active
<1>2. CASE Begin
  BY <1>2 DEF Begin, StartedInv
<1>3. CASE BeginTeardown \/ Crash \/ Repair \/ TearingDown
  <2>1. pc' \in {"idle"} \cup Teardown
    BY <1>3 DEF BeginTeardown, Crash, Repair, TearingDown, TeardownFails, StopK3s, Unlink,
       DropReceipt, WipeData, WipeDatabase, WipeState, DropZonctl, RestoreHostDNS, DropAgent,
       TeardownStep, Teardown
  <2> QED
    BY <2>1, NotArmed
<1> QED
  BY <1>1, <1>2, <1>3 DEF Next

\* An empty stack has no rollbacks.
LEMMA NoIndex == 1..0 = {}
OBVIOUS

\* The report that all was rolled back comes with an empty stack.
LEMMA CleanStep ==
    TypeInv /\ ArmedInv /\ StartedInv /\ CleanFailure /\ [Next]_vars => CleanFailure'
<1> SUFFICES ASSUME TypeInv, ArmedInv, StartedInv, CleanFailure, [Next]_vars,
                    pc' = "idle", outcome' = "rolled back"
             PROVE  Left' \cap Clean = {} /\ (started' => Unwound')
  BY DEF CleanFailure
<1>1. CASE UNCHANGED vars \/ PostgresWrites
  <2>1. UNCHANGED <<pc, outcome, present, before, started, process, files>>
    BY <1>1 DEF vars, PostgresWrites, k3s, flags
  <2>2. Unwound => UNCHANGED database
    BY <1>1 DEF vars, PostgresWrites, Unwound
  <2> QED
    BY <2>1, <2>2 DEF CleanFailure, Left, Unwound, Active
<1>2. CASE RollbackDone
  <2>1. /\ pc = "rollback" /\ stack = <<>> /\ ~errs
        /\ UNCHANGED <<present, before, started, process, files, database>>
    BY <1>2 DEF RollbackDone, Return, flags, k3s
  <2>2. running = {} /\ pc \in Install \ {"gate"} /\ 1..Len(stack) = {}
    <3>1. Len(stack) = 0
      BY <2>1
    <3>2. 1..Len(stack) = {}
      BY <3>1, NoIndex, Zenon
    <3> QED
      BY <2>1, <3>2, NothingRuns, Steps DEF TypeInv
  <2>3. \A p : ~On(p, stack)
    BY <2>2 DEF On
  <2>4. ~K3sAbove(stack)
    BY <2>2 DEF K3sAbove
  <2>5. Left \cap Clean = {}
    BY <2>1, <2>2, <2>3 DEF ArmedInv, Armed
  <2>6. started => Unwound
    BY <2>1, <2>2, <2>3, <2>4 DEF StartedInv, Stopped, Unwound
  <2> QED
    BY <2>1, <2>5, <2>6 DEF Left, Unwound, Active
<1> QED
  BY <1>1, <1>2, Ends

\* An install that reports that it was rolled back has left none of its
\* pieces, and when it had started K3s neither that nor data in the database
\* directory: each piece has its rollback until that has run, and the
\* rollback of the directory comes behind that of K3s (Install, failInstall).
THEOREM CleanFailureTheorem == Spec => []CleanFailure
<1>1. Init => ArmedInv /\ StartedInv /\ CleanFailure
  <2>1. ASSUME Init PROVE pc = "idle" /\ outcome = "none"
    BY <2>1 DEF Init
  <2> QED
    BY <2>1, Phases DEF ArmedInv, StartedInv, CleanFailure, Early
<1>2. TypeInv /\ ArmedInv /\ [Next]_vars => ArmedInv'
  BY GateArmed, HostArmed, ApplianceArmed, SetsArmed, UndoArmed, AroundArmed DEF Installing
<1>3. TypeInv /\ StartedInv /\ [Next]_vars => StartedInv'
  BY HostStarted, ApplianceStarted, UndoStarted, AroundStarted DEF Installing
<1> QED
  BY InitTyped, TypedStep, <1>1, <1>2, <1>3, CleanStep, PTL DEF Spec
=============================================================================
