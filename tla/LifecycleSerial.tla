------------------------- MODULE LifecycleSerial -------------------------
(***************************************************************************)
(* The dispatch skeleton implements SerialLog as long as nobody unlinks the *)
(* lock file (no factory-reset) and nobody goes around it (no dry runs).    *)
(* An operation is running from the write of its record to the write of    *)
(* its outcome.                                                            *)
(***************************************************************************)
EXTENDS Lifecycle

Operating(p) == ~dry[p] /\ (Running(p) \/ pc[p] = "finish")

activeBar == IF \E p \in Process : Operating(p)
             THEN CHOOSE p \in Process : Operating(p)
             ELSE NoProcess

Serial == INSTANCE SerialLog WITH active <- activeBar, log <- journal,
                                  Successor <- Recoveries

ImplementsSerialLog == Serial!SerialSpec

=============================================================================
