---------------------------- MODULE SerialLog ----------------------------
(***************************************************************************)
(* What the installer lock and the transaction journal promise together,   *)
(* without files, inodes or read-then-write windows: operations run one at *)
(* a time, each visible in a one-record log from before its first change,  *)
(* and an operation that died blocks all but the permitted ones.           *)
(***************************************************************************)
CONSTANTS Process, Command, TxnId, NoProcess, NoTxn,
          Successor   \* the pairs <<c, d>> such that c may begin over a d that died

VARIABLES active,  \* the process whose operation is running, or NoProcess
          log      \* the record of the last operation begun, or NoTxn

serialVars == <<active, log>>

SerialInit == active = NoProcess /\ log = NoTxn

BeginOperation(p) ==
    /\ active = NoProcess
    /\ \E id \in TxnId, c \in Command :
          /\ log # NoTxn /\ log.status = "in-progress" => <<c, log.type>> \in Successor
          /\ log' = [id |-> id, type |-> c, status |-> "in-progress"]
    /\ active' = p

\* The operation ends.  Its outcome is written over its own record, or, when
\* that write fails, the record stays in progress.
EndOperation ==
    /\ active # NoProcess
    /\ active' = NoProcess
    /\ log' \in {log} \cup {[log EXCEPT !.status = s] : s \in {"completed", "failed"}}

\* The operation's process dies and its record stays as it is.
Die ==
    /\ active # NoProcess
    /\ active' = NoProcess
    /\ UNCHANGED log

SerialNext == (\E p \in Process : BeginOperation(p)) \/ EndOperation \/ Die

SerialSpec == SerialInit /\ [][SerialNext]_serialVars

=============================================================================
