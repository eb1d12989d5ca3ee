----------------------- MODULE MCDispatchedBackup -----------------------
(***************************************************************************)
(* Model checking of DispatchedBackup: two invocations, a datastore of one *)
(* file, no second tree.                                                   *)
(***************************************************************************)
EXTENDS DispatchedBackup, TLC

CONSTANTS d1

MCDatastore == {d1}
MCLayout == [v \in 1..MaxVersion |-> {d1}]
LiveOnly == {FALSE}
Symmetry == Permutations(Process) \cup Permutations(Inode) \cup Permutations(TxnId)

=============================================================================
