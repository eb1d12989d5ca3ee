---------------------------- MODULE MCBackup ----------------------------
(***************************************************************************)
(* Model checking of Backup: a datastore of two files, one of which exists *)
(* only at odd versions, so that a restore can leave a file over.          *)
(***************************************************************************)
EXTENDS Backup

CONSTANTS d1, d2

MCDatastore == {d1, d2}
MCLayout == [v \in 1..MaxVersion |-> IF v % 2 = 1 THEN {d1, d2} ELSE {d1}]

=============================================================================
