---------------------------- MODULE MCRecoverySet ----------------------------
(***************************************************************************)
(* Model checking of RecoverySet: two objects, each there or not.          *)
(***************************************************************************)
EXTENDS RecoverySet

CONSTANTS o1, o2

MCObject == {o1, o2}
MCReplicas == [d \in Deployment |-> 1]

=============================================================================
