--------------------------- MODULE MCLifecycle ---------------------------
(* Instances of the lifecycle skeleton for TLC. *)
EXTENDS Lifecycle

\* One command of each kind the gate tells apart; the first looks at --dry-run
\* before its first change, the others do not.
ResetCommands == {"cluster-finalize", "repair", "factory-reset"}
WithDryRuns == BOOLEAN

\* Ordinary work, interrupted and recovered.
WorkCommands == {"install", "upgrade", "repair"}
LiveOnly == {FALSE}

=============================================================================
