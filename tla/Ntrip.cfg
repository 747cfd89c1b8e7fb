CONSTANTS
    AttemptInputs <- MCAttemptInputs
    MountPoints <- MCMountPoints
    Tables <- MCTables
SPECIFICATION Spec
INVARIANT ConnectFailureIsLastError
INVARIANT SourcetableFaithful
INVARIANT MountpointLookup
\* The client is used once: after a failed step, or once every lookup has
\* been made, the caller stops.
CHECK_DEADLOCK FALSE
