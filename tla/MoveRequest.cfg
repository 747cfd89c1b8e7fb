CONSTANTS
    NumWaypoints <- MCNumWaypoints
    Polling <- MCPolling
SPECIFICATION Spec
INVARIANT TypeOK
INVARIANT IndexTracksExecution
INVARIANT BaseHaltedOnReturn
PROPERTY ExecuteReturns
