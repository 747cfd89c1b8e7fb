CONSTANTS
    NumWaypoints <- MCNumWaypoints
    Polling <- MCPolling
SPECIFICATION Spec
INVARIANT StopErrorSurfaced
