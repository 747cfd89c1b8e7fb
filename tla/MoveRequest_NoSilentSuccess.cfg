CONSTANTS
    NumWaypoints <- MCNumWaypoints
    Polling <- MCPolling
SPECIFICATION Spec
INVARIANT NoSilentSuccess
