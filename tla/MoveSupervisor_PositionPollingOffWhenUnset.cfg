CONSTANTS
    Requests <- MCRequests
    ReplanCap <- MCReplanCap
SPECIFICATION Spec
INVARIANT PositionPollingOffWhenUnset
