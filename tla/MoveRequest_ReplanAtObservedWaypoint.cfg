CONSTANTS
    NumWaypoints <- MCNumWaypoints
    Polling <- MCPolling
SPECIFICATION Spec
PROPERTY ReplanAtObservedWaypoint
