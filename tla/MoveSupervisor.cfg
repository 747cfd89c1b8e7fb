CONSTANTS
    Requests <- MCRequests
    ReplanCap <- MCReplanCap
SPECIFICATION Spec
INVARIANT ReplanBudget
INVARIANT InvalidNeverExecutes
PROPERTY Terminates
