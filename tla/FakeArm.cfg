CONSTANTS
    Dof = 6
    Limit <- MCLimit
    Commands <- MCCommands6
    Callers <- MCCallers
    MaxClose <- MCMaxClose
SPECIFICATION Spec
INVARIANT JointsValid
