CONSTANTS
    Names <- MCNames
    Configs <- MCConfigs
    StateFns <- MCStateFns
    SegmentFns <- MCSegmentFns
    MaxSteps <- MCMaxSteps
SPECIFICATION Spec
INVARIANT ShrinksToValidPrefix
