CONSTANTS
    Names <- MCNames
    Configs <- MCConfigs
    StateFns <- MCStateFns
    SegmentFns <- MCSegmentFns
    MaxSteps <- MCMaxSteps
SPECIFICATION Spec
INVARIANT AcrossIsLongestValidPrefix
INVARIANT ValidityVerdictSound
