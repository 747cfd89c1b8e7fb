CONSTANTS
    Names <- MCNames
    JsonConfigs <- MCJsonConfigs
SPECIFICATION Spec
INVARIANT RoundTrip
\* A caller converts one configuration and stops.
CHECK_DEADLOCK FALSE
