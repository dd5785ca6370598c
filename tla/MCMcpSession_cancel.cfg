SPECIFICATION Spec
CONSTANTS
    Size = 2
    MaxJobs = 2
    Ids = {a, b}
    MaxPending = 2
INVARIANT
    CancelledGetsNoResponse
\* The input ends and every call is answered.
CHECK_DEADLOCK FALSE
