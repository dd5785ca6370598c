\* Session: two calls and two ids: an id is used again, calls overlap in the
\* pool and in the order of their answers, and end of input comes at any point.
\* Pool: three jobs of one key, so that they queue for one slot, on two workers.
\* Lock: three calls, prompt or with every interleaving of their file operations.
SPECIFICATION ServerSpec
CONSTANTS
    Size = 2
    MaxJobs = 2
    Ids = {a, b}
    MaxPending = 2
    PoolJobs = 3
    Keys = {k1}
    AffinityLimit = 1
    Procs = {p1, p2, p3}
    NoFile = NoFile
INVARIANTS
    CallsAreAnswered
    PromptExclusion
    LockHasOwner
    SoloNeverTimesOut
PROPERTIES
    NoPacketWithoutGrant
    DrainEnds
    EverySubmittedSettles
    EveryCallEnds
\* The input ends and every call is answered; every thread exits; a call of
\* the lock is made once.
CHECK_DEADLOCK FALSE
