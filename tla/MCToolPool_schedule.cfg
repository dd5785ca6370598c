\* Two workers (the default of the code), three jobs, two affinity keys and room
\* for one pin: a write can wait for reads, reads can wait behind it, a key can be
\* forgotten, and every thread event can arrive late.
SPECIFICATION Spec
CONSTANTS
    Size = 2
    MaxJobs = 3
    Keys = {k1, k2}
    AffinityLimit = 1
INVARIANTS
    Bookkeeping
    ExclusiveAlone
    NoLostWakeup
PROPERTIES
    KeepsContract
    TerminatedNeverAnswers
\* The bound on jobs is reached and every thread exits.
CHECK_DEADLOCK FALSE
