\* A managed file, a seed, a synchronised file, two transactions, one edit and
\* two ends.
SPECIFICATION Spec
CONSTANTS
    a = a s = s y = y Torn = Torn Merged = Merged Removed = Removed
    Lock = Lock Mine = Mine Edited = Edited None = None
    Managed <- MCManaged
    Seeds <- MCSeeds
    Synced <- MCSynced
    MaxRuns = 2
    MaxEdits = 1
    MaxEnds = 2
PROPERTY RollbackKeepsEdits
\* The transactions are bounded.
CHECK_DEADLOCK FALSE
