\* The lock of a live application is broken by a call under the registry lock.
SPECIFICATION Spec
CONSTANTS
    Appliers = {a1, a2}
    Callers = {u}
    transform = transform
    move = move
    fix = fix
    f1 = f1
    f2 = f2
    Plans = {transform, move, fix}
    Kind <- MCKind
    Steps <- MCSteps
    Files = {f1, f2}
    Orig = Orig
    Owner = Owner
    MaxSaves = 0
    Nobody = Nobody
INVARIANTS
    LiveLockStands
\* Each process acts once.
CHECK_DEADLOCK FALSE
