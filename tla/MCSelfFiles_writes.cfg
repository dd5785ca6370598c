\* Plans: two applications of plans that share documents, a call under the
\* registry lock, one save.  Renamed locks: three calls, one place in the inbox
\* and in a ledger, two rotated ledgers.  Workbench: twelve requests of two
\* processes, in groups of at most four.  Reviews: two reviewers, a proposal of
\* the inbox and two of projects out of three, one edit, in two settings.
SPECIFICATION FilesSpec
CONSTANTS
    Appliers = {a1, a2}
    Callers = {u}
    transform = transform
    move = move
    fix = fix
    f1 = f1
    f2 = f2
    Plans = {transform, move, fix}
    Kind <- MCKind
    Steps <- MCSteps
    Files = {f1, f2}
    Orig = Orig
    Owner = Owner
    MaxSaves = 1
    Nobody = Nobody
    Renamers = {q1, q2, q3}
    Cap = 1 Keep = 2 Room = 1
    None = None Other = Other x1 = x1 x2 = x2 x3 = x3 s1 = s1 s2 = s2 s3 = s3 n1 = n1
    n2 = n2 c1 = c1 c2 = c2 v1 = v1 v2 = v2
    Requests = {x1, x2, x3, s1, s2, s3, n1, n2, c1, c2, v1, v2}
    Type <- MCType
    Server <- MCServer
    Groups <- MCGroups
    Reviewers = {r1, r2} pi = pi p1 = p1 p2 = p2 p3 = p3 MaxEdits = 1
    Inbox = {pi}
    Project = {p1, p2, p3}
    Targets <- MCTargets
    Rivals <- MCRivals
    Settings <- MCSettings
SYMMETRY FilesSymmetry
INVARIANTS
    PlansAreWhole
    DecidedAsApplied
    BatchesAreWhole
    NoLostUpdate
    AcknowledgedIsKept
PROPERTIES
    PlansKeepOthers
    WritesWhatWasShown
    NewestKept
    ReviewedIsReplaced
\* Each process acts once.
CHECK_DEADLOCK FALSE
