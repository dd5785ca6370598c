SPECIFICATION Spec
CONSTANTS
    Reviewers = {r1, r2}
    i = i
    q1 = q1
    q2 = q2
    f1 = f1
    f2 = f2
    None = None
    Inbox = {i}
    Project = {q1, q2}
    Files = {f1, f2}
    Targets <- TargetsOnce
    Rivals = {}
    MaxEdits = 0
    Settings <- AnyRejected
SYMMETRY Symmetry
PROPERTIES
    TerminalNotApplied
\* Each reviewer is one invocation.
CHECK_DEADLOCK FALSE
