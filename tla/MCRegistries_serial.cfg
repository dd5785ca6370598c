\* Clients: two calls, two names, two lenses, prompt locks.  Links: a home and
\* its copy, two lenses, and two commands of every kind.  Migration: two
\* documents of three kinds, two plans, two commands that write, one document
\* saved and one edit of the policy; "interview" is not in the registry.
SPECIFICATION RegistriesSpec
CONSTANTS
    Procs = {p1, p2}
    Prompt = TRUE
    None = None
    Names = {n1, n2}
    Lenses = {l1, l2}
    First = First
    c1 = c1
    c2 = c2
    g = g
    s = s
    Cmds = {c1, c2}
    Lines <- MCLines
    Purposes = {g, s}
    Home = Home
    Copy = Copy
    General = g
    LensIds = {"general", "professional", "public-voice", "technical", "leadership", "interview", "private"}
    Known = {"general", "professional", "public-voice", "technical", "leadership", "private"}
    Tasks = {}
    Missing = Missing
    Files = {1, 2}
    Drafts <- MCDrafts
    Directories <- MCDirectories
    Asked <- MCAsked
    MaxPlans = 2 MaxSaves = 1 MaxEdits = 1 MaxRuns = 2
    Replans = TRUE OwnerWaits = TRUE
SYMMETRY Symmetry
INVARIANTS
    ReportsStand
    ServedWasGiven
    FailedLeavesNothing
    MigrationIsUndone
PROPERTIES
    RevocationIsFinal
    NeverWidens
    RevertsInFull
\* Each call and each command is made once.
CHECK_DEADLOCK FALSE
