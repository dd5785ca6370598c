\* As in the run "registries", but a plan is applied that was made before an
\* edit of the policy.
SPECIFICATION Spec
CONSTANTS
    LensIds = {"general", "professional", "public-voice", "technical", "leadership", "interview", "private"}
    Known = {"general", "professional", "public-voice", "technical", "leadership", "private"}
    Tasks = {}
    Missing = Missing
    Files = {1, 2}
    Drafts <- MCDrafts
    Directories <- MCDirectories
    Asked <- MCAsked
    MaxPlans = 2 MaxSaves = 1 MaxEdits = 1 MaxRuns = 1
    Replans = FALSE OwnerWaits = TRUE
PROPERTY
    NeverWidens
\* The bounds are reached.
CHECK_DEADLOCK FALSE
