\* Adoption: a managed file, a seed, a synchronised file, two transactions, an
\* edit and two ends.  Operation lock: four processes, chains of three claims.
\* Run store: one writer of each version, two events, segments of one, two
\* requests on their way.  Journal: two processes, three events, a reserve of one.
\* Run: two agents, one candidate, five of the nine roles, a source and
\* oracles that may change, one turn.  Operations: two processes, two grants, an operation under
\* each, one takeover, one lost acknowledgment.
SPECIFICATION AgentFlowSpec
CONSTANTS
    None = None
    a = a s = s y = y Managed <- OneManaged Seeds <- OneSeed Synced <- OneSynced Lock = Lock Mine = Mine Edited = Edited
    Torn = Torn Merged = Merged Removed = Removed
    MaxRuns = 2 MaxEdits = 1 MaxEnds = 2
    Contenders = {w1, w2, w3, w4}
    Depth = 3
    Branchers = {v1, n1} FirstVersion = {v1}
    Logged = {e1, e2} Marker = Marker
    SegmentSize = 1 MaxOther = 1 MaxFlying = 2
    Keepers = {p1, p2} Keeper = p1
    Business = {b1, b2} Safety = {s1} New = New Foreign = Foreign
    Slots = 1 MaxDead = 2
    Agents = {d1, d2}
    Candidates = {k1}
    Roles = {0, 3, 4, 5, 8}
    Versions = {1, 2}
    Oracles = {1, 2}
    MaxTurns = 1 MaxEvidence = 1
    Delegates = {q1, q2}
    Grants = {g1, g2} Operations = {o1, o2}
    Under <- OwnGrant
    Budgets <- OneEach
    MaxGeneration = 1 MaxLost = 1
SYMMETRY Symmetry
INVARIANTS
    LockTellsTheTruth
    OneWriter
    AnswersStand
    DecisionsStand
    CompletedHasRun
    CarriedOutOnce
PROPERTIES
    RecoveryKeepsEdits
    HistoryOnlyGrows
    DeliversAsDecided
\* Every part may come to its bounds.
CHECK_DEADLOCK FALSE
