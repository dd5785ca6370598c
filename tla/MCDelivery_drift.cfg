\* One agent, a source that changes while another content is submitted.
SPECIFICATION Spec
CONSTANTS
    Agents = {d1}
    Candidates = {k1}
    Roles = {0, 3, 4, 5, 8}
    Versions = {1, 2, 3}
    Oracles = {1}
    MaxTurns = 1 MaxEvidence = 1
    None = None
PROPERTY
    ResolutionCoversOneChange
\* A run completes, and comes to its bounds.
CHECK_DEADLOCK FALSE
