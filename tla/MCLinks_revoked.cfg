\* Two commands, one of several files and one of the registry, over a project
\* and its copy.
SPECIFICATION Spec
CONSTANTS
    c1 = c1 c2 = c2 g = g s = s
    None = None Home = Home Copy = Copy
    Cmds = {c1, c2}
    Lines <- MCLines
    Lenses = {g, s}
    General = g
PROPERTY RevocationStands
\* Each command runs once.
CHECK_DEADLOCK FALSE
