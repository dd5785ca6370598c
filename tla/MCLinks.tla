-------------------------------- MODULE MCLinks --------------------------------
(* A command that changes several files, beside any other command. *)
EXTENDS LinkTransaction

CONSTANTS c1, c2, g, s

Line(o, q, m, x, a) == [op |-> o, project |-> q, main |-> m, more |-> x, accept |-> a]
Plain(ops) == {Line(o, q, None, None, FALSE) : o \in ops, q \in Projects}
Naming(ops) == {Line(o, q, s, x, FALSE) : o \in ops, q \in Projects, x \in {{g}}}
Accepting(ops) == {Line(o, q, None, None, TRUE) : o \in ops, q \in Projects}
MCLines == [c \in {c1, c2} |->
    IF c = c1 THEN Plain(Linking \cup {"bind", "unbind"}) \cup Naming({"setup", "repair", "bind"}) \cup Accepting({"setup"})
    ELSE Plain({"setup", "approve", "revoke", "remove", "prune", "backfill", "bind"}) \cup Naming({"backfill"})]
=============================================================================
